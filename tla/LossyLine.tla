------------------------------ MODULE LossyLine ------------------------------
(***************************************************************************)
(* The receiving half of the serial interface behind a line that loses or  *)
(* changes a byte.  The reader keeps no time and checks no sum: what gets  *)
(* it back in step is that it passes over bytes until a start byte, drops  *)
(* headers announcing more than fits, and that no frame is longer than     *)
(* MAX_FRAME_SIZE.  How many frames a fault can cost is decided by those   *)
(* three and nothing else.                                                 *)
(*                                                                         *)
(* The application at the other end is not in the repository.  It sends    *)
(* frames with no start byte behind the first byte; with one, no bound     *)
(* holds, since the reader may take every frame from there on in the wrong *)
(* place.                                                                  *)
(***************************************************************************)
EXTENDS CompanionReader, FiniteSets

CONSTANTS
    Frames,       \* what the application sends
    MaxFrames,    \* bound of the model: how many of them
    MaxFaults,    \* bound of the model: how many bytes are lost or changed
    ReadSizes     \* how many bytes one read of the port may return

ASSUME FramesAssumption ==
    /\ Frames \subseteq Seq(Byte)
    /\ \A f \in Frames :
          /\ Len(f) \in HeaderSize .. MAX_FRAME_SIZE
          /\ f[1] = StartByte
          /\ f[2] + Radix * f[3] = Len(f) - HeaderSize
          /\ \A i \in 2 .. Len(f) : f[i] # StartByte

(***************************************************************************)
(* A frame is shorter than two header bytes can tell apart from its first  *)
(* length byte alone, and far from where the header wraps around.  A frame *)
(* whose length byte is the start byte is not one of the largest: it may   *)
(* be made up from the very last byte of a frame and the next frame's      *)
(* first two.  (172 and 256 in the program, and the start byte is 60.)     *)
(***************************************************************************)
ASSUME SizesAssumption == /\ MAX_FRAME_SIZE < Radix
                          /\ StartByte + 5 <= MAX_FRAME_SIZE
                          /\ MaxFrames \in Nat /\ MaxFaults \in Nat
                          /\ ReadSizes \subseteq Nat \ {0}

VARIABLES
    line,     \* bytes on their way
    sent      \* the frames sent: where each lies in the stream, and its fault

lossyVars == <<stream, consumed, rx_buffer, rx_position, command_packet_buffer, calls,
               line, sent>>

LossyInit == Init /\ line = <<>> /\ sent = <<>>

(***************************************************************************)
(* A frame is put on the line behind everything sent before.  (That this   *)
(* may also happen during a call need not be looked at: a call sees only   *)
(* the bytes it was given.)                                                *)
(***************************************************************************)
Put(bytes, fault) ==
    LET begin == Len(stream) + Len(line) IN
    /\ ~InCall
    /\ Len(sent) < MaxFrames
    /\ line' = line \o bytes
    /\ sent' = Append(sent, [begin |-> begin, end |-> begin + Len(bytes), fault |-> fault])
    /\ UNCHANGED vars

Faulty == {n \in 1 .. Len(sent) : sent[n].fault # "none"}

Send == \E frame \in Frames : Put(frame, "none")

LoseByte ==
    /\ Cardinality(Faulty) < MaxFaults
    /\ \E frame \in Frames : \E i \in 1 .. Len(frame) :
          Put(SubSeq(frame, 1, i - 1) \o SubSeq(frame, i + 1, Len(frame)), "lost")

ChangeByte ==
    /\ Cardinality(Faulty) < MaxFaults
    /\ \E frame \in Frames : \E i \in 1 .. Len(frame), byte \in Byte :
          byte # frame[i] /\ Put([frame EXCEPT ![i] = byte], "changed")

(***************************************************************************)
(* The caller's read of the port returns some of the bytes sent.           *)
(***************************************************************************)
ReadLine ==
    \E n \in ReadSizes :
       /\ n <= Len(line)
       /\ Read(SubSeq(line, 1, n))
       /\ line' = SubSeq(line, n + 1, Len(line))
       /\ UNCHANGED sent

Handle == Step /\ UNCHANGED <<line, sent>>

(***************************************************************************)
(* Nothing more is sent and every byte was handled, but for a rest smaller *)
(* than any read.                                                          *)
(***************************************************************************)
Quiet ==
    /\ ~InCall /\ Len(sent) = MaxFrames
    /\ \A n \in ReadSizes : n > Len(line)
    /\ UNCHANGED lossyVars

LossyNext == Send \/ LoseByte \/ ChangeByte \/ ReadLine \/ Handle \/ Quiet

LossySpec == LossyInit /\ [][LossyNext]_lossyVars

-----------------------------------------------------------------------------

Delivers(call, n) ==
    call.end = sent[n].end /\ call.length = sent[n].end - sent[n].begin

Delivered(n) == \E c \in 1 .. Len(calls) : Delivers(calls[c], n)

(***************************************************************************)
(* A frame without a fault of its own, and bytes behind it were looked at. *)
(***************************************************************************)
Passed(n) == sent[n].fault = "none" /\ sent[n].end < consumed

(***************************************************************************)
(* A byte lost on the line costs the frame it was lost from and at most    *)
(* the next one: the reader waits in the next frame for the bytes it       *)
(* misses, and is back in step at the start byte behind that.              *)
(***************************************************************************)
LossCostsTwoFrames ==
    \A n \in 1 .. Len(sent) :
       Passed(n) => \/ Delivered(n)
                    \/ n > 1 /\ sent[n - 1].fault = "lost"
                    \/ \E m \in 1 .. n - 1 : sent[m].fault = "changed"

(***************************************************************************)
(* Whatever a fault makes of a header, the reader is back in step one      *)
(* frame of the largest size later: a frame is delivered if it starts so   *)
(* far behind the last three bytes of a faulty one, the last place for the *)
(* header of a frame that fits to be made up.                              *)
(***************************************************************************)
FaultCostsOneWindow ==
    \A n \in 1 .. Len(sent) :
       Passed(n) => \/ Delivered(n)
                    \/ \E m \in Faulty :
                          /\ m < n
                          /\ sent[n].begin < sent[m].end - HeaderSize + MAX_FRAME_SIZE

(***************************************************************************)
(* One fault makes the server see at most one frame nobody sent: bytes     *)
(* that are passed over on the way back into step are not taken for        *)
(* commands.                                                               *)
(***************************************************************************)
OneFalseFramePerFault ==
    Cardinality({c \in 1 .. Len(calls) :
                    \A n \in 1 .. Len(sent) :
                       ~(sent[n].fault = "none" /\ Delivers(calls[c], n))})
       <= Cardinality(Faulty)
=============================================================================
