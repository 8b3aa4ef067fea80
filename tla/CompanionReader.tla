--------------------------- MODULE CompanionReader ---------------------------
(***************************************************************************)
(* The receiving half of the companion serial interface:                   *)
(* mc_companion_read_serial_command and the static variables it keeps      *)
(* between calls (companion-radio-protocol/mc_companion_serial_interface.c).*)
(*                                                                         *)
(* `stream' holds every byte the function was ever given and `consumed'    *)
(* how many of them it has taken, so the argument received_data is the     *)
(* part of the stream behind `consumed' and received_data_length its       *)
(* length; a call is running iff that is not zero.  One action is one turn *)
(* of the outer while loop (DiscardByte and FindStart: of the inner one    *)
(* that looks for the start byte).  `calls' is the history of the          *)
(* server_callback: the packet and error it got, with the place in the     *)
(* stream where the frame ended and the length of the frame.               *)
(***************************************************************************)
EXTENDS CompanionCommands

CONSTANTS
    Chunks,      \* what one read of the serial port may return
    MaxStream    \* bound of the model: bytes read before the port falls silent

ASSUME ChunkAssumption == Chunks \subseteq Seq(Byte) \ {<<>>}

ASSUME StreamAssumption == MaxStream \in Nat

VARIABLES
    stream, consumed,
    rx_buffer, rx_position,
    command_packet_buffer,
    calls

port == <<stream, consumed>>
vars == <<stream, consumed, rx_buffer, rx_position, command_packet_buffer, calls>>

received_data_length == Len(stream) - consumed

InCall == received_data_length > 0

received_byte == stream[consumed + 1]

(***************************************************************************)
(* Mutant: the length bytes in the other order.                            *)
(***************************************************************************)
AnnouncedLengthSwapped == rx_buffer[2] + Radix * rx_buffer[1]

(***************************************************************************)
(* rx_buffer[1] | (rx_buffer[2] << 8), and the uint16_t expected_length.   *)
(***************************************************************************)
AnnouncedLength == rx_buffer[1] + Radix * rx_buffer[2]

expected_length == (HeaderSize + AnnouncedLength) % WordSize

(***************************************************************************)
(* Mutant: the copy starts one byte early in the received data.            *)
(***************************************************************************)
FilledOffByOne(n) ==
    [i \in DOMAIN rx_buffer |->
        IF i \in rx_position .. rx_position + n - 1
        THEN stream[consumed + (i - rx_position)]
        ELSE rx_buffer[i]]

(***************************************************************************)
(* The buffer after n bytes were copied to rx_position and up, and the     *)
(* number of bytes the inner while loop copies in one turn.                *)
(***************************************************************************)
Filled(n) ==
    [i \in DOMAIN rx_buffer |->
        IF i \in rx_position .. rx_position + n - 1
        THEN stream[consumed + 1 + (i - rx_position)]
        ELSE rx_buffer[i]]

CopyCount ==
    IF rx_position >= expected_length THEN 0
    ELSE IF received_data_length <= expected_length - rx_position
         THEN received_data_length
         ELSE expected_length - rx_position

FrameBody(buffer) ==
    [i \in 1 .. expected_length - HeaderSize |-> buffer[HeaderSize + i - 1]]

-----------------------------------------------------------------------------

Init ==
    /\ stream = <<>> /\ consumed = 0
    /\ rx_buffer = [i \in 0 .. MAX_FRAME_SIZE - 1 |-> 0]
    /\ rx_position = 0
    /\ command_packet_buffer = [command |-> 0, args |-> NoArguments]
    /\ calls = <<>>

(***************************************************************************)
(* The caller read some bytes and calls mc_companion_read_serial_command.  *)
(***************************************************************************)
Read(chunk) ==
    /\ ~InCall
    /\ Len(stream) + Len(chunk) <= MaxStream
    /\ stream' = stream \o chunk
    /\ UNCHANGED <<consumed, rx_buffer, rx_position, command_packet_buffer, calls>>

DiscardByte ==
    /\ InCall
    /\ rx_position = 0
    /\ received_byte # StartByte
    /\ consumed' = consumed + 1
    /\ UNCHANGED <<stream, rx_buffer, rx_position, command_packet_buffer, calls>>

(***************************************************************************)
(* Mutant: a frame starts with any byte.                                   *)
(***************************************************************************)
FindStartAny ==
    /\ InCall /\ rx_position = 0
    /\ rx_buffer' = [rx_buffer EXCEPT ![0] = received_byte]
    /\ rx_position' = 1 /\ consumed' = consumed + 1
    /\ UNCHANGED <<stream, command_packet_buffer, calls>>

FindStart ==
    /\ InCall
    /\ rx_position = 0
    /\ received_byte = StartByte
    /\ rx_buffer' = [rx_buffer EXCEPT ![0] = received_byte]
    /\ rx_position' = 1
    /\ consumed' = consumed + 1
    /\ UNCHANGED <<stream, command_packet_buffer, calls>>

StoreLength ==
    /\ InCall
    /\ rx_position \in {1, 2}
    /\ rx_buffer' = [rx_buffer EXCEPT ![rx_position] = received_byte]
    /\ rx_position' = rx_position + 1
    /\ consumed' = consumed + 1
    /\ UNCHANGED <<stream, command_packet_buffer, calls>>

(***************************************************************************)
(* Mutants: the byte at hand is dropped with the header, or all bytes at   *)
(* hand; the length bytes are looked at again; rx_position is not reset.   *)
(***************************************************************************)
RejectLengthFlushes ==
    /\ InCall /\ rx_position >= HeaderSize /\ expected_length > MAX_FRAME_SIZE
    /\ rx_position' = 0 /\ consumed' = Len(stream)
    /\ UNCHANGED <<stream, rx_buffer, command_packet_buffer, calls>>

RejectLengthDropsByte ==
    /\ InCall /\ rx_position >= HeaderSize /\ expected_length > MAX_FRAME_SIZE
    /\ rx_position' = 0 /\ consumed' = consumed + 1
    /\ UNCHANGED <<stream, rx_buffer, command_packet_buffer, calls>>

RejectLengthRescans ==
    /\ InCall /\ rx_position >= HeaderSize /\ expected_length > MAX_FRAME_SIZE
    /\ rx_position' = 0 /\ consumed' = consumed - 2
    /\ UNCHANGED <<stream, rx_buffer, command_packet_buffer, calls>>

RejectLengthNoReset ==
    /\ InCall /\ rx_position >= HeaderSize /\ expected_length > MAX_FRAME_SIZE
    /\ UNCHANGED vars

(***************************************************************************)
(* The byte that made the header complete is gone; the byte at hand is not *)
(* consumed, the search for a start byte begins with it.                   *)
(***************************************************************************)
RejectLength ==
    /\ InCall
    /\ rx_position >= HeaderSize
    /\ expected_length > MAX_FRAME_SIZE
    /\ rx_position' = 0
    /\ UNCHANGED <<port, rx_buffer, command_packet_buffer, calls>>

ReceivePart ==
    /\ InCall
    /\ rx_position >= HeaderSize
    /\ expected_length <= MAX_FRAME_SIZE
    /\ rx_position + CopyCount # expected_length
    /\ rx_buffer' = Filled(CopyCount)
    /\ rx_position' = rx_position + CopyCount
    /\ consumed' = consumed + CopyCount
    /\ UNCHANGED <<stream, command_packet_buffer, calls>>

(***************************************************************************)
(* mc_companion_handle_serial_command_frame: parse the frame into the      *)
(* static packet and call back with it.                                    *)
(***************************************************************************)
HandleFrame ==
    LET body == FrameBody(rx_buffer') IN
    /\ command_packet_buffer' = ParsedPacket(body, command_packet_buffer)
    /\ calls' = Append(calls, [end    |-> consumed',
                               length |-> expected_length,
                               packet |-> command_packet_buffer',
                               error  |-> ParseError(body)])

Complete ==
    /\ InCall
    /\ rx_position >= HeaderSize
    /\ expected_length <= MAX_FRAME_SIZE
    /\ rx_position + CopyCount = expected_length

(***************************************************************************)
(* Mutants: rx_position is not reset; the rest of the received bytes is    *)
(* dropped with the frame.                                                 *)
(***************************************************************************)
ReceiveFrameNoReset ==
    /\ Complete
    /\ rx_buffer' = Filled(CopyCount)
    /\ rx_position' = rx_position + CopyCount
    /\ consumed' = consumed + CopyCount
    /\ HandleFrame
    /\ UNCHANGED stream

ReceiveFrameDropsRest ==
    /\ Complete
    /\ rx_buffer' = Filled(CopyCount)
    /\ rx_position' = 0
    /\ consumed' = Len(stream)
    /\ HandleFrame
    /\ UNCHANGED stream

(***************************************************************************)
(* The frame is complete: parse it, call back, start over.  A frame with   *)
(* an empty body gets here only when a byte behind it has arrived.         *)
(***************************************************************************)
ReceiveFrame ==
    /\ Complete
    /\ rx_buffer' = Filled(CopyCount)
    /\ rx_position' = 0
    /\ consumed' = consumed + CopyCount
    /\ HandleFrame
    /\ UNCHANGED stream

Step == \/ DiscardByte \/ FindStart \/ StoreLength
        \/ RejectLength \/ ReceivePart \/ ReceiveFrame

(***************************************************************************)
(* With every byte consumed and the port silent the program blocks in      *)
(* read() for good.                                                        *)
(***************************************************************************)
Silence ==
    /\ ~InCall
    /\ \A chunk \in Chunks : Len(stream) + Len(chunk) > MaxStream
    /\ UNCHANGED vars

Next == (\E chunk \in Chunks : Read(chunk)) \/ Step \/ Silence

Spec == Init /\ [][Next]_vars

(***************************************************************************)
(* The running call is given the processor; nobody owes it another byte.   *)
(***************************************************************************)
FairSpec == Spec /\ WF_vars(Step)

-----------------------------------------------------------------------------

(***************************************************************************)
(* Types, and the structure of the state they rest on.                     *)
(***************************************************************************)
CallRecords == [end    : Nat,
                length : Nat,
                packet : Packets,
                error  : Errors]

(***************************************************************************)
(* Every variable holds a value of its C type, and rx_position never       *)
(* passes the end of rx_buffer.                                            *)
(***************************************************************************)
TypeOK ==
    /\ stream \in Seq(Byte)
    /\ consumed \in 0 .. Len(stream)
    /\ rx_buffer \in [0 .. MAX_FRAME_SIZE - 1 -> Byte]
    /\ rx_position \in 0 .. MAX_FRAME_SIZE - 1
    /\ command_packet_buffer \in Packets
    /\ calls \in Seq(CallRecords)

(***************************************************************************)
(* The frame being assembled is the tail of the consumed bytes, whatever   *)
(* an earlier frame left in rx_buffer and however the bytes were split     *)
(* over calls; it starts with the start byte, and once it grows past its   *)
(* header the header announces a frame that fits and is not yet complete.  *)
(***************************************************************************)
BufferHoldsTail ==
    /\ rx_position <= consumed
    /\ \A i \in 0 .. rx_position - 1 :
          rx_buffer[i] = stream[consumed - rx_position + i + 1]
    /\ rx_position > 0 => rx_buffer[0] = StartByte
    /\ rx_position > HeaderSize =>
          /\ rx_position < expected_length
          /\ expected_length <= MAX_FRAME_SIZE

(***************************************************************************)
(* Call c stands for the slice of the stream that ends at c.end: a start   *)
(* byte, a header announcing exactly the rest of the slice (so its 16 bit  *)
(* sum did not wrap), and no more than fits in rx_buffer.                  *)
(***************************************************************************)
IsFrame(c) ==
    /\ HeaderSize <= c.length /\ c.length <= MAX_FRAME_SIZE
    /\ c.length <= c.end
    /\ stream[c.end - c.length + 1] = StartByte
    /\ c.length = HeaderSize + stream[c.end - c.length + 2]
                             + Radix * stream[c.end - c.length + 3]

(***************************************************************************)
(* The callback is called with slices of the stream that are well-formed   *)
(* frames, in the order of the stream and without overlap: no byte is used *)
(* twice, neither by two frames nor by a delivered frame and the one being *)
(* assembled.                                                              *)
(***************************************************************************)
CallsCutFromStream ==
    /\ \A n \in 1 .. Len(calls) :
          /\ IsFrame(calls[n])
          /\ calls[n].end <= consumed - rx_position
    /\ \A m, n \in 1 .. Len(calls) :
          m < n => calls[m].end <= calls[n].end - calls[n].length

BodyOf(c) ==
    [i \in 1 .. c.length - HeaderSize |-> stream[c.end - c.length + (HeaderSize + i)]]

(***************************************************************************)
(* The callback is told the verdict on the frame's own body, and an        *)
(* accepted packet holds the command and arguments of that body and zeros  *)
(* behind them: nothing of an earlier command shows through the statically *)
(* allocated command_packet_buffer or rx_buffer.                           *)
(***************************************************************************)
NoStaleArguments ==
    \A n \in 1 .. Len(calls) :
       /\ calls[n].error = ParseError(BodyOf(calls[n]))
       /\ calls[n].error = "NONE" =>
             /\ calls[n].packet.command = BodyOf(calls[n])[1]
             /\ calls[n].packet.args = ArgumentsOf(BodyOf(calls[n]))

(***************************************************************************)
(* The last byte of the union `args' of an accepted packet is zero: a text *)
(* field at the end of it, which server.c prints with %s, is terminated    *)
(* whatever length and bytes a frame brings.  (A frame has room for one    *)
(* argument byte less than the union.)                                     *)
(***************************************************************************)
TextsTerminated ==
    \A n \in 1 .. Len(calls) :
       calls[n].error = "NONE" => calls[n].packet.args[MAX_PAYLOAD_SIZE - 1] = 0

(***************************************************************************)
(* The frames of a stream, read off the whole of it at once: where each of *)
(* them ends, from position k on, told from those behind k.                *)
(***************************************************************************)
SizeIn(s, k) == HeaderSize + s[k + 2] + Radix * s[k + 3]

EndsBehind(s, k, ends) ==
    IF k + HeaderSize > Len(s) /\ (k = Len(s) \/ s[k + 1] = StartByte) THEN <<>>
    ELSE IF s[k + 1] # StartByte THEN ends[k + 1]
    ELSE IF SizeIn(s, k) > MAX_FRAME_SIZE THEN ends[k + HeaderSize]
    ELSE IF k + SizeIn(s, k) > Len(s) THEN <<>>
    ELSE <<k + SizeIn(s, k)>> \o ends[k + SizeIn(s, k)]

EndsFrom(s) == LET from[k \in 0 .. Len(s)] == EndsBehind(s, k, from) IN from

FrameEnds(s) == EndsFrom(s)[0]

CallEnds == [n \in 1 .. Len(calls) |-> calls[n].end]

(***************************************************************************)
(* When a call returns, every frame in the bytes received so far has been  *)
(* handed over, however they were split over calls.  Only an empty frame   *)
(* at the very end may be missing: it is held back until another byte      *)
(* arrives.                                                                *)
(***************************************************************************)
NothingHeldBack ==
    ~InCall =>
        \/ CallEnds = FrameEnds(stream)
        \/ /\ rx_position = HeaderSize /\ AnnouncedLength = 0
           /\ Append(CallEnds, Len(stream)) = FrameEnds(stream)

(***************************************************************************)
(* A turn of the loop that changes anything consumes a byte, or gives up a *)
(* header: it cannot go round for ever by changing its state.              *)
(***************************************************************************)
CallsMakeProgress ==
    [][Step => \/ consumed < consumed'
               \/ consumed = consumed' /\ rx_position' < rx_position]_vars

-----------------------------------------------------------------------------

(***************************************************************************)
(* The header wraps around 16 bits to a frame shorter than the header: the *)
(* outer loop neither rejects nor receives nor delivers it.                *)
(***************************************************************************)
Jammed == InCall /\ rx_position = HeaderSize /\ expected_length < HeaderSize

(***************************************************************************)
(* A call returns having taken every byte, except when it is jammed.       *)
(***************************************************************************)
CallReturns == InCall ~> (~InCall \/ Jammed)

(***************************************************************************)
(* The comment on the length check, "Invalid packet length, reset": once a *)
(* header announces more than fits in rx_buffer and the call has a further *)
(* byte at hand, rx_position goes back to 0.                               *)
(***************************************************************************)
InvalidLengthReset ==
    (InCall /\ rx_position = HeaderSize /\ HeaderSize + AnnouncedLength > MAX_FRAME_SIZE)
       ~> (rx_position = 0)

(***************************************************************************)
(* The comment on the check in mc_companion_handle_serial_command_frame,   *)
(* "Packet is too short": a frame with less than one byte in it returns    *)
(* without reaching the parser and the callback.                           *)
(***************************************************************************)
TooShortDropped == \A n \in 1 .. Len(calls) : calls[n].length - HeaderSize >= 1

-----------------------------------------------------------------------------

(***************************************************************************)
(* The reader implements CompanionFraming: the bytes handed over or passed *)
(* over are those consumed and no longer in the frame being assembled.     *)
(***************************************************************************)
Framing == INSTANCE CompanionFraming
    WITH input <- stream, cut <- consumed - rx_position, delivered <- calls

ImplementsFraming == Framing!Spec
=============================================================================
