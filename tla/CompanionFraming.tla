-------------------------- MODULE CompanionFraming --------------------------
(***************************************************************************)
(* What the serial interface promises: it cuts the bytes it is given, from *)
(* left to right and without overlap, into frames, and hands over each     *)
(* frame exactly once, whole and in order, however the bytes were split    *)
(* over calls.  Bytes are passed over only where no frame can start: a     *)
(* byte that is not the start byte, or a header announcing more than the   *)
(* largest frame.                                                          *)
(*                                                                         *)
(* The module knows no buffer, no position in a frame and no call; it is   *)
(* the specification CompanionReader implements.                           *)
(***************************************************************************)
EXTENDS CompanionCommands

CONSTANT Chunks                    \* what one read of the serial port may return

VARIABLES
    input,       \* every byte received so far
    cut,         \* how many of them were handed over or passed over
    delivered    \* the frames handed over, oldest first

vars == <<input, cut, delivered>>

ByteAt(i) == input[cut + 1 + i]

Received(n) == cut + n <= Len(input)

(***************************************************************************)
(* The size of the frame whose header starts at the cut: a number, with no *)
(* bound on the width of an integer.                                       *)
(***************************************************************************)
FrameSize == HeaderSize + ByteAt(1) + Radix * ByteAt(2)

Body == [i \in 1 .. FrameSize - HeaderSize |-> ByteAt(HeaderSize + i - 1)]

(***************************************************************************)
(* The packet handed over with a body: what the body says, except that a   *)
(* body with no command byte says nothing.                                 *)
(***************************************************************************)
Deliveries(body) ==
    {[end    |-> cut + HeaderSize + Len(body),
      length |-> HeaderSize + Len(body),
      packet |-> p,
      error  |-> ParseError(body)] :
         p \in IF body = <<>> THEN Packets ELSE {ParsedPacket(body, 0)}}

Init == input = <<>> /\ cut = 0 /\ delivered = <<>>

Receive ==
    /\ \E chunk \in Chunks : input' = input \o chunk
    /\ UNCHANGED <<cut, delivered>>

PassNoise ==
    /\ Received(1) /\ ByteAt(0) # StartByte
    /\ cut' = cut + 1
    /\ UNCHANGED <<input, delivered>>

PassHeader ==
    /\ Received(HeaderSize) /\ ByteAt(0) = StartByte
    /\ FrameSize > MAX_FRAME_SIZE
    /\ cut' = cut + HeaderSize
    /\ UNCHANGED <<input, delivered>>

Deliver ==
    /\ Received(HeaderSize) /\ ByteAt(0) = StartByte
    /\ FrameSize <= MAX_FRAME_SIZE
    /\ Received(FrameSize)
    /\ \E d \in Deliveries(Body) : delivered' = Append(delivered, d)
    /\ cut' = cut + FrameSize
    /\ UNCHANGED input

Next == Receive \/ PassNoise \/ PassHeader \/ Deliver

Spec == Init /\ [][Next]_vars
=============================================================================
