---------------------------- MODULE Sha256Stream ----------------------------
(***************************************************************************)
(* A hash context over its calls (crypto/sha256.c): Sha256Initialise, any  *)
(* number of Sha256Update with any number of bytes, Sha256Finalise, and    *)
(* again.  One action is one turn of Sha256Update's loop.                  *)
(*                                                                         *)
(* `state' of the context is a function of the bytes that went into        *)
(* TransformFunction since it was initialised; `hashed' holds those.       *)
(* Bytes of the message count up, from another start for each message, so  *)
(* that a byte lost, doubled or left over from before is seen.  Both       *)
(* functions first look whether curlen exceeds the buffer, which it never  *)
(* does (StreamTypeOK).                                                    *)
(***************************************************************************)
EXTENDS Sha256

CONSTANTS
    UpdateSizes,   \* how many bytes a call of Sha256Update may add
    MaxMessage,    \* bound of the model: the longest message
    MaxMessages    \* bound of the model: how often the context is used

ASSUME StreamAssumption == /\ UpdateSizes \subseteq Nat
                           /\ MaxMessage \in Nat /\ MaxMessages \in Nat

VARIABLES
    calling,     \* "uninitialised", "between", "update" or "finalised"
    curlen, length, buf,
    hashed,      \* what was given to TransformFunction
    input,       \* what is left of Buffer in the running Sha256Update
    message,     \* everything given to Sha256Update since Sha256Initialise
    messages     \* how many messages were begun

streamVars == <<calling, curlen, length, buf, hashed, input, message, messages>>

(***************************************************************************)
(* The context is not initialised: buf holds anything.                     *)
(***************************************************************************)
StreamInit ==
    /\ calling = "uninitialised"
    /\ curlen = 0 /\ length = 0
    /\ buf \in {[i \in 1 .. BLOCK_SIZE |-> b] : b \in {0, 170}}
    /\ hashed = <<>> /\ input = <<>> /\ message = <<>>
    /\ messages = 0

Sha256Initialise ==
    /\ calling # "update" /\ messages < MaxMessages
    /\ calling' = "between"
    /\ curlen' = 0 /\ length' = 0 /\ hashed' = <<>>
    /\ message' = <<>> /\ messages' = messages + 1
    /\ UNCHANGED <<buf, input>>

NextBytes(n) ==
    [i \in 1 .. n |-> (100 * messages + Len(message) + i) % 256]

Sha256Update(n) ==
    /\ calling = "between" /\ Len(message) + n <= MaxMessage
    /\ input' = NextBytes(n)
    /\ message' = message \o NextBytes(n)
    /\ calling' = "update"
    /\ UNCHANGED <<curlen, length, buf, hashed, messages>>

(***************************************************************************)
(* Mutant: a whole block overtakes the bytes that wait in buf.             *)
(***************************************************************************)
HashBlockOvertakes ==
    /\ Len(input) >= BLOCK_SIZE
    /\ hashed' = hashed \o SubSeq(input, 1, BLOCK_SIZE)
    /\ length' = length + 8 * BLOCK_SIZE
    /\ input' = SubSeq(input, BLOCK_SIZE + 1, Len(input))
    /\ UNCHANGED <<calling, curlen, buf, message, messages>>

(***************************************************************************)
(* A whole block is hashed where it lies.                                  *)
(***************************************************************************)
HashBlock ==
    /\ curlen = 0 /\ Len(input) >= BLOCK_SIZE
    /\ hashed' = hashed \o SubSeq(input, 1, BLOCK_SIZE)
    /\ length' = length + 8 * BLOCK_SIZE
    /\ input' = SubSeq(input, BLOCK_SIZE + 1, Len(input))
    /\ UNCHANGED <<calling, curlen, buf, message, messages>>

(***************************************************************************)
(* Otherwise as many bytes as fit go behind those in buf, and a full buf   *)
(* is hashed.                                                              *)
(***************************************************************************)
RoomOneShort == BLOCK_SIZE - 1 - curlen      \* mutant

Room == BLOCK_SIZE - curlen

Taken == IF Len(input) < Room THEN Len(input) ELSE Room

Filled == SubSeq(buf, 1, curlen) \o SubSeq(input, 1, Taken)
             \o SubSeq(buf, curlen + Taken + 1, BLOCK_SIZE)

(***************************************************************************)
(* Mutant: curlen is not reset.                                            *)
(***************************************************************************)
BufferNotReset ==
    /\ input # <<>> /\ (curlen > 0 \/ Len(input) < BLOCK_SIZE)
    /\ buf' = Filled
    /\ input' = SubSeq(input, Taken + 1, Len(input))
    /\ curlen' = curlen + Taken
    /\ IF curlen' = BLOCK_SIZE
       THEN hashed' = hashed \o buf' /\ length' = length + 8 * BLOCK_SIZE
       ELSE UNCHANGED <<hashed, length>>
    /\ UNCHANGED <<calling, message, messages>>

Buffer ==
    /\ input # <<>> /\ (curlen > 0 \/ Len(input) < BLOCK_SIZE)
    /\ buf' = Filled
    /\ input' = SubSeq(input, Taken + 1, Len(input))
    /\ IF curlen + Taken = BLOCK_SIZE
       THEN /\ hashed' = hashed \o buf'
            /\ length' = length + 8 * BLOCK_SIZE
            /\ curlen' = 0
       ELSE curlen' = curlen + Taken /\ UNCHANGED <<hashed, length>>
    /\ UNCHANGED <<calling, message, messages>>

UpdateReturns ==
    /\ calling = "update" /\ input = <<>>
    /\ calling' = "between"
    /\ UNCHANGED <<curlen, length, buf, hashed, input, message, messages>>

(***************************************************************************)
(* buf with zeros behind its first n bytes, up to the last eight bytes or  *)
(* to its end.                                                             *)
(***************************************************************************)
ZeroedTo(block, n, end) ==
    [i \in 1 .. BLOCK_SIZE |-> IF i \in n + 1 .. end THEN 0 ELSE block[i]]

LengthAt == BLOCK_SIZE - 8

(***************************************************************************)
(* Mutant: the length is thought to fit behind 57 bytes.                   *)
(***************************************************************************)
NoRoomForLengthOffByOne == curlen + 1 > LengthAt + 1

NoRoomForLength == curlen + 1 > LengthAt

(***************************************************************************)
(* The '1' bit, zeros and the length, in one block or in two.              *)
(***************************************************************************)
Sha256Finalise ==
    LET bits   == length + 8 * curlen
        closed == [buf EXCEPT ![curlen + 1] = 128]
        first  == ZeroedTo(closed, curlen + 1, BLOCK_SIZE)
        last   == IF NoRoomForLength THEN ZeroedTo(first, 0, LengthAt)
                  ELSE ZeroedTo(closed, curlen + 1, LengthAt)
    IN  /\ calling = "between"
        /\ calling' = "finalised"
        /\ length' = bits /\ curlen' = LengthAt
        /\ buf' = SubSeq(last, 1, LengthAt) \o LengthBytes(bits)
        /\ hashed' = hashed \o (IF NoRoomForLength THEN first ELSE <<>>) \o buf'
        /\ UNCHANGED <<input, message, messages>>

Done == messages = MaxMessages /\ calling = "finalised" /\ UNCHANGED streamVars

UpdateTurn == HashBlock \/ Buffer \/ UpdateReturns

StreamNext ==
    \/ Sha256Initialise \/ (\E n \in UpdateSizes : Sha256Update(n))
    \/ UpdateTurn \/ Sha256Finalise \/ Done

(***************************************************************************)
(* A call that was made is carried out; nobody has to make one.            *)
(***************************************************************************)
StreamSpec == StreamInit /\ [][StreamNext]_streamVars /\ WF_streamVars(UpdateTurn)

-----------------------------------------------------------------------------

(***************************************************************************)
(* The context's fields hold values of their types, and between two turns  *)
(* of the loop there is room in buf: neither the early return of           *)
(* Sha256Update nor that of Sha256Finalise is ever taken.                  *)
(***************************************************************************)
StreamTypeOK ==
    /\ calling \in {"uninitialised", "between", "update", "finalised"}
    /\ curlen \in 0 .. BLOCK_SIZE - 1
    /\ length \in Nat
    /\ buf \in [1 .. BLOCK_SIZE -> Octet]
    /\ input \in Seq(Octet) /\ message \in Seq(Octet) /\ hashed \in Seq(Octet)
    /\ calling # "update" => input = <<>>

(***************************************************************************)
(* Between two turns every byte of the message is in one place: hashed,    *)
(* waiting in buf, or not yet taken from the input, in this order; and the *)
(* length counts what was hashed, in bits.                                 *)
(***************************************************************************)
MessageInThreeParts ==
    calling \in {"between", "update"} =>
        /\ hashed \o SubSeq(buf, 1, curlen) \o input = message
        /\ length = 8 * Len(hashed)
        /\ Len(hashed) % BLOCK_SIZE = 0

(***************************************************************************)
(* However a message is split over calls, and whatever the context was     *)
(* used for before, its hash is that of the padded message: whole blocks,  *)
(* one '1' bit, the fewest zeros that make room for the length, the length.*)
(***************************************************************************)
HashedPadded ==
    calling = "finalised" =>
        /\ hashed = Padded(message)
        /\ Len(hashed) % BLOCK_SIZE = 0
        /\ Len(hashed) - Len(message) \in 9 .. BLOCK_SIZE + 8

(***************************************************************************)
(* The loop of Sha256Update ends.                                          *)
(***************************************************************************)
UpdateEnds == calling = "update" ~> calling = "between"
=============================================================================
