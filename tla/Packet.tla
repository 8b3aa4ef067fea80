------------------------------- MODULE Packet -------------------------------
(***************************************************************************)
(* The packet codec: meshcore_serialize and meshcore_deserialize           *)
(* (meshcore/packet.c).                                                    *)
(*                                                                         *)
(* Buffers are functions from 0, as arrays are in C, and always as long as *)
(* the largest packet; `size' says how much of one is the packet, and what *)
(* lies behind it is whatever was there before.  Positions and lengths are *)
(* uint8_t: they are taken modulo ByteSize where the code's could wrap.    *)
(* Both functions also refuse a NULL buffer, which no caller passes.       *)
(***************************************************************************)
EXTENDS Integers, Sequences

CONSTANTS
    MAX_PATH_SIZE,       \* MESHCORE_MAX_PATH_SIZE
    MAX_PAYLOAD_SIZE,    \* MESHCORE_MAX_PAYLOAD_SIZE
    MAX_TRANS_UNIT       \* MESHCORE_MAX_TRANS_UNIT

ByteSize == 256

Byte == 0 .. ByteSize - 1

(***************************************************************************)
(* The largest packet - header, two bytes of transport codes, length byte, *)
(* path, payload - fits in a buffer, whose size is held in a byte.         *)
(***************************************************************************)
ASSUME SizeAssumption ==
    /\ MAX_PATH_SIZE \in Nat \ {0}
    /\ MAX_PAYLOAD_SIZE \in Nat \ {0}
    /\ MAX_TRANS_UNIT \in Nat
    /\ 4 + MAX_PATH_SIZE + MAX_PAYLOAD_SIZE <= MAX_TRANS_UNIT
    /\ MAX_TRANS_UNIT < ByteSize

Buffers == [0 .. MAX_TRANS_UNIT - 1 -> Byte]

Paths == [0 .. MAX_PATH_SIZE - 1 -> Byte]

Payloads == [0 .. MAX_PAYLOAD_SIZE - 1 -> Byte]

(***************************************************************************)
(* meshcore_message_t; the two uint16_t transport codes byte by byte.      *)
(***************************************************************************)
Messages == [type            : 0 .. 15,
             route           : 0 .. 3,
             version         : 0 .. 3,
             transport_codes : [0 .. 3 -> Byte],
             path_length     : Byte,
             path            : Paths,
             payload_length  : Byte,
             payload         : Payloads]

(***************************************************************************)
(* MESHCORE_ROUTE_TYPE_TRANSPORT_FLOOD and _TRANSPORT_DIRECT.              *)
(***************************************************************************)
HasTransportCodes(route) == route \in {0, 3}

(***************************************************************************)
(* Where the length of the path and the path are in a packet.              *)
(***************************************************************************)
PathLengthAt(route) == IF HasTransportCodes(route) THEN 3 ELSE 1

PathAt(route) == PathLengthAt(route) + 1

Header(message) == message.route + 4 * message.type + 64 * message.version

TypeUnmasked(header) == header \div 4     \* mutant: the mask is forgotten

Route(header)   == header % 4
Type(header)    == (header \div 4) % 16
Version(header) == (header \div 64) % 4

Rejected == [result |-> -1]

PayloadAtNoCodes(message) == 2 + message.path_length     \* mutant: no room for codes

PayloadAt(message) == PathAt(message.route) + message.path_length

(***************************************************************************)
(* meshcore_serialize: the buffer is cleared, then header, length byte,    *)
(* path and payload are stored.  Room is left for a transport code; none   *)
(* is copied, since member_size of transport_codes[0] is zero.             *)
(***************************************************************************)
Serialize(message) ==
    LET lengthAt  == PathLengthAt(message.route)
        pathAt    == PathAt(message.route)
        payloadAt == PayloadAt(message)
        end       == payloadAt + message.payload_length
    IN  IF \/ message.path_length > MAX_PATH_SIZE
           \/ message.payload_length > MAX_PAYLOAD_SIZE
        THEN Rejected
        ELSE [result |-> 0,
              data   |-> [i \in 0 .. MAX_TRANS_UNIT - 1 |->
                            CASE i = 0        -> Header(message)
                              [] i = lengthAt -> message.path_length
                              [] i \in pathAt .. payloadAt - 1 -> message.path[i - pathAt]
                              [] i \in payloadAt .. end - 1 -> message.payload[i - payloadAt]
                              [] OTHER -> 0],
              size   |-> end % ByteSize]

(***************************************************************************)
(* Mutant: the size of the array is copied, not the length read.           *)
(***************************************************************************)
CopiedWhole(data, at, n, m) == [i \in 0 .. m - 1 |-> data[at + i]]

(***************************************************************************)
(* The n bytes from `at' on, in an array of m bytes that was cleared.      *)
(***************************************************************************)
Copied(data, at, n, m) == [i \in 0 .. m - 1 |-> IF i < n THEN data[at + i] ELSE 0]

PathLengthIn(data) == data[PathLengthAt(Route(data[0]))]

PayloadStart(data) == (PathAt(Route(data[0])) + PathLengthIn(data)) % ByteSize

(***************************************************************************)
(* Mutant: the length of the payload is not held in a byte.                *)
(***************************************************************************)
PayloadLengthInWide(data, size) == size - PayloadStart(data)

(***************************************************************************)
(* size - position, held in a byte: a path that ends behind the packet     *)
(* makes it wrap around.                                                   *)
(***************************************************************************)
PayloadLengthIn(data, size) == (size - PayloadStart(data)) % ByteSize

(***************************************************************************)
(* The checks, in their order.  The fields are read first, the path is     *)
(* copied before the length of the payload is looked at, and whether the   *)
(* path ends inside the packet is never compared.                          *)
(***************************************************************************)
Accepts(data, size) ==
    /\ size >= 1 /\ size <= MAX_TRANS_UNIT
    /\ HasTransportCodes(Route(data[0])) => size - 1 >= 2
    /\ size - PathLengthAt(Route(data[0])) >= 1
    /\ PathLengthIn(data) <= MAX_PATH_SIZE
    /\ PayloadLengthIn(data, size) <= MAX_PAYLOAD_SIZE

(***************************************************************************)
(* What is in an accepted buffer.  Of the transport codes, sizeof(uint16_t)*)
(* bytes are copied: the second code stays zero.                           *)
(***************************************************************************)
MessageIn(data, size) ==
    LET route == Route(data[0])
    IN  [type            |-> Type(data[0]),
         route           |-> route,
         version         |-> Version(data[0]),
         transport_codes |-> Copied(data, 1, IF HasTransportCodes(route) THEN 2 ELSE 0, 4),
         path_length     |-> PathLengthIn(data),
         path            |-> Copied(data, PathAt(route), PathLengthIn(data), MAX_PATH_SIZE),
         payload_length  |-> PayloadLengthIn(data, size),
         payload         |-> Copied(data, PayloadStart(data), PayloadLengthIn(data, size),
                                    MAX_PAYLOAD_SIZE)]

(***************************************************************************)
(* meshcore_deserialize.  The message it fills in for a rejected buffer is *)
(* left out: every caller drops it.                                        *)
(***************************************************************************)
Deserialize(data, size) ==
    IF Accepts(data, size) THEN [result |-> 0, message |-> MessageIn(data, size)]
    ELSE Rejected
=============================================================================
