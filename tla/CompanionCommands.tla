------------------------- MODULE CompanionCommands -------------------------
(***************************************************************************)
(* The command parser of the companion radio protocol                      *)
(* (companion-radio-protocol/mc_companion_command_parser.c) and the frame  *)
(* geometry it shares with the serial interface.                           *)
(*                                                                         *)
(* Bytes are the numbers 0 .. Radix - 1 (Radix is 256 in the program; the  *)
(* model checker also uses a smaller one), a 16 bit word the numbers below *)
(* Radix * Radix.  The body of a frame is the sequence of bytes behind the *)
(* start byte and the two length bytes: a command byte, then arguments.    *)
(***************************************************************************)
EXTENDS Integers, Sequences

CONSTANTS
    Radix,                         \* number of values of a byte
    MAX_FRAME_SIZE,                \* MESHCORE_COMPANION_MAX_FRAME_SIZE
    StartByte,                     \* '<', opens a frame to the device
    companion_command_definitions  \* command -> [min, max] argument length

Byte == 0 .. Radix - 1

WordSize == Radix * Radix

HeaderSize == 3                    \* sizeof(char) + sizeof(uint16_t)

MAX_PAYLOAD_SIZE == MAX_FRAME_SIZE - HeaderSize

ArgIndex == 0 .. MAX_PAYLOAD_SIZE - 1

ASSUME ByteAssumption == Radix \in Nat /\ Radix >= 2

ASSUME FrameAssumption ==
    /\ MAX_FRAME_SIZE \in Nat
    /\ HeaderSize < MAX_FRAME_SIZE
    /\ MAX_FRAME_SIZE < WordSize

ASSUME StartAssumption == StartByte \in Byte

(***************************************************************************)
(* Every maximum in the table is the size of a member of the union `args', *)
(* so the copy of the arguments cannot leave it.                           *)
(***************************************************************************)
ASSUME TableAssumption ==
    /\ DOMAIN companion_command_definitions \subseteq Byte
    /\ \A c \in DOMAIN companion_command_definitions :
          companion_command_definitions[c] \in [min : Nat, max : 0 .. MAX_PAYLOAD_SIZE]

Errors == {"NONE", "INVALID_COMMAND", "INVALID_ARGUMENTS"}

Packets == [command : Byte, args : [ArgIndex -> Byte]]

NoArguments == [i \in ArgIndex |-> 0]

(***************************************************************************)
(* Mutant: the copy starts at the command byte.                            *)
(***************************************************************************)
ArgumentsOfWithCommand(data) ==
    [i \in ArgIndex |-> IF i + 1 <= Len(data) THEN data[i + 1] ELSE 0]

(***************************************************************************)
(* The `args' of a packet after the memset and the memcpy of a body.       *)
(***************************************************************************)
ArgumentsOf(data) ==
    [i \in ArgIndex |-> IF i + 2 <= Len(data) THEN data[i + 2] ELSE 0]

Known(command) == command \in DOMAIN companion_command_definitions

(***************************************************************************)
(* Mutant: no check of the minimum.                                        *)
(***************************************************************************)
LengthAllowedNoMinimum(command, length) ==
    length <= companion_command_definitions[command].max

LengthAllowed(command, length) ==
    /\ companion_command_definitions[command].min <= length
    /\ length <= companion_command_definitions[command].max

(***************************************************************************)
(* What mc_companion_parse_command returns for a body, and what it leaves  *)
(* in *out_packet.  A body without a command byte returns before the       *)
(* memset: the packet keeps what an earlier call left in it.               *)
(***************************************************************************)
ParseError(data) ==
    IF Len(data) < 1 THEN "INVALID_COMMAND"
    ELSE IF ~Known(data[1]) THEN "INVALID_COMMAND"
    ELSE IF ~LengthAllowed(data[1], Len(data) - 1) THEN "INVALID_ARGUMENTS"
    ELSE "NONE"

(***************************************************************************)
(* Mutant: the packet is not cleared before the copy.                      *)
(***************************************************************************)
ParsedPacketNoMemset(data, out_packet) ==
    IF Len(data) < 1 THEN out_packet
    ELSE [command |-> data[1],
          args    |-> [i \in ArgIndex |->
                         IF ParseError(data) = "NONE" /\ i + 2 <= Len(data)
                         THEN data[i + 2] ELSE out_packet.args[i]]]

ParsedPacket(data, out_packet) ==
    IF Len(data) < 1 THEN out_packet
    ELSE [command |-> data[1],
          args    |-> IF ParseError(data) = "NONE" THEN ArgumentsOf(data) ELSE NoArguments]
=============================================================================
