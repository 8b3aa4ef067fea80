--------------------------- MODULE CompanionWriter ---------------------------
(***************************************************************************)
(* The sending half of the companion serial interface:                     *)
(* mc_companion_write_serial_response                                      *)
(* (companion-radio-protocol/mc_companion_serial_interface.c).             *)
(***************************************************************************)
EXTENDS CompanionCommands

ReplyByte == 62                    \* '>', opens a frame from the device

(***************************************************************************)
(* Mutant: the byte copied too many is counted.                            *)
(***************************************************************************)
WriteResponseWhole(response, args, args_length) ==
    LET packet_length == (args_length + 1) % WordSize
    IN  [stored |-> <<ReplyByte, packet_length % Radix,
                      (packet_length \div Radix) % Radix, response>>
                       \o [i \in 1 .. packet_length |-> args[i - 1]],
         length |-> (4 + packet_length) % WordSize]

(***************************************************************************)
(* What the function stores in out_framed_data and in                      *)
(* *out_framed_data_length.  The copy takes packet_length bytes of args,   *)
(* one more than the arguments, and the length leaves that byte out again. *)
(* The size of the output buffer is a parameter the function never reads.  *)
(***************************************************************************)
WriteResponse(response, args, args_length) ==
    LET packet_length == (args_length + 1) % WordSize
        position      == 4
    IN  [stored |-> <<ReplyByte, packet_length % Radix,
                      (packet_length \div Radix) % Radix, response>>
                       \o [i \in 1 .. packet_length |-> args[i - 1]],
         length |-> ((position + packet_length) % WordSize) - 1]
=============================================================================
