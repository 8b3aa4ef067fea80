-------------------------- MODULE MCCompanionReader --------------------------
(***************************************************************************)
(* Small instances of CompanionReader.  Bytes have four values and words   *)
(* two digits of them, so lengths run from 0 to 15: 0 .. 4 fit in the      *)
(* seven byte buffer, 5 .. 12 do not, and 13 .. 15 wrap around when the    *)
(* header is added, as 65533 .. 65535 do in the program.                   *)
(***************************************************************************)
EXTENDS CompanionReader

(***************************************************************************)
(* Command 0 takes no arguments, 1 an optional one, 2 (the value of the    *)
(* start byte) two or three; 3 is unknown.                                 *)
(***************************************************************************)
SmallTable == [c \in 0 .. 2 |-> CASE c = 0 -> [min |-> 0, max |-> 0]
                                  [] c = 1 -> [min |-> 0, max |-> 1]
                                  [] c = 2 -> [min |-> 2, max |-> 3]]

(***************************************************************************)
(* Every sequence of one to three bytes.                                   *)
(***************************************************************************)
AnyChunk == UNION {[1 .. n -> 0 .. 3] : n \in 1 .. 3}
=============================================================================
