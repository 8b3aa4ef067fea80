----------------------------- MODULE MCLossyLine -----------------------------
(***************************************************************************)
(* LossyLine with bytes of eight values and frames of up to seven bytes.   *)
(***************************************************************************)
EXTENDS LossyLine

Table == [c \in 0 .. 1 |-> IF c = 0 THEN [min |-> 0, max |-> 0] ELSE [min |-> 0, max |-> 3]]

(***************************************************************************)
(* A frame with no command, the command 0 alone, and the command 1 with as *)
(* many arguments as fit.  (A changed byte makes an unknown command.)      *)
(***************************************************************************)
Sent == {<<2, 0, 0>>, <<2, 1, 0, 0>>, <<2, 4, 0, 1, 0, 7, 1>>}
=============================================================================
