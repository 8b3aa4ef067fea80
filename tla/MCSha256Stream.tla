--------------------------- MODULE MCSha256Stream ---------------------------
(***************************************************************************)
(* Messages of up to three blocks, in calls around the size of a block and *)
(* around the last place where the length fits into it.                    *)
(***************************************************************************)
EXTENDS Sha256Stream

Sizes == {0, 1, 8, 55, 63, 64, 65, 130}
=============================================================================
