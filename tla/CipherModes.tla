----------------------------- MODULE CipherModes -----------------------------
(***************************************************************************)
(* Two users of one key agree on a mode and use it between two contexts:   *)
(* block chaining (CbcMode) or counter mode (CtrMode).                     *)
(***************************************************************************)
EXTENDS CbcMode, CtrMode

VARIABLE mode

modesVars == <<cbcVars, ctrVars, mode>>

(***************************************************************************)
(* The contexts that the chosen mode does not use hold one value.          *)
(***************************************************************************)
ModesInit ==
    /\ mode \in {"cbc", "ctr"}
    /\ CbcInit /\ CtrInit
    /\ mode = "ctr" => \A b \in {encIv, decIv} : b = CHOOSE block \in Block : TRUE
    /\ mode = "cbc" => Iv["encrypt"] = CHOOSE iv \in Vectors : TRUE

ModesNext ==
    \/ mode = "cbc" /\ CbcNext /\ UNCHANGED <<ctrVars, mode>>
    \/ mode = "ctr" /\ CtrNext /\ UNCHANGED <<cbcVars, mode>>

ModesSpec == ModesInit /\ [][ModesNext]_modesVars
=============================================================================
