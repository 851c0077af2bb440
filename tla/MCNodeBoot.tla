----------------------------- MODULE MCNodeBoot -----------------------------
(***************************************************************************)
(* Instances of NodeBoot for TLC: a payload with id and long token, one    *)
(* with neither.                                                           *)
(***************************************************************************)
EXTENDS NodeBoot, TLC
=============================================================================
