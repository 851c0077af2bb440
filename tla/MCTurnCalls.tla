---------------------------- MODULE MCTurnCalls -----------------------------
(***************************************************************************)
(* Instances of TurnCalls for TLC.                                         *)
(***************************************************************************)
EXTENDS TurnCalls
=============================================================================
