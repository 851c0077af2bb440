---------------------------- MODULE MCRelayTurn -----------------------------
(***************************************************************************)
(* Instances of RelayTurn for TLC.                                         *)
(***************************************************************************)
EXTENDS RelayTurn

CONSTANTS r1, r2, c1, d1

\* Every request and every cancel is of one device.
OneDevice == [x \in Requests \cup Cancels |-> d1]
=============================================================================
