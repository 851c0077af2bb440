-------------------------------- MODULE MCPtt -------------------------------
(***************************************************************************)
(* Instances of Ptt for TLC.                                               *)
(***************************************************************************)
EXTENDS Ptt
=============================================================================
