------------------------------ MODULE MCNodeApp ------------------------------
(***************************************************************************)
(* Instances of NodeApp: halves of two blocks, as many recordings, blocks, *)
(* queue places and chunk numbers as the .cfg says.                        *)
(***************************************************************************)
EXTENDS NodeApp

Blocks == (1 .. MaxRecordings) \X (1 .. MaxBlocks)
=============================================================================
