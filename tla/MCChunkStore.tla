---------------------------- MODULE MCChunkStore ----------------------------
(***************************************************************************)
(* Instances of ChunkStore for TLC.                                        *)
(***************************************************************************)
EXTENDS ChunkStore

\* A short body, a body that alone fills a half of the cap, sizes 1 and 2.
MCBlobs == {"short", "long"}
MCSizeOf == [b \in MCBlobs |-> IF b = "short" THEN 1 ELSE 2]
=============================================================================
