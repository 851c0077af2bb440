----------------------------- MODULE MCUploader -----------------------------
(***************************************************************************)
(* Instances of Uploader for TLC.                                          *)
(***************************************************************************)
EXTENDS Uploader

\* Full chunks of different content and a short one.
MCBlobs == {"a", "b", "end"}
MCSizeOf == [x \in MCBlobs |-> IF x = "end" THEN 1 ELSE 2]

\* One chunk; the most the limits allow; one byte and two numbers too many.
MCClips == {<<"end">>, <<"a", "end">>, <<"a", "b">>, <<"end", "end", "end", "end">>}
=============================================================================
