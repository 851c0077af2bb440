------------------------------ MODULE MCUpdate ------------------------------
(***************************************************************************)
(* Instances of Update for TLC.                                            *)
(***************************************************************************)
EXTENDS Update, TLC

CONSTANTS v1, v2, old, new, bad, junk, n1, n2

\* The factory image, a good update, one that panics at boot, and a file that is
\* no image.  One too large for a slot is left to the proofs.
KindOf == old :> "good" @@ new :> "good" @@ bad :> "panics" @@ junk :> "garbage"
VersionIn == [i \in {old, new, bad, junk} |-> IF i = old THEN v1 ELSE v2]
KindHere == [i \in Images |-> KindOf[i]]
VersionHere == [i \in Images |-> VersionIn[i]]

\* For another device only, and for so many that the answer to a poll states no
\* length, which two devices stand for.  A fleet-wide image is offered like the
\* latter and its poll ends earlier, at the headers; it has a run of its own.
Long == {{n1, n2}}
Lists == {{n2}} \cup Long
FleetLists == {{}, {n2}}
=============================================================================
