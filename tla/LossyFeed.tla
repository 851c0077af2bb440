------------------------------ MODULE LossyFeed -----------------------------
(***************************************************************************)
(* What the relay promises of what it publishes: a feed that may lose      *)
(* messages but never holds up its senders.  Those of one kind, Resent, may *)
(* reach the other end again, or late, for as long as they are kept; no    *)
(* other is ever repeated or overtaken.  Messages are numbered as they are *)
(* offered.                                                                *)
(***************************************************************************)
EXTENDS Integers, Sequences

CONSTANTS Bodies, Resent

VARIABLES
    offered,    \* how many messages were offered
    pending,    \* those accepted and still under way
    kept,       \* those passed on that may come again
    got         \* those that reached the other end

vars == <<offered, pending, kept, got>>

Message == [n : Nat, body : Bodies]

Init == offered = 0 /\ pending = <<>> /\ kept = <<>> /\ got = <<>>

\* A sender offers its message and goes on: it is taken, or lost at once.
Offer(b) ==
    /\ offered' = offered + 1
    /\ pending' \in {pending, Append(pending, [n |-> offered + 1, body |-> b])}
    /\ UNCHANGED <<kept, got>>

\* The message at the head arrives, or is lost on its way.  Only one of the
\* Resent is kept; if it arrives for good, so did all that were kept before.
Pass(arrives, keeps) ==
    LET m == Head(pending)
    IN  /\ pending # <<>>
        /\ keeps => m.body \in Resent
        /\ arrives /\ ~keeps /\ m.body \in Resent => kept = <<>>
        /\ pending' = Tail(pending)
        /\ got' = IF arrives THEN Append(got, m) ELSE got
        /\ kept' = IF keeps THEN Append(kept, m) ELSE kept
        /\ UNCHANGED offered

\* A kept message arrives again, or late.
Again == \E i \in DOMAIN kept : got' = Append(got, kept[i]) /\ UNCHANGED <<offered, pending, kept>>

\* The oldest of the kept messages is dropped, or all of them are.
Forget == kept # <<>> /\ kept' \in {Tail(kept), <<>>} /\ UNCHANGED <<offered, pending, got>>

\* Everything under way is lost, and so is what was kept.
LoseAll == pending' = <<>> /\ kept' = <<>> /\ UNCHANGED <<offered, got>>

Next ==
    \/ \E b \in Bodies : Offer(b)
    \/ \E arrives, keeps \in BOOLEAN : Pass(arrives, keeps)
    \/ Again \/ Forget \/ LoseAll

Spec == Init /\ [][Next]_vars

-----------------------------------------------------------------------------
\* What is not resent arrives after everything older that ever arrives before it,
\* and once.
InOrder ==
    \A i, j \in DOMAIN got : i < j /\ got[j].body \notin Resent => got[i].n < got[j].n
=============================================================================
