----------------------------- MODULE ChunkStore -----------------------------
(***************************************************************************)
(* The relay's store of chunked uploads, relay/internal/server/chunks.go:  *)
(* chunkStore and the three HTTP handlers in front of it.                  *)
(*                                                                         *)
(* A device opens an upload and gets a random id, posts numbered chunks of *)
(* PCM to it, and finishes it; the finish takes the session out of the     *)
(* store and hands the concatenated PCM to the transcription.  Every       *)
(* operation holds the store's mutex from end to end, so each one is one   *)
(* action here.  What is left open is everything HTTP leaves open: requests *)
(* of any device, for any id ever issued, in any order and any number of   *)
(* times (a retry, a duplicate that arrives late, a finish after a cancel), *)
(* with the janitor goroutine and the passage of time in between.          *)
(***************************************************************************)
EXTENDS Integers, Sequences, FiniteSets, FiniteSetsExt

CONSTANTS
    Uploads,    \* the ids newUploadID can draw; each is drawn once
    Devices,    \* the authorised device ids
    Blobs,      \* the chunk bodies a device may post
    SizeOf,     \* their lengths in bytes: a chunk is never empty
    MaxCount,   \* cfg.ChunkMaxCount (120)
    MaxBytes,   \* stt.MaxPCMBytes (960000)
    TTL,        \* cfg.ChunkTTL (300 s), in units of the janitor's clock
    Absent,     \* chunks[seq] of a map that has no such key
    NoSession   \* sessions[id] of a map that has no such key

ASSUME SizeAssumption == SizeOf \in [Blobs -> Nat \ {0}]
ASSUME LimitAssumption == MaxCount \in Nat \ {0} /\ MaxBytes \in Nat /\ TTL \in Nat
ASSUME AbsentAssumption == Absent \notin Blobs

\* The chunk numbers the store accepts; a request may carry any integer, of
\* which Posted keeps one beyond each end.
Seqs == 0 .. MaxCount - 1
Posted == -1 .. MaxCount
ChunkMap == [Seqs -> Blobs \cup {Absent}]
NoChunks == [q \in Seqs |-> Absent]

\* chunkSession: lastSeen is kept as the time since then, which saturates one
\* beyond the TTL because sweep compares it with the TTL only.
Session == [deviceID : Devices, chunks : ChunkMap, total : Int, idle : 0 .. TTL + 1]

ASSUME NoSessionAssumption == NoSession \notin Session

VARIABLES
    sessions,   \* chunkStore.sessions
    issued,     \* the ids handed out so far
    acked,      \* history: the last body answered 200, by upload and number
    handed      \* history: what assemble returned for an upload, in order

vars == <<sessions, issued, acked, handed>>

Live(u) == sessions[u] # NoSession

\* Operators named Slip... are deliberate mistakes: each stands beside the
\* definition it would replace, for showing that a property notices it.

SlipAnyOwner(u, d) == Live(u)

\* The lookup append and assemble begin with: the id is in the map and belongs
\* to the device that asks.
Owned(u, d) == Live(u) /\ sessions[u].deviceID = d

\* len(sess.chunks[seq]), which is 0 for a key that is not there.
Len0(b) == IF b = Absent THEN 0 ELSE SizeOf[b]

Held(chunks) == {q \in Seqs : chunks[q] # Absent}

\* The concatenation of chunks 0 .. top.
PCM(chunks, top) == [i \in 1 .. top + 1 |-> chunks[i - 1]]

-----------------------------------------------------------------------------
Init ==
    /\ sessions = [u \in Uploads |-> NoSession]
    /\ issued = {}
    /\ acked = [u \in Uploads |-> NoChunks]
    /\ handed = [u \in Uploads |-> <<>>]

Opened(d) == [deviceID |-> d, chunks |-> NoChunks, total |-> 0, idle |-> 0]

\* POST /v1/chunks/start.
Start(d) ==
    \E u \in Uploads \ issued :
        /\ issued' = issued \cup {u}
        /\ sessions' = [sessions EXCEPT ![u] = Opened(d)]
        /\ UNCHANGED <<acked, handed>>

SlipForgetOldLength(s, q, b) == s.total + SizeOf[b]

\* The total after chunk q of session s is replaced by b.
NewTotal(s, q, b) == s.total + SizeOf[b] - Len0(s.chunks[q])

\* Session s with b stored under q.
Stored(s, q, b) ==
    [deviceID |-> s.deviceID, chunks |-> [s.chunks EXCEPT ![q] = b],
     total |-> NewTotal(s, q, b), idle |-> 0]

\* What append checks before it stores a body.
Accepts(d, u, q, b) ==
    /\ Owned(u, d)
    /\ q \in Seqs
    /\ NewTotal(sessions[u], q, b) <= MaxBytes

SlipReviveUnknown(d, u, q, b) ==
    /\ q \in Seqs
    /\ LET s == IF Live(u) THEN sessions[u] ELSE Opened(d)
       IN  /\ NewTotal(s, q, b) <= MaxBytes
           /\ sessions' = [sessions EXCEPT ![u] = Stored(s, q, b)]
    /\ acked' = [acked EXCEPT ![u][q] = b]
    /\ UNCHANGED <<issued, handed>>

\* POST /v1/chunks/{id}?seq=q answered 200.  A number posted before is
\* overwritten.
AppendOK(d, u, q, b) ==
    /\ Accepts(d, u, q, b)
    /\ sessions' = [sessions EXCEPT ![u] = Stored(@, q, b)]
    /\ acked' = [acked EXCEPT ![u][q] = b]
    /\ UNCHANGED <<issued, handed>>

\* The same request refused: unknown_upload, bad_request or too_long.  A
\* refusal leaves the session as it was, lastSeen included.
AppendRefused(d, u, q, b) ==
    /\ ~Accepts(d, u, q, b)
    /\ UNCHANGED vars

\* The chunks are exactly 0 .. top.
Complete(u, top) == Held(sessions[u].chunks) = 0 .. top

SlipKeepSession(d, u) ==
    /\ Owned(u, d)
    /\ \E top \in Seqs :
        /\ Complete(u, top)
        /\ handed' = [handed EXCEPT ![u] = Append(@, PCM(sessions[u].chunks, top))]
    /\ UNCHANGED <<sessions, issued, acked>>

SlipSkipGapCheck(d, u) ==
    /\ Owned(u, d)
    /\ \E top \in Held(sessions[u].chunks) :
        handed' = [handed EXCEPT ![u] = Append(@, PCM(sessions[u].chunks, top))]
    /\ sessions' = [sessions EXCEPT ![u] = NoSession]
    /\ UNCHANGED <<issued, acked>>

\* POST /v1/chunks/{id}/finish with all of 0 .. top there: the session leaves
\* the map and its PCM goes to transcribeAndPrompt.
FinishOK(d, u) ==
    /\ Owned(u, d)
    /\ \E top \in Seqs :
        /\ Complete(u, top)
        /\ handed' = [handed EXCEPT ![u] = Append(@, PCM(sessions[u].chunks, top))]
    /\ sessions' = [sessions EXCEPT ![u] = NoSession]
    /\ UNCHANGED <<issued, acked>>

\* The same request answered unknown_upload, silence (nothing posted) or
\* upload_gap: the session, if there is one, stays for a retry.
FinishRefused(d, u) ==
    /\ Owned(u, d) => \A top \in Seqs : ~Complete(u, top)
    /\ UNCHANGED vars

\* dropDevice, which POST /v1/cancel calls.
DropDevice(d) ==
    /\ sessions' = [u \in Uploads |-> IF Owned(u, d) THEN NoSession ELSE sessions[u]]
    /\ UNCHANGED <<issued, acked, handed>>

SlipSweepOnlyEmpty(u) ==
    Live(u) /\ sessions[u].idle > TTL /\ Held(sessions[u].chunks) = {}

\* sweep, which the janitor goroutine calls every 60 s.
Expired(u) == Live(u) /\ sessions[u].idle > TTL
Sweep ==
    /\ sessions' = [u \in Uploads |-> IF Expired(u) THEN NoSession ELSE sessions[u]]
    /\ UNCHANGED <<issued, acked, handed>>

\* One unit of time passes.
Aged(s) == [s EXCEPT !.idle = IF @ > TTL THEN @ ELSE @ + 1]
Tick ==
    /\ sessions' = [u \in Uploads |-> IF Live(u) THEN Aged(sessions[u]) ELSE NoSession]
    /\ UNCHANGED <<issued, acked, handed>>

-----------------------------------------------------------------------------
DeviceStep(d) ==
    \/ Start(d)
    \/ \E u \in issued, q \in Posted, b \in Blobs :
            AppendOK(d, u, q, b) \/ AppendRefused(d, u, q, b)
    \/ \E u \in issued : FinishOK(d, u) \/ FinishRefused(d, u)
    \/ DropDevice(d)

Next ==
    \/ \E d \in Devices : DeviceStep(d)
    \/ Sweep
    \/ Tick

\* The clock runs and the janitor's ticker fires for as long as the relay is
\* up; nothing obliges a device to send anything.
Fairness == WF_vars(Sweep) /\ WF_vars(Tick)

Spec == Init /\ [][Next]_vars /\ Fairness

-----------------------------------------------------------------------------
\* The type of the state.  The session's total may never exceed the cap.
TypeOK ==
    /\ sessions \in [Uploads -> Session \cup {NoSession}]
    /\ \A u \in Uploads : Live(u) => sessions[u].total <= MaxBytes
    /\ issued \subseteq Uploads
    /\ acked \in [Uploads -> ChunkMap]
    /\ handed \in [Uploads -> Seq(Seq(Blobs))]

\* The running total of a session is the number of bytes it holds, whatever
\* was overwritten or refused: the byte cap is a cap on memory.
TotalIsSum ==
    \A u \in Uploads : Live(u) =>
        sessions[u].total =
            MapThenSumSet(LAMBDA q : Len0(sessions[u].chunks[q]), Seqs)

\* However often finish is retried, one upload becomes one turn at most.
HandedAtMostOnce == \A u \in Uploads : Len(handed[u]) <= 1

\* The PCM that is transcribed is, in order and without a hole, the last body
\* acknowledged under each number: no refused body gets into it and no
\* acknowledged one is missing, duplicates and late retries included.
HandedIsAcked ==
    \A u \in Uploads : \A i \in DOMAIN handed[u] :
        \E top \in Seqs : /\ Held(acked[u]) = 0 .. top
                          /\ handed[u][i] = PCM(acked[u], top)

\* An upload that was finished, cancelled or swept never comes back: a chunk
\* or finish that arrives late finds nothing to revive.
NoResurrection ==
    [][\A u \in issued : ~Live(u) => ~Live(u)']_vars

\* Whatever a device asks for, the uploads of the others stay as they are,
\* even when it names their ids.
Isolation ==
    [][\A d \in Devices : DeviceStep(d) =>
            \A u \in issued : Live(u) /\ sessions[u].deviceID # d
                => sessions'[u] = sessions[u]]_vars

\* No upload stays in memory for ever unless its device keeps posting to it.
AbandonedIsSwept ==
    \A u \in Uploads : <>[]Live(u) => []<>(Live(u) /\ sessions[u].idle = 0)
=============================================================================
