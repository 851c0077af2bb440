------------------------------ MODULE Uploader ------------------------------
(***************************************************************************)
(* A client of the chunked upload together with the relay's ChunkStore: the *)
(* device (node_voice_post_chunked of node_voice.c) or the bench program    *)
(* that stands in for it (relay/cmd/virt/main.go), while other devices send *)
(* the store whatever they like.                                           *)
(*                                                                         *)
(* The two walk through the same requests.  They differ in what they do    *)
(* when one of them fails: the device posts a chunk again, once; the bench *)
(* program ends with what it got, and can be told to leave a chunk out or   *)
(* to cancel in between.  A request can be lost, or be carried out without  *)
(* its answer getting back, or be carried out late, after its client has    *)
(* given up on it.                                                         *)
(***************************************************************************)
EXTENDS ChunkStore

CONSTANTS
    Me,         \* the device id the client goes by
    Clips,      \* the recordings: sequences of chunk bodies
    DeviceMax,  \* the number beyond which the device says too_long (120)
    MaxFaults   \* bound: requests and answers lost

\* The device records for as long as its button is down before it queues an
\* upload, and the bench program refuses a file without content.
ASSUME ClientAssumption ==
    /\ Me \in Devices
    /\ \A clip \in Clips : clip \in Seq(Blobs) /\ clip # <<>>
    /\ DeviceMax \in Nat /\ MaxFaults \in Nat

VARIABLES
    me,         \* where the client is
    job,        \* what it is to do
    seq,        \* the number of the next chunk
    tries,      \* how often that chunk was posted already
    upl,        \* the upload id it got
    said,       \* the verdict it ended with
    late,       \* the chunks posted that are still on their way
    faults,     \* how many requests or answers were lost
    swept       \* history: the janitor removed the upload, or time alone could

clientVars == <<me, job, seq, tries, upl, said, late, faults, swept>>

NoUpload == {}

\* The program, the recording, and the flags of the bench program: the number
\* of a chunk to leave out, or -1, and whether to cancel after the first chunk.
Jobs ==
    [who : {"device"}, clip : Clips, drop : {-1}, cancel : {FALSE}]
    \cup [who : {"bench"}, clip : Clips, drop : -1 .. MaxCount - 1, cancel : BOOLEAN]

Dropped == job.drop = seq

\* With a chunk to leave out, or one to cancel after, even a short recording is
\* uploaded in chunks; otherwise the bench program posts it in one piece, to
\* /v1/voice, and the store is not involved.
Chunks(j) == j.who = "device" \/ Len(j.clip) > 1 \/ j.drop >= 0 \/ j.cancel

InitClient ==
    /\ job \in {j \in Jobs : Chunks(j)}
    /\ me = "start" /\ seq = 0 /\ tries = 0 /\ upl = NoUpload
    /\ said = "none" /\ late = {} /\ faults = 0 /\ swept = FALSE

Ends(verdict) == me' = "done" /\ said' = verdict

Lost == faults < MaxFaults /\ faults' = faults + 1
Kept == UNCHANGED faults

-----------------------------------------------------------------------------
\* /v1/chunks/start.
StartPosted ==
    /\ me = "start"
    /\ \E u \in Uploads \ issued :
        /\ issued' = issued \cup {u}
        /\ sessions' = [sessions EXCEPT ![u] = Opened(Me)]
        /\ \/ me' = "post" /\ upl' = {u} /\ UNCHANGED said /\ Kept
           \/ Ends("failed") /\ UNCHANGED upl /\ Lost
    /\ UNCHANGED <<acked, handed, job, seq, tries, late, swept>>

\* The relay cannot be reached.
StartLost ==
    /\ me = "start" /\ Ends("failed") /\ Lost
    /\ UNCHANGED <<vars, job, seq, tries, upl, late, swept>>

\* The number has been dealt with.  The bench program goes on to the end of the
\* clip; so does the device, but not beyond DeviceMax.
NextSeq ==
    /\ seq' = seq + 1 /\ tries' = 0
    /\ IF job.who = "device" /\ seq + 1 < Len(job.clip) /\ seq + 1 > DeviceMax
       THEN Ends("too_long")
       ELSE me' = (IF seq + 1 < Len(job.clip) THEN "post" ELSE "finish") /\ UNCHANGED said

Skip ==
    /\ me = "post" /\ Dropped
    /\ NextSeq
    /\ UNCHANGED <<vars, job, upl, late, faults, swept>>

\* The bench program cancels instead of posting chunk 1, and finishes.
CancelMid ==
    /\ me = "post" /\ ~Dropped /\ job.cancel /\ seq = 1
    /\ \/ DropDevice(Me) /\ Kept
       \/ UNCHANGED vars /\ Lost
    /\ me' = "finish"
    /\ UNCHANGED <<job, seq, tries, upl, said, late, swept>>

Posting == me = "post" /\ ~Dropped /\ ~(job.cancel /\ seq = 1)

SlipGiveUpAtOnce(verdict) ==
    Ends(IF job.who = "device" THEN "upload_gap" ELSE verdict) /\ UNCHANGED <<seq, tries>>

\* A post that failed: the device tries once more.
PostFailed(verdict) ==
    IF job.who = "device" /\ tries = 0
    THEN tries' = 1 /\ UNCHANGED <<me, said, seq>>
    ELSE Ends(IF job.who = "device" THEN "upload_gap" ELSE verdict) /\ UNCHANGED <<seq, tries>>

\* The relay carries out the post of the current chunk.  Its answer may be lost.
ChunkPosted ==
    LET b == job.clip[seq + 1] IN
    /\ Posting
    /\ \E u \in upl :
        \/ AppendOK(Me, u, seq, b) /\ ((NextSeq /\ Kept) \/ (PostFailed("lost") /\ Lost))
        \/ /\ AppendRefused(Me, u, seq, b)
           /\ \/ PostFailed(IF Owned(u, Me) THEN "refused" ELSE "unknown_upload") /\ Kept
              \/ PostFailed("lost") /\ Lost
    /\ UNCHANGED <<job, upl, late, swept>>

\* The post is lost, or still on its way when the client gives up on it.
ChunkLost ==
    /\ Posting /\ PostFailed("lost") /\ Lost
    /\ late' \in {late, late \cup {seq}}
    /\ UNCHANGED <<vars, job, upl, swept>>

SlipLateFromNext(q) == job.clip[IF q + 2 <= Len(job.clip) THEN q + 2 ELSE q + 1]

\* The body a late post carries.
LateBody(q) == job.clip[q + 1]

LateArrives(q) ==
    /\ q \in late
    /\ \E u \in upl : AppendOK(Me, u, q, LateBody(q)) \/ AppendRefused(Me, u, q, LateBody(q))
    /\ late' = late \ {q}
    /\ UNCHANGED <<me, job, seq, tries, upl, said, faults, swept>>

\* What the relay answers a finish it refuses.
Refusal(u) ==
    IF ~Owned(u, Me) THEN "unknown_upload"
    ELSE IF Held(sessions[u].chunks) = {} THEN "silence" ELSE "upload_gap"

\* /v1/chunks/{id}/finish, once.
FinishPosted ==
    /\ me = "finish"
    /\ \E u \in upl :
        \/ FinishOK(Me, u) /\ Ends("turn") /\ Kept
        \/ FinishRefused(Me, u) /\ Ends(Refusal(u)) /\ Kept
        \/ (FinishOK(Me, u) \/ FinishRefused(Me, u)) /\ Ends("lost") /\ Lost
    /\ UNCHANGED <<job, seq, tries, upl, late, swept>>

FinishLost ==
    /\ me = "finish" /\ Ends("lost") /\ Lost
    /\ UNCHANGED <<vars, job, seq, tries, upl, late, swept>>

Mine ==
    \/ StartPosted \/ StartLost \/ Skip \/ CancelMid \/ ChunkPosted \/ ChunkLost
    \/ FinishPosted \/ FinishLost

\* What others and the clock do to the store.
Others ==
    /\ \/ \E d \in Devices \ {Me} : DeviceStep(d)
       \/ Sweep
       \/ Tick
    /\ swept' = (swept \/ \E u \in upl : Expired(u))
    /\ UNCHANGED <<me, job, seq, tries, upl, said, late, faults>>

UploadNext == Mine \/ Others \/ \E q \in late : LateArrives(q)

UploadSpec == Init /\ InitClient /\ [][UploadNext]_<<vars, clientVars>>

-----------------------------------------------------------------------------
\* The clip without the chunk left out, as far as the relay can hold it.
Sent == IF job.drop = Len(job.clip) - 1 THEN SubSeq(job.clip, 1, job.drop) ELSE job.clip

\* The bench program gets to where it cancels.
CancelComes == job.cancel /\ Len(job.clip) > 1 /\ job.drop # 1

\* What becomes a turn is the recording, whole and in order, whatever was lost,
\* posted twice or carried out late, and whatever other devices sent meanwhile.
\* A recording with a hole does not become a turn; only a hole at its end is
\* one the relay cannot see.  A recording cancelled becomes one only if the
\* cancel was lost.
TurnIsRecording ==
    \A u \in upl : \A i \in DOMAIN handed[u] :
        IF CancelComes THEN faults > 0 ELSE handed[u][i] = Sent

\* The verdict the requests of a client deserve that nothing disturbed.
Deserved ==
    IF CancelComes THEN "unknown_upload"
    ELSE IF job.drop = 0 /\ Len(job.clip) = 1 THEN "silence"
    ELSE IF job.drop \in 0 .. Len(job.clip) - 2 THEN "upload_gap" ELSE "turn"

Small ==
    /\ Len(job.clip) <= MaxCount
    /\ MapThenSumSet(LAMBDA i : SizeOf[job.clip[i]], 1 .. Len(job.clip)) <= MaxBytes

\* A client that was not disturbed by the janitor, and whose recording is
\* within the relay's limits, is told what its requests deserve, or that a
\* request was lost: one lost post of a chunk does not cost the device its turn.
\* A recording beyond the limits gets no verdict of its own: the relay's limits
\* come before the device's too_long, and what they refuse is an upload_gap.
VerdictDeserved ==
    /\ said # "too_long"
    /\ me = "done" /\ ~swept /\ Small =>
        \/ said = Deserved
        \/ faults > 0 /\ said \in {"failed", "lost"}
        \/ faults > 1 /\ said = "upload_gap"
        \/ faults > 0 /\ CancelComes /\ said \in {"turn", "silence"}
=============================================================================
