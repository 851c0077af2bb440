------------------------------- MODULE NodeApp -------------------------------
(***************************************************************************)
(* From a press of the button to the answer on the display:                *)
(* firmware/main/app_main.c over the capture buffer of NodeAudio and the   *)
(* upload of firmware/components/node_voice.                               *)
(*                                                                         *)
(* Three tasks run at once.  The esp_timer task polls the button and runs  *)
(* on_press and on_release; the reader task, which a press starts, copies  *)
(* blocks from the microphone into the halves; the worker task takes jobs  *)
(* from a queue and uploads whatever the halves then hold.  What the relay *)
(* answers is left open.  A job carries a length and a peak that nobody    *)
(* reads: here it carries, for the properties, the recording it is for.    *)
(*                                                                         *)
(* The bounds MaxRecordings and MaxBlocks limit what the user does.        *)
(***************************************************************************)
EXTENDS NodeAudio

LOCAL INSTANCE Functions

CONSTANTS
    QueueDepth,      \* xQueueCreate(2, ...)
    MaxSeq,          \* the last chunk number the device posts (120)
    MaxRecordings,   \* bound: presses that start a recording
    MaxBlocks        \* bound: blocks in one recording

ASSUME AppAssumption ==
    /\ QueueDepth \in Nat \ {0} /\ MaxSeq \in Nat
    /\ MaxRecordings \in Nat /\ MaxBlocks \in Nat
    /\ Block = (1 .. MaxRecordings) \X (1 .. MaxBlocks)

VARIABLES
    mic,        \* s_rx is set: node_audio_init succeeded at boot
    ring,       \* the static variables of node_audio.c
    running,    \* s_running: the reader task exists
    stopReq,    \* s_stop_req
    rec,        \* the number of the recording last started
    pressed,    \* s_active of node_ptt: the button as last reported
    window,     \* less than 400 ms since s_press_us
    tpc,        \* where the timer task is
    jobs,       \* s_jobs
    noted,      \* s_overrun_noted
    pages,      \* page_count(): none, one or (2) several
    shown,      \* what set_state last put on LED, display and MQTT
    wpc,        \* where the worker task is
    job,        \* the job it is running
    from,       \* the half upload_feed copies from
    buf,        \* chunk[], what it copied
    last,       \* *last of upload_feed
    seq,        \* chunk number
    sent,       \* the blocks of the chunks acknowledged so far in this upload
    alone,      \* history: no job was waiting or running when rec was started
    undone      \* history: a cancel drained the queue during this press

audioVars == <<mic, ring, running, stopReq, rec>>
timerVars == <<pressed, window, tpc, undone>>
workerVars == <<wpc, job, from, buf, last, seq, sent>>
uiVars == <<noted, pages, shown>>
vars == <<audioVars, timerVars, workerVars, uiVars, jobs, alone>>

Recordings == 1 .. MaxRecordings

-----------------------------------------------------------------------------
Init ==
    /\ mic \in BOOLEAN
    /\ ring = ResetRing /\ running = FALSE /\ stopReq = FALSE /\ rec = 0
    /\ pressed = FALSE /\ window = FALSE /\ tpc = "poll" /\ undone = FALSE
    /\ jobs = <<>> /\ noted = FALSE /\ pages = 0 /\ shown = "idle"
    /\ wpc = "wait" /\ job = 0 /\ last = FALSE /\ seq = 0
    /\ from = 0 /\ buf = <<>> /\ sent = <<>> /\ alone = FALSE

-----------------------------------------------------------------------------
(* The timer task.                                                         *)

\* Operators named Slip... are deliberate mistakes: each stands beside the
\* definition it would replace, for showing that a property notices it.

\* node_audio_start resets both halves, busy or not, and creates the reader.
AudioStart ==
    /\ mic /\ rec < MaxRecordings
    /\ ring' = ResetRing /\ running' = TRUE /\ stopReq' = FALSE /\ rec' = rec + 1
    /\ UNCHANGED mic

\* on_press starts a recording, or shows idle when there is no microphone.
Press ==
    /\ tpc = "poll" /\ ~pressed /\ ~window
    /\ pressed' = TRUE /\ window' = TRUE
    /\ \/ AudioStart /\ shown' = "recording" /\ alone' = (jobs = <<>> /\ wpc = "wait")
       \/ ~mic /\ shown' = "idle" /\ UNCHANGED <<audioVars, alone>>
    /\ UNCHANGED <<tpc, undone, workerVars, noted, pages, jobs>>

\* on_press within 400 ms of the last: the cancel is posted first...
CancelPress ==
    /\ tpc = "poll" /\ ~pressed /\ window
    /\ pressed' = TRUE
    /\ tpc' = "cancel"
    /\ UNCHANGED <<window, undone, audioVars, workerVars, uiVars, jobs, alone>>

\* ...and when it has returned, answered or not, the queue is drained.
CancelDrain ==
    /\ tpc = "cancel"
    /\ window' = FALSE
    /\ jobs' = <<>>
    /\ undone' = TRUE
    /\ tpc' = "poll"
    /\ UNCHANGED <<pressed, audioVars, workerVars, uiVars, alone>>

\* on_release calls node_audio_stop, which waits for the reader if there is one.
Release ==
    /\ tpc = "poll" /\ pressed
    /\ pressed' = FALSE
    /\ stopReq' = (stopReq \/ running)
    /\ tpc' = "stop"
    /\ UNCHANGED <<window, undone, mic, ring, running, rec, workerVars, uiVars, jobs, alone>>

Stopped == tpc = "stop" /\ ~running /\ tpc' = "poll" /\ undone' = FALSE

\* Under 3200 bytes is less than one block: a tap turns the page of a long
\* reply, leaves a short one, and shows ready only when there is no page.
ReleaseTap ==
    /\ Stopped
    /\ ring.total = 0
    /\ shown' = IF pages = 0 THEN "idle" ELSE shown
    /\ UNCHANGED <<pressed, window, audioVars, workerVars, noted, pages, jobs, alone>>

\* The peak over both halves is under the threshold.
ReleaseQuiet ==
    /\ Stopped
    /\ ring.total > 0
    /\ noted' = ring.overrun
    /\ shown' = "idle"
    /\ UNCHANGED <<pressed, window, audioVars, workerVars, pages, jobs, alone>>

\* A loud block is still in the halves.
Audible == \E i \in Index : ring.half[i].data # <<>>

\* A slip: a note once made is kept by the next release.
SlipStickyNote ==
    /\ Stopped /\ Audible
    /\ noted' = (noted \/ ring.overrun)
    /\ Len(jobs) < QueueDepth /\ jobs' = Append(jobs, rec) /\ shown' = "uploading"
    /\ UNCHANGED <<pressed, window, audioVars, workerVars, pages, alone>>

\* enqueue_upload, after "uploading" is shown: a full queue drops the job.
EnqueueUpload ==
    \/ Len(jobs) < QueueDepth /\ jobs' = Append(jobs, rec) /\ shown' = "uploading"
    \/ Len(jobs) = QueueDepth /\ jobs' = jobs /\ shown' = "idle"

\* Speech: the peak is over the threshold.
ReleaseSpeech ==
    /\ Stopped
    /\ ring.total > 0 /\ Audible
    /\ noted' = ring.overrun
    /\ EnqueueUpload
    /\ UNCHANGED <<pressed, window, audioVars, workerVars, pages, alone>>

\* 400 ms have passed.
WindowEnds ==
    /\ window
    /\ window' = FALSE
    /\ UNCHANGED <<pressed, tpc, undone, audioVars, workerVars, uiVars, jobs, alone>>

-----------------------------------------------------------------------------
(* The reader task.                                                        *)

\* One read, pushed.  400 ms of audio is less than a half.
Capture ==
    /\ running /\ ~stopReq /\ ring.total < MaxBlocks
    /\ window => ring.total + 1 < HalfUnits
    /\ ring' = Push(ring, <<rec, ring.total + 1>>)
    /\ UNCHANGED <<mic, running, stopReq, rec, timerVars, workerVars, uiVars, jobs, alone>>

\* A read fails, or the stop is seen, after the read in progress is pushed.
ReaderEnds ==
    /\ running
    /\ running' = FALSE
    /\ \/ ring' = ring
       \/ /\ stopReq /\ ring.total < MaxBlocks
          /\ window => ring.total + 1 < HalfUnits
          /\ ring' = Push(ring, <<rec, ring.total + 1>>)
    /\ UNCHANGED <<mic, stopReq, rec, timerVars, workerVars, uiVars, jobs, alone>>

-----------------------------------------------------------------------------
(* The worker task: run_upload and node_voice_post_chunked.                *)

Dequeue ==
    /\ wpc = "wait" /\ jobs # <<>>
    /\ job' = Head(jobs) /\ jobs' = Tail(jobs)
    /\ wpc' = "seal"
    /\ UNCHANGED <<from, buf, last, seq, sent, audioVars, timerVars, uiVars, alone>>

SealTail ==
    /\ wpc = "seal"
    /\ ring' = Seal(ring)
    /\ wpc' = "start"
    /\ UNCHANGED <<job, from, buf, last, seq, sent, mic, running, stopReq, rec, timerVars,
                   uiVars, jobs, alone>>

\* POST /v1/chunks/start.
StartPosted ==
    /\ wpc = "start" /\ wpc' = "take"
    /\ UNCHANGED <<job, from, buf, last, seq, sent, audioVars, timerVars, uiVars, jobs, alone>>

\* upload_feed: the half is copied...
FeedTake ==
    /\ wpc = "take" /\ HasFull(ring)
    /\ from' = ring.drain /\ buf' = TakeFull(ring)
    /\ wpc' = "mark"
    /\ UNCHANGED <<job, last, seq, sent, audioVars, timerVars, uiVars, jobs, alone>>

\* The copy holds, in each place, the block taken or the one the recorder has
\* put there since.
Copies(taken, now) ==
    {c \in [DOMAIN taken -> Range(taken) \cup Range(now)] :
       \A i \in DOMAIN c : c[i] = taken[i] \/ (i \in DOMAIN now /\ c[i] = now[i])}

\* A slip: with the tail sealed, the first half is taken for the last.
SlipLastAtOnce ==
    /\ wpc = "mark"
    /\ ring' = MarkEmpty(ring) /\ last' = TRUE /\ wpc' = "post"
    /\ UNCHANGED <<job, from, buf, seq, sent, mic, running, stopReq, rec, timerVars,
                   uiVars, jobs, alone>>

\* ...and given back; the upload ends when no other half is full by then.
FeedMark ==
    /\ wpc = "mark"
    /\ buf' \in Copies(buf, ring.half[from].data)
    /\ ring' = MarkEmpty(ring)
    /\ last' = ~HasFull(MarkEmpty(ring))
    /\ wpc' = "post"
    /\ UNCHANGED <<job, from, seq, sent, mic, running, stopReq, rec, timerVars, uiVars, jobs, alone>>

\* A chunk is acknowledged, at the first or the second attempt.
ChunkPosted ==
    /\ wpc = "post"
    /\ last \/ seq < MaxSeq
    /\ sent' = sent \o buf
    /\ seq' = IF last THEN seq ELSE seq + 1
    /\ wpc' = IF last THEN "finish" ELSE "take"
    /\ UNCHANGED <<job, from, buf, last, audioVars, timerVars, uiVars, jobs, alone>>

\* report_result clears the note, and the locals of the upload are gone.
Reported ==
    /\ noted' = FALSE /\ shown' = "idle"
    /\ wpc' = "wait" /\ job' = 0 /\ last' = FALSE /\ seq' = 0
    /\ from' = 0 /\ buf' = <<>> /\ sent' = <<>>
    /\ UNCHANGED <<audioVars, timerVars, jobs, alone>>

\* page_store: an empty reply has no page, "(part) " and an empty reply has one.
PageStore == pages' \in IF noted THEN {1, 2} ELSE {0, 1, 2}

\* errors_show: one page, or the pages as they were for an error without a name.
ErrorsShow == pages' \in {1, pages}

\* The finish is answered 200.
Replied == wpc = "finish" /\ PageStore /\ Reported

\* A slip: the worker waits for a half that is not full yet.
SlipWaitForHalf ==
    /\ wpc \in {"start", "post", "finish"}
    /\ ErrorsShow
    /\ Reported

\* A slip: the error page is put up, the state is left.
SlipStateLeft ==
    /\ wpc \in {"start", "post", "finish"} \/ (wpc = "take" /\ ~HasFull(ring))
    /\ ErrorsShow
    /\ noted' = FALSE /\ wpc' = "wait" /\ job' = 0 /\ last' = FALSE /\ seq' = 0
    /\ from' = 0 /\ buf' = <<>> /\ sent' = <<>>
    /\ UNCHANGED <<shown, audioVars, timerVars, jobs, alone>>

\* No connection or a bad start, nothing to feed, a chunk refused twice, too
\* many chunks, or a finish not answered 200.
UploadFailed ==
    /\ \/ wpc \in {"start", "post", "finish"}
       \/ wpc = "take" /\ ~HasFull(ring)
    /\ ErrorsShow
    /\ Reported

-----------------------------------------------------------------------------
TimerStep == CancelDrain \/ ReleaseTap \/ ReleaseQuiet \/ ReleaseSpeech
UserStep == Press \/ CancelPress \/ Release \/ WindowEnds
ReaderStep == Capture \/ ReaderEnds
WorkerStep ==
    \/ Dequeue \/ SealTail \/ StartPosted \/ FeedTake \/ FeedMark
    \/ ChunkPosted \/ Replied \/ UploadFailed

Next == UserStep \/ TimerStep \/ ReaderStep \/ WorkerStep

\* FreeRTOS runs every task: a callback goes on, the reader notices a stop, and
\* the worker's requests time out.  The user owes nothing.
Fairness ==
    /\ WF_vars(TimerStep)
    /\ WF_vars(stopReq /\ ReaderEnds)
    /\ WF_vars(WorkerStep)

Spec == Init /\ [][Next]_vars /\ Fairness

-----------------------------------------------------------------------------
(* Properties.                                                             *)

TypeOK ==
    /\ mic \in BOOLEAN
    /\ ring \in Ring /\ \A i \in Index : Len(ring.half[i].data) <= HalfUnits
    /\ running \in BOOLEAN /\ stopReq \in BOOLEAN
    /\ rec \in 0 .. MaxRecordings
    /\ pressed \in BOOLEAN /\ window \in BOOLEAN /\ undone \in BOOLEAN
    /\ tpc \in {"poll", "cancel", "stop"}
    /\ jobs \in Seq(Recordings) /\ Len(jobs) <= QueueDepth
    /\ noted \in BOOLEAN /\ pages \in 0 .. 2
    /\ shown \in {"idle", "recording", "uploading"}
    /\ wpc \in {"wait", "seal", "start", "take", "mark", "post", "finish"}
    /\ job \in 0 .. MaxRecordings /\ seq \in 0 .. MaxSeq /\ last \in BOOLEAN
    /\ from \in Index /\ buf \in Seq(Block) /\ Len(buf) <= HalfUnits
    /\ sent \in Seq(Block) /\ alone \in BOOLEAN

\* A whole upload that nothing disturbed: its recording started with the worker
\* and the queue at rest, and no other recording has started since.
Undisturbed == wpc = "finish" /\ job = rec /\ alone

\* An undisturbed upload without an overrun has sent its recording, every
\* block of it, once, in the order of the microphone: whatever the worker had
\* left in the halves before, and whether the tail was a full half or less.
SoloUploadExact ==
    Undisturbed /\ ~ring.overrun => sent = [i \in 1 .. ring.total |-> <<rec, i>>]

\* An undisturbed upload is going to be shown with "(part)" exactly when blocks
\* of its recording are missing, however the releases, reports and retakes of
\* a half in between moved s_overrun_noted and s_overrun.
PartTagHonest == Undisturbed => (noted <=> Len(sent) < ring.total)

\* Every job the worker takes is reported: post_chunked comes back even when a
\* new recording resets the halves under it or goes on filling them.
EveryJobReported == (wpc # "wait") ~> (wpc = "wait")

\* "uploading" does not stay on LED, display and MQTT: the upload reports, the
\* full queue puts it back, or the button is down again.
UploadingShownEnds == (shown = "uploading") ~> (shown # "uploading" \/ pressed)

-----------------------------------------------------------------------------
(* What the documents and comments say, and the code does not do.          *)

\* device-workflows.md W2d: a press while an upload runs is a normal case; the
\* upload sends its own recording.
JobSendsOwnAudio == \A i \in DOMAIN sent : sent[i][1] = job

\* device-workflows.md W3: the double press leaves the queue empty.  It does not,
\* as TLC shows when this is added to MCNodeOwnAudio.cfg.
CancelQueuesNothing == [][undone /\ jobs' # jobs => Len(jobs') < Len(jobs)]_vars
=============================================================================
