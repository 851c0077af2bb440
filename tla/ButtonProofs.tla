---------------------------- MODULE ButtonProofs ----------------------------
(***************************************************************************)
(* What holds of all that a press of the button sets off (NodeApp), for    *)
(* every size of the halves, the queue and the recordings, and of the      *)
(* button itself (Ptt), for all periods, debounce times and delays.        *)
(*                                                                         *)
(* The first part ends in the invariant AloneInv: a recording that was     *)
(* started with the worker at rest lies in the halves in order while it is *)
(* made, and then, however often it is sealed and taken, in what was sent, *)
(* the chunk that is posted and what the halves still hold.                *)
(***************************************************************************)
EXTENDS Ptt, NodeApp, SequenceTheorems, TLAPS

USE HalfAssumption DEF HalfAssumption

-----------------------------------------------------------------------------
(* The operations of the capture buffer.                                   *)

\* A half is empty exactly when it holds nothing, only the one the recorder
\* stands at is being filled, and that one has room.
Halves(r) ==
    \A i \in Index :
        /\ r.half[i].state = "empty" <=> r.half[i].data = <<>>
        /\ r.half[i].state = "filling" => i = r.fill /\ Len(r.half[i].data) < HalfUnits
        /\ Len(r.half[i].data) <= HalfUnits

LEMMA Next2Facts == Next2(0) = 1 /\ Next2(1) = 0 /\ \A i \in Index : Next2(i) \in Index /\ Next2(i) # i
BY DEF Next2, Index

\* What a ring and its halves are made of.
LEMMA RingParts ==
  ASSUME NEW r \in Ring
  PROVE  /\ r.fill \in Index /\ r.drain \in Index /\ r.total \in Nat /\ r.overrun \in BOOLEAN
         /\ \A i \in Index : /\ r.half[i] \in Half
                             /\ r.half[i].state \in HalfState
                             /\ r.half[i].data \in Seq(Block)
                             /\ Len(r.half[i].data) \in Nat
<1>1. r.half \in [Index -> Half]
  BY DEF Ring
<1>2. \A i \in Index : r.half[i] \in Half
  BY <1>1
<1>3. \A i \in Index : r.half[i].state \in HalfState /\ r.half[i].data \in Seq(Block)
  BY <1>2 DEF Half
<1>4. QED  BY <1>2, <1>3 DEF Ring

\* A reset leaves two empty halves and nothing noted.
LEMMA ResetFacts ==
  /\ ResetRing \in Ring /\ Halves(ResetRing)
  /\ \A i \in Index : ResetRing.half[i].data = <<>> /\ ResetRing.half[i].state = "empty"
  /\ ResetRing.total = 0 /\ ResetRing.fill = 0 /\ ResetRing.drain = 0 /\ ResetRing.overrun = FALSE
<1>1. EmptyHalf \in Half
  BY DEF EmptyHalf, Half, HalfState
<1>2. ResetRing \in Ring
  BY <1>1 DEF ResetRing, Ring, Index
<1>3. QED  BY <1>2 DEF ResetRing, Halves, EmptyHalf

\* What a push keeps of the half the recorder stands at.
Kept(r) == IF r.half[r.fill].state = "full" THEN <<>> ELSE r.half[r.fill].data

\* A push adds one block to the half being filled, and notes when that was
\* full.
LEMMA PushFacts ==
  ASSUME NEW r \in Ring, Halves(r), NEW b \in Block
  PROVE  LET data == Append(Kept(r), b)
             p == Push(r, b)
         IN  /\ p \in Ring /\ Halves(p)
             /\ p.total = r.total + 1
             /\ p.overrun = (r.overrun \/ r.half[r.fill].state = "full")
             /\ p.drain = IF r.half[r.fill].state = "full" THEN r.fill ELSE r.drain
             /\ p.fill = IF Len(data) >= HalfUnits THEN Next2(r.fill) ELSE r.fill
             /\ p.half[r.fill].data = data
             /\ p.half[r.fill].state = IF Len(data) >= HalfUnits THEN "full" ELSE "filling"
             /\ \A i \in Index : i # r.fill => p.half[i] = r.half[i]
<1> DEFINE full == r.half[r.fill].state = "full"
           kept == IF full \/ r.half[r.fill].state = "empty" THEN <<>> ELSE r.half[r.fill].data
           data == Append(Kept(r), b)
           filled == Len(data) >= HalfUnits
           new == [state |-> IF filled THEN "full" ELSE "filling", data |-> data]
           p == Push(r, b)
<1>1. r.fill \in Index /\ r.half[r.fill] \in Half /\ r.half[r.fill].data \in Seq(Block)
  BY RingParts
<1>2. kept = Kept(r)
  BY <1>1 DEF Halves, Kept
<1>3. /\ Kept(r) \in Seq(Block) /\ Len(Kept(r)) < HalfUnits /\ Len(Kept(r)) \in Nat
  <2>1. CASE full
    BY <2>1 DEF Kept
  <2>2. CASE ~full
    <3>1. Kept(r) = r.half[r.fill].data /\ r.half[r.fill].state \in {"empty", "filling"}
      BY <1>1, <2>2 DEF Kept, Half, HalfState
    <3>2. Len(r.half[r.fill].data) < HalfUnits
      BY <1>1, <3>1 DEF Halves
    <3>3. QED  BY <1>1, <3>1, <3>2
  <2>3. QED  BY <2>1, <2>2
<1>4. data \in Seq(Block) /\ Len(data) = Len(Kept(r)) + 1 /\ data # <<>>
  BY <1>3, AppendProperties
<1>5. new \in Half
  BY <1>4 DEF Half, HalfState
<1>6. p = [r EXCEPT !.half = [r.half EXCEPT ![r.fill] = new],
                    !.fill = IF filled THEN Next2(r.fill) ELSE r.fill,
                    !.drain = IF full THEN r.fill ELSE r.drain,
                    !.total = r.total + 1,
                    !.overrun = r.overrun \/ full]
  BY <1>2, Zenon DEF Push
<1> HIDE DEF data, new, p, kept
<1>7. /\ p.half = [r.half EXCEPT ![r.fill] = new]
      /\ p.fill = IF filled THEN Next2(r.fill) ELSE r.fill
      /\ p.drain = IF full THEN r.fill ELSE r.drain
      /\ p.total = r.total + 1
      /\ p.overrun = (r.overrun \/ full)
  BY <1>6 DEF Ring
<1>8. p.half[r.fill] = new /\ \A i \in Index : i # r.fill => p.half[i] = r.half[i]
  BY <1>1, <1>7 DEF Ring
<1>9. p \in Ring
  <2>1. p.half \in [Index -> Half] /\ p.fill \in Index /\ p.drain \in Index /\ p.total \in Nat
    BY <1>1, <1>5, <1>7, RingParts, Next2Facts DEF Ring
  <2>2. p.overrun \in BOOLEAN
    BY <1>7
  <2>3. p = [half |-> p.half, fill |-> p.fill, drain |-> p.drain, total |-> p.total, overrun |-> p.overrun]
    BY <1>6 DEF Ring
  <2>4. QED  BY <2>1, <2>2, <2>3 DEF Ring
<1>10. new.data = data /\ new.state = IF filled THEN "full" ELSE "filling"
  BY DEF new
<1>11. Halves(p)
  <2> SUFFICES ASSUME NEW i \in Index
               PROVE  /\ p.half[i].state = "empty" <=> p.half[i].data = <<>>
                      /\ p.half[i].state = "filling" => i = p.fill /\ Len(p.half[i].data) < HalfUnits
                      /\ Len(p.half[i].data) <= HalfUnits
    BY DEF Halves
  <2>1. CASE i = r.fill
    BY <1>3, <1>4, <1>7, <1>8, <1>10, <2>1
  <2>2. CASE i # r.fill
    <3>1. p.half[i] = r.half[i] /\ r.half[i].state # "filling"
      BY <1>8, <2>2 DEF Halves
    <3>2. QED  BY <3>1 DEF Halves
  <2>3. QED  BY <2>1, <2>2
<1>12. QED  BY <1>7, <1>8, <1>9, <1>10, <1>11 DEF data, p

\* Giving a half back empties it and moves the drain index on.
LEMMA MarkFacts ==
  ASSUME NEW r \in Ring, Halves(r)
  PROVE  LET p == MarkEmpty(r)
         IN  /\ p \in Ring /\ Halves(p)
             /\ p.total = r.total /\ p.overrun = r.overrun /\ p.fill = r.fill
             /\ p.drain = Next2(r.drain)
             /\ p.half[r.drain] = EmptyHalf
             /\ \A i \in Index : i # r.drain => p.half[i] = r.half[i]
<1> DEFINE p == MarkEmpty(r)
<1>1. r.drain \in Index /\ EmptyHalf \in Half /\ Next2(r.drain) \in Index
  BY RingParts, Next2Facts DEF EmptyHalf, Half, HalfState
<1>2. p = [r EXCEPT !.half = [r.half EXCEPT ![r.drain] = EmptyHalf], !.drain = Next2(r.drain)]
  BY Zenon DEF MarkEmpty
<1> HIDE DEF p
<1>3. /\ p \in Ring /\ p.total = r.total /\ p.overrun = r.overrun /\ p.fill = r.fill
      /\ p.drain = Next2(r.drain)
      /\ p.half[r.drain] = EmptyHalf
      /\ \A i \in Index : i # r.drain => p.half[i] = r.half[i]
  BY <1>1, <1>2 DEF Ring
<1>4. Halves(p)
  BY <1>3 DEF Halves, EmptyHalf
<1>5. QED  BY <1>3, <1>4 DEF p

\* A seal closes the half being written and changes no data.
LEMMA SealFacts ==
  ASSUME NEW r \in Ring, Halves(r)
  PROVE  LET p == Seal(r)
         IN  /\ p \in Ring /\ Halves(p)
             /\ p.total = r.total /\ p.overrun = r.overrun /\ p.fill = r.fill /\ p.drain = r.drain
             /\ \A i \in Index : p.half[i].data = r.half[i].data /\ p.half[i].state # "filling"
<1> DEFINE p == Seal(r)
<1>1. CASE r.half[r.fill].state # "filling"
  <2>1. p = r
    BY <1>1 DEF Seal
  <2>2. QED  BY <1>1, <2>1 DEF Halves
<1>2. CASE r.half[r.fill].state = "filling"
  <2>1. r.fill \in Index /\ r.half[r.fill] \in Half /\ r.half[r.fill].data \in Seq(Block)
    BY RingParts
  <2> DEFINE new == [r.half[r.fill] EXCEPT !.state = "full"]
  <2>2. p = [r EXCEPT !.half = [r.half EXCEPT ![r.fill] = new]]
    BY <1>2, Zenon DEF Seal
  <2>3. new \in Half /\ new.data = r.half[r.fill].data /\ new.state = "full"
    BY <2>1 DEF Half, HalfState
  <2> HIDE DEF p, new
  <2>4. /\ p \in Ring /\ p.total = r.total /\ p.overrun = r.overrun /\ p.fill = r.fill
        /\ p.drain = r.drain
        /\ p.half[r.fill] = new
        /\ \A i \in Index : i # r.fill => p.half[i] = r.half[i]
    BY <2>1, <2>2, <2>3 DEF Ring
  <2>5. Halves(p) /\ \A i \in Index : p.half[i].data = r.half[i].data /\ p.half[i].state # "filling"
    BY <1>2, <2>1, <2>3, <2>4 DEF Halves
  <2>6. QED  BY <2>4, <2>5 DEF p
<1>3. QED  BY <1>1, <1>2

-----------------------------------------------------------------------------
(* The type of the state, and what it rests on.                            *)

\* The button is down, or its release waits for the reader, for the recording
\* rec; from the cancel of a double press on it no longer is for that one.
FirstHold == (pressed \/ tpc = "stop") /\ ~undone /\ tpc # "cancel"

\* The reader runs only while the button that started it is down.  What a
\* double press cancels is shorter than a half.
Holds ==
    /\ ring.total > 0 \/ running => rec > 0 /\ mic
    /\ running => FirstHold
    /\ undone => pressed \/ tpc = "stop"
    /\ tpc = "cancel" => pressed
    /\ tpc = "stop" => ~pressed
    /\ window \/ undone \/ tpc = "cancel" => ring.total < HalfUnits
    /\ wpc = "wait" => sent = <<>>

\* TypeOK by the tasks whose variables it is about.
RingType == ring \in Ring /\ Halves(ring)
TimerType ==
    /\ mic \in BOOLEAN /\ running \in BOOLEAN /\ stopReq \in BOOLEAN
    /\ rec \in 0 .. MaxRecordings
    /\ pressed \in BOOLEAN /\ window \in BOOLEAN /\ undone \in BOOLEAN /\ alone \in BOOLEAN
    /\ tpc \in {"poll", "cancel", "stop"}
    /\ jobs \in Seq(Recordings) /\ Len(jobs) <= QueueDepth
    /\ noted \in BOOLEAN /\ pages \in 0 .. 2
    /\ shown \in {"idle", "recording", "uploading"}
WorkerType ==
    /\ wpc \in {"wait", "seal", "start", "take", "mark", "post", "finish"}
    /\ job \in 0 .. MaxRecordings /\ seq \in 0 .. MaxSeq /\ last \in BOOLEAN
    /\ from \in Index /\ buf \in Seq(Block) /\ Len(buf) <= HalfUnits /\ sent \in Seq(Block)

AppInv == RingType /\ TimerType /\ WorkerType /\ Holds

LEMMA InvType == AppInv => TypeOK
BY DEF AppInv, RingType, TimerType, WorkerType, TypeOK, Halves

\* The steps of each task keep the invariant of the app.
LEMMA InitAppInv == Init => AppInv
<1> SUFFICES ASSUME Init PROVE AppInv
  OBVIOUS
<1>1. RingType
  BY ResetFacts DEF Init, RingType
<1>2. TimerType
  <2>1. /\ mic \in BOOLEAN /\ running \in BOOLEAN /\ stopReq \in BOOLEAN /\ pressed \in BOOLEAN
        /\ window \in BOOLEAN /\ undone \in BOOLEAN /\ alone \in BOOLEAN /\ noted \in BOOLEAN
    BY Zenon DEF Init
  <2>2. rec \in 0 .. MaxRecordings /\ pages \in 0 .. 2
    BY AppAssumption DEF AppAssumption, Init
  <2>3. jobs \in Seq(Recordings) /\ Len(jobs) <= QueueDepth
    BY AppAssumption, EmptySeq DEF AppAssumption, Init
  <2>4. QED  BY <2>1, <2>2, <2>3 DEF Init, TimerType
<1>3. WorkerType
  <2>1. last \in BOOLEAN
    BY Zenon DEF Init
  <2>2. buf \in Seq(Block) /\ sent \in Seq(Block) /\ Len(buf) <= HalfUnits
    BY EmptySeq DEF Init
  <2>3. job \in 0 .. MaxRecordings /\ seq \in 0 .. MaxSeq
    BY AppAssumption DEF AppAssumption, Init
  <2>4. QED  BY <2>1, <2>2, <2>3 DEF Init, WorkerType, Index
<1>4. Holds
  BY ResetFacts DEF Init, Holds
<1>5. QED  BY <1>1, <1>2, <1>3, <1>4 DEF AppInv

\* The next block of a recording under way.
LEMMA BlockFacts ==
  ASSUME AppInv, running, ring.total < MaxBlocks
  PROVE  <<rec, ring.total + 1>> \in Block
<1>1. rec \in 1 .. MaxRecordings /\ ring.total \in Nat
  BY RingParts DEF AppInv, RingType, TimerType, Holds
<1>2. ring.total + 1 \in 1 .. MaxBlocks
  BY <1>1, AppAssumption DEF AppAssumption
<1>3. QED  BY <1>1, <1>2, AppAssumption, Zenon DEF AppAssumption

\* Steps that leave the worker's variables alone.
LEMMA PressInv == ASSUME AppInv, Press PROVE AppInv'
<1>1. WorkerType'
  BY DEF Press, workerVars, AppInv, WorkerType
<1>2. tpc = "poll" /\ ~pressed /\ ~undone /\ ~running
  BY DEF Press, AppInv, Holds, FirstHold
<1>3. CASE AudioStart /\ shown' = "recording" /\ alone' = (jobs = <<>> /\ wpc = "wait")
  <2>1. ring' = ResetRing /\ running' = TRUE /\ stopReq' = FALSE /\ rec' = rec + 1 /\ mic
        /\ mic' = mic /\ rec < MaxRecordings /\ pressed' = TRUE /\ window' = TRUE
        /\ UNCHANGED <<tpc, undone, noted, pages, jobs, wpc, sent>>
    BY <1>3 DEF Press, AudioStart, workerVars
  <2>2. RingType'
    BY <2>1, ResetFacts DEF RingType
  <2>3. TimerType'
    <3>1. alone' \in BOOLEAN
      BY <1>3
    <3>2. rec' \in 0 .. MaxRecordings
      BY <2>1, AppAssumption DEF AppInv, TimerType, AppAssumption
    <3>3. QED  BY <1>3, <2>1, <3>1, <3>2 DEF AppInv, TimerType
  <2>4. Holds'
    <3>1. rec' > 0 /\ mic'
      BY <2>1, AppAssumption DEF AppInv, TimerType, AppAssumption
    <3>2. ring'.total = 0 /\ 0 < HalfUnits
      BY <2>1, ResetFacts
    <3>3. QED  BY <1>2, <2>1, <3>1, <3>2 DEF AppInv, Holds, FirstHold
  <2>5. QED  BY <1>1, <2>2, <2>3, <2>4 DEF AppInv
<1>4. CASE ~mic /\ shown' = "idle" /\ UNCHANGED <<audioVars, alone>>
  <2>1. /\ UNCHANGED <<mic, ring, running, stopReq, rec, alone>>
        /\ pressed' = TRUE /\ window' = TRUE
        /\ UNCHANGED <<tpc, undone, noted, pages, jobs, wpc, sent>>
    BY <1>4 DEF Press, audioVars, workerVars
  <2>2. RingType' /\ TimerType'
    BY <1>4, <2>1 DEF AppInv, RingType, TimerType
  <2>3. Holds'
    <3>1. ring.total \in Nat /\ ~(ring.total > 0)
      BY <1>4, RingParts DEF AppInv, Holds, RingType
    <3>2. ring.total < HalfUnits
      BY <3>1
    <3>3. QED  BY <1>2, <1>4, <2>1, <3>2 DEF AppInv, Holds, FirstHold
  <2>4. QED  BY <1>1, <2>2, <2>3 DEF AppInv
<1>5. QED  BY <1>3, <1>4 DEF Press

LEMMA OtherUserInv ==
  ASSUME AppInv, CancelPress \/ Release \/ WindowEnds \/ CancelDrain
  PROVE  AppInv'
<1>1. UNCHANGED <<mic, ring, running, rec, noted, pages, shown, alone,
                  wpc, job, from, buf, last, seq, sent>>
  BY DEF CancelPress, Release, WindowEnds, CancelDrain, audioVars, workerVars, uiVars
<1>2. RingType' /\ WorkerType'
  BY <1>1 DEF AppInv, RingType, WorkerType
<1>3. CASE CancelPress
  <2>1. TimerType'
    BY <1>1, <1>3 DEF CancelPress, audioVars, AppInv, TimerType
  <2>2. Holds'
    BY <1>1, <1>3 DEF CancelPress, AppInv, Holds, FirstHold
  <2>3. QED  BY <1>2, <2>1, <2>2 DEF AppInv
<1>4. CASE CancelDrain
  <2>1. <<>> \in Seq(Recordings) /\ Len(<<>>) <= QueueDepth
    BY AppAssumption DEF AppAssumption
  <2>2. TimerType'
    BY <1>1, <1>4, <2>1 DEF CancelDrain, audioVars, AppInv, TimerType
  <2>3. Holds'
    BY <1>1, <1>4 DEF CancelDrain, AppInv, Holds, FirstHold
  <2>4. QED  BY <1>2, <2>2, <2>3 DEF AppInv
<1>5. CASE Release
  <2>1. stopReq' \in BOOLEAN
    BY <1>5 DEF Release
  <2>2. TimerType'
    BY <1>1, <1>5, <2>1 DEF Release, AppInv, TimerType
  <2>3. Holds'
    BY <1>1, <1>5 DEF Release, AppInv, Holds, FirstHold
  <2>4. QED  BY <1>2, <2>2, <2>3 DEF AppInv
<1>6. CASE WindowEnds
  <2>1. TimerType'
    BY <1>1, <1>6 DEF WindowEnds, audioVars, AppInv, TimerType
  <2>2. Holds'
    BY <1>1, <1>6 DEF WindowEnds, AppInv, Holds, FirstHold
  <2>3. QED  BY <1>2, <2>1, <2>2 DEF AppInv
<1>7. QED  BY <1>3, <1>4, <1>5, <1>6

\* A release that is finished.
LEMMA ReleasedInv ==
  ASSUME AppInv, ReleaseTap \/ ReleaseQuiet \/ ReleaseSpeech
  PROVE  AppInv'
<1>1. /\ UNCHANGED <<pressed, window, audioVars, workerVars, pages, alone>>
      /\ Stopped
  BY DEF ReleaseTap, ReleaseQuiet, ReleaseSpeech
<1>2. RingType' /\ WorkerType'
  BY <1>1 DEF audioVars, workerVars, AppInv, RingType, WorkerType
<1>3. Holds'
  BY <1>1 DEF Stopped, audioVars, workerVars, AppInv, Holds, FirstHold
<1>4. /\ noted' \in BOOLEAN /\ shown' \in {"idle", "recording", "uploading"}
      /\ jobs' \in Seq(Recordings) /\ Len(jobs') <= QueueDepth
  <2>1. CASE ReleaseTap \/ ReleaseQuiet
    <3>1. jobs' = jobs /\ shown' \in {"idle", shown} /\ noted' \in {noted, ring.overrun}
      BY <2>1 DEF ReleaseTap, ReleaseQuiet
    <3>2. QED  BY <3>1, RingParts DEF AppInv, RingType, TimerType
  <2>2. CASE ReleaseSpeech
    <3>1. /\ noted' = ring.overrun /\ ring.total > 0
          /\ \/ Len(jobs) < QueueDepth /\ jobs' = Append(jobs, rec) /\ shown' = "uploading"
             \/ jobs' = jobs /\ shown' = "idle"
      BY <2>2 DEF ReleaseSpeech, EnqueueUpload
    <3>2. rec \in Recordings
      BY <3>1 DEF AppInv, TimerType, Holds, Recordings
    <3>3. jobs \in Seq(Recordings) /\ Len(jobs) <= QueueDepth /\ QueueDepth \in Nat
      BY AppAssumption DEF AppInv, TimerType, AppAssumption
    <3>4. noted' \in BOOLEAN
      BY <3>1, RingParts DEF AppInv, RingType
    <3>5. QED  BY <3>1, <3>2, <3>3, <3>4, AppendProperties
  <2>3. QED  BY <2>1, <2>2
<1>5. TimerType'
  BY <1>1, <1>4 DEF Stopped, audioVars, AppInv, TimerType
<1>6. QED  BY <1>2, <1>3, <1>5 DEF AppInv

LEMMA ReaderInv ==
  ASSUME AppInv, ReaderStep
  PROVE  AppInv'
<1>1. /\ UNCHANGED <<mic, stopReq, rec, timerVars, workerVars, uiVars, jobs, alone>>
      /\ running /\ running' \in {FALSE, running}
      /\ \/ ring' = ring
         \/ /\ ring.total < MaxBlocks /\ (window => ring.total + 1 < HalfUnits)
            /\ ring' = Push(ring, <<rec, ring.total + 1>>)
  BY DEF ReaderStep, Capture, ReaderEnds
<1>2. TimerType' /\ WorkerType'
  <2>1. running' \in BOOLEAN
    BY <1>1 DEF AppInv, TimerType
  <2>2. QED  BY <1>1, <2>1 DEF timerVars, uiVars, workerVars, AppInv, TimerType, WorkerType
<1>3. rec > 0 /\ mic /\ FirstHold
  BY <1>1 DEF AppInv, Holds
<1>4. RingType' /\ (window => ring'.total < HalfUnits)
  <2>1. CASE ring' = ring
    BY <2>1 DEF AppInv, RingType, Holds
  <2>2. CASE /\ ring.total < MaxBlocks /\ (window => ring.total + 1 < HalfUnits)
             /\ ring' = Push(ring, <<rec, ring.total + 1>>)
    <3>1. <<rec, ring.total + 1>> \in Block
      BY <1>1, <2>2, BlockFacts
    <3>2. PICK b \in Block : b = <<rec, ring.total + 1>>
      BY <3>1
    <3>3. Push(ring, b) \in Ring /\ Halves(Push(ring, b)) /\ Push(ring, b).total = ring.total + 1
      BY PushFacts DEF AppInv, RingType
    <3>4. QED  BY <2>2, <3>2, <3>3 DEF RingType
  <2>3. QED  BY <1>1, <2>1, <2>2
<1>5. Holds'
  BY <1>1, <1>3, <1>4 DEF timerVars, workerVars, AppInv, Holds, FirstHold
<1>6. QED  BY <1>2, <1>4, <1>5 DEF AppInv

-----------------------------------------------------------------------------
(* The worker.                                                             *)

LEMMA DequeueInv == ASSUME AppInv, Dequeue PROVE AppInv'
<1>1. /\ wpc = "wait" /\ jobs # <<>> /\ job' = Head(jobs) /\ jobs' = Tail(jobs) /\ wpc' = "seal"
      /\ UNCHANGED <<from, buf, last, seq, sent, audioVars, timerVars, uiVars, alone>>
  BY DEF Dequeue
<1>2. /\ jobs \in Seq(Recordings) /\ Len(jobs) <= QueueDepth
      /\ QueueDepth \in Nat /\ MaxRecordings \in Nat
  BY AppAssumption DEF AppAssumption, AppInv, TimerType
<1>3. /\ Head(jobs) \in Recordings /\ Tail(jobs) \in Seq(Recordings)
      /\ Len(Tail(jobs)) <= QueueDepth
  <2>1. Len(jobs) \in Nat
    BY <1>2, LenProperties
  <2>2. Head(jobs) \in Recordings /\ Tail(jobs) \in Seq(Recordings) /\ Len(Tail(jobs)) = Len(jobs) - 1
    BY <1>1, <1>2, HeadTailProperties
  <2>3. QED  BY <1>2, <2>1, <2>2
<1>4. RingType' /\ Holds'
  BY <1>1 DEF audioVars, timerVars, AppInv, RingType, Holds, FirstHold
<1>5. TimerType'
  BY <1>1, <1>3 DEF audioVars, timerVars, uiVars, AppInv, TimerType
<1>6. WorkerType'
  BY <1>1, <1>2, <1>3 DEF AppInv, WorkerType, Recordings
<1>7. QED  BY <1>4, <1>5, <1>6 DEF AppInv

LEMMA RingStepsInv == ASSUME AppInv, SealTail \/ FeedMark PROVE AppInv'
<1>1. /\ UNCHANGED <<mic, running, stopReq, rec, timerVars, uiVars, jobs, alone>>
      /\ UNCHANGED <<job, from, seq, sent>> /\ wpc # "wait"
      /\ ring' = (IF wpc = "seal" THEN Seal(ring) ELSE MarkEmpty(ring))
  BY DEF SealTail, FeedMark
<1>2. TimerType'
  BY <1>1 DEF timerVars, uiVars, AppInv, TimerType
<1>3. RingType' /\ ring'.total = ring.total
  BY <1>1, SealFacts, MarkFacts DEF AppInv, RingType
<1>4. WorkerType'
  <2>1. CASE SealTail
    BY <1>1, <2>1 DEF SealTail, AppInv, WorkerType
  <2>2. CASE FeedMark
    <3>1. /\ buf' \in Copies(buf, ring.half[from].data)
          /\ last' = ~HasFull(MarkEmpty(ring)) /\ wpc' = "post"
      BY <2>2 DEF FeedMark
    <3>2. /\ DOMAIN buf' = DOMAIN buf /\ buf' = [i \in DOMAIN buf |-> buf'[i]]
          /\ \A i \in DOMAIN buf :
                buf'[i] = buf[i] \/ (i \in DOMAIN ring.half[from].data
                                     /\ buf'[i] = ring.half[from].data[i])
      BY <3>1 DEF Copies
    <3>3. buf \in Seq(Block) /\ ring.half[from].data \in Seq(Block) /\ Len(buf) <= HalfUnits
      BY RingParts DEF AppInv, WorkerType, RingType
    <3>4. \A i \in DOMAIN buf : buf'[i] \in Block
      BY <3>2, <3>3
    <3>5. buf' \in Seq(Block) /\ Len(buf') = Len(buf)
      <4>1. DOMAIN buf = 1 .. Len(buf) /\ Len(buf) \in Nat
        BY <3>3
      <4>2. buf' \in [1 .. Len(buf) -> Block]
        BY <3>2, <3>4, <4>1
      <4>3. QED  BY <4>1, <4>2
    <3>6. last' \in BOOLEAN
      BY <3>1
    <3>7. QED  BY <1>1, <3>1, <3>3, <3>5, <3>6 DEF AppInv, WorkerType
  <2>3. QED  BY <2>1, <2>2
<1>5. wpc' # "wait"
  BY DEF SealTail, FeedMark
<1>6. Holds'
  BY <1>1, <1>3, <1>5 DEF timerVars, AppInv, Holds, FirstHold
<1>7. QED  BY <1>2, <1>3, <1>4, <1>6 DEF AppInv

LEMMA OtherWorkerInv ==
  ASSUME AppInv, StartPosted \/ FeedTake \/ ChunkPosted \/ Replied \/ UploadFailed
  PROVE  AppInv'
<1>1. UNCHANGED <<audioVars, timerVars, jobs, alone>>
  BY DEF StartPosted, FeedTake, ChunkPosted, Replied, UploadFailed, Reported
<1>2. RingType'
  BY <1>1 DEF audioVars, AppInv, RingType
<1>3. CASE StartPosted \/ FeedTake \/ ChunkPosted
  <2>1. UNCHANGED uiVars /\ wpc' # "wait"
    BY <1>3 DEF StartPosted, FeedTake, ChunkPosted
  <2>2. TimerType' /\ Holds'
    BY <1>1, <2>1 DEF audioVars, timerVars, uiVars, AppInv, TimerType, Holds, FirstHold
  <2>3. WorkerType'
    <3>1. CASE StartPosted
      BY <3>1 DEF StartPosted, AppInv, WorkerType
    <3>2. CASE FeedTake
      <4>1. ring.drain \in Index /\ TakeFull(ring) \in Seq(Block) /\ Len(TakeFull(ring)) <= HalfUnits
        BY RingParts DEF AppInv, RingType, Halves, TakeFull
      <4>2. QED  BY <3>2, <4>1 DEF FeedTake, AppInv, WorkerType
    <3>3. CASE ChunkPosted
      <4>1. sent \o buf \in Seq(Block)
        BY ConcatProperties DEF AppInv, WorkerType
      <4>2. (IF last THEN seq ELSE seq + 1) \in 0 .. MaxSeq
        BY <3>3, AppAssumption DEF ChunkPosted, AppInv, WorkerType, AppAssumption
      <4>3. (IF last THEN "finish" ELSE "take") \in {"take", "finish"}
        OBVIOUS
      <4>4. QED  BY <3>3, <4>1, <4>2, <4>3 DEF ChunkPosted, AppInv, WorkerType
    <3>4. QED  BY <1>3, <3>1, <3>2, <3>3
  <2>4. QED  BY <1>2, <2>2, <2>3 DEF AppInv
<1>4. CASE Replied \/ UploadFailed
  <2>1. pages' \in 0 .. 2
    BY <1>4 DEF Replied, UploadFailed, PageStore, ErrorsShow, AppInv, TimerType
  <2>2. /\ noted' = FALSE /\ shown' = "idle" /\ wpc' = "wait" /\ job' = 0 /\ last' = FALSE
        /\ seq' = 0 /\ from' = 0 /\ buf' = <<>> /\ sent' = <<>>
    BY <1>4 DEF Replied, UploadFailed, Reported
  <2>3. TimerType' /\ Holds'
    BY <1>1, <2>1, <2>2 DEF audioVars, timerVars, AppInv, TimerType, Holds, FirstHold
  <2>4. WorkerType'
    <3>1. buf' \in Seq(Block) /\ sent' \in Seq(Block) /\ Len(buf') = 0
      BY <2>2, EmptySeq
    <3>2. job' \in 0 .. MaxRecordings /\ seq' \in 0 .. MaxSeq
      BY <2>2, AppAssumption DEF AppAssumption
    <3>3. last' \in BOOLEAN
      BY <2>2, Zenon
    <3>4. QED  BY <2>2, <3>1, <3>2, <3>3 DEF WorkerType, Index
  <2>5. QED  BY <1>2, <2>3, <2>4 DEF AppInv
<1>5. QED  BY <1>3, <1>4

LEMMA NextAppInv == AppInv /\ [Next]_vars => AppInv'
<1> SUFFICES ASSUME AppInv, [Next]_vars PROVE AppInv'
  OBVIOUS
<1>1. CASE UserStep
  BY <1>1, PressInv, OtherUserInv DEF UserStep
<1>2. CASE TimerStep
  BY <1>2, OtherUserInv, ReleasedInv DEF TimerStep
<1>3. CASE ReaderStep
  BY <1>3, ReaderInv
<1>4. CASE WorkerStep
  BY <1>4, DequeueInv, RingStepsInv, OtherWorkerInv DEF WorkerStep
<1>5. CASE UNCHANGED vars
  BY <1>5 DEF vars, audioVars, timerVars, workerVars, uiVars, AppInv, RingType, TimerType,
              WorkerType, Holds, FirstHold
<1>6. QED  BY <1>1, <1>2, <1>3, <1>4, <1>5 DEF Next

\* The variables of the three tasks have their types in every state: the halves
\* never take more than they hold, and the queue no more than its depth.
THEOREM TypeCorrect == Spec => []TypeOK
BY InitAppInv, NextAppInv, InvType, PTL DEF Spec

-----------------------------------------------------------------------------
(* What the halves hold of a recording.                                    *)

\* The n blocks of recording r that come after block m.
Run(r, m, n) == [i \in 1 .. n |-> <<r, m + i>>]

Pair == Nat \X Nat

\* Such a run is a sequence, of the length and with the elements it says.
IsRun(s, r, k, l) ==
    /\ s \in Seq(Pair) /\ Len(s) = l
    /\ \A i \in 1 .. l : s[i] = <<r, k + i>>

\* What a run of a recording's blocks is, without the recursion.
LEMMA RunElements ==
  \A r, k, l \in Nat : IsRun(Run(r, k, l), r, k, l) /\ ((Run(r, k, l) = <<>>) <=> (l = 0))
<1> SUFFICES ASSUME NEW r \in Nat, NEW k \in Nat, NEW l \in Nat
             PROVE  IsRun(Run(r, k, l), r, k, l) /\ ((Run(r, k, l) = <<>>) <=> (l = 0))
  OBVIOUS
<1>1. \A i \in 1 .. l : <<r, k + i>> \in Pair
  BY DEF Pair
<1>2. Run(r, k, l) \in [1 .. l -> Pair]
  BY <1>1 DEF Run
<1>3. Run(r, k, l) \in Seq(Pair) /\ Len(Run(r, k, l)) = l
  BY <1>2
<1>4. \A i \in 1 .. l : Run(r, k, l)[i] = <<r, k + i>>
  BY DEF Run
<1>5. (Run(r, k, l) = <<>>) <=> (l = 0)
  BY <1>3, EmptySeq
<1>6. QED  BY <1>3, <1>4, <1>5 DEF IsRun

\* A run is continued by its next block.
LEMMA RunAppend ==
  ASSUME NEW r \in Nat, NEW m \in Nat, NEW n \in Nat
  PROVE  Append(Run(r, m, n), <<r, m + n + 1>>) = Run(r, m, n + 1)
<1> DEFINE u == Run(r, m, n)
           b == <<r, m + n + 1>>
           s == Append(u, b)
           t == Run(r, m, n + 1)
<1>1. IsRun(u, r, m, n)
  BY RunElements
<1>2. n + 1 \in Nat /\ m + (n + 1) = m + n + 1 /\ b \in Pair
  BY DEF Pair
<1>3. IsRun(t, r, m, n + 1)
  BY <1>2, RunElements
<1> HIDE DEF u, t
<1> USE DEF IsRun
<1>4. /\ s \in Seq(Pair) /\ Len(s) = n + 1
      /\ \A i \in 1 .. n : s[i] = u[i]
      /\ s[n + 1] = b
  <2> HIDE DEF b
  <2>1. QED  BY <1>1, <1>2, AppendProperties
<1>5. ASSUME NEW i \in 1 .. n + 1 PROVE s[i] = t[i]
  <2> HIDE DEF s
  <2>1. t[i] = <<r, m + i>>
    BY <1>3
  <2>2. CASE i \in 1 .. n
    BY <1>1, <1>4, <2>1, <2>2
  <2>3. CASE i = n + 1
    BY <1>2, <1>4, <2>1, <2>3
  <2>4. i \in 1 .. n \/ i = n + 1
    OBVIOUS
  <2>5. QED  BY <2>2, <2>3, <2>4
<1> HIDE DEF s
<1>6. s = t
  BY <1>3, <1>4, <1>5, SeqEqual
<1>7. QED  BY <1>6 DEF s, t, u

\* The run of the first blocks and the run of those after them.
LEMMA RunConcat ==
  ASSUME NEW r \in Nat, NEW m \in Nat, NEW n \in Nat
  PROVE  Run(r, 0, m) \o Run(r, m, n) = Run(r, 0, m + n)
<1> DEFINE u == Run(r, 0, m)
           v == Run(r, m, n)
           s == u \o v
           t == Run(r, 0, m + n)
<1>3. 0 \in Nat /\ m + n \in Nat
  OBVIOUS
<1>1. IsRun(u, r, 0, m)
  BY <1>3, RunElements
<1>2. IsRun(v, r, m, n)
  BY RunElements
<1>4. IsRun(t, r, 0, m + n)
  BY <1>3, RunElements
<1> HIDE DEF u, v, t
<1> USE DEF IsRun
<1>5. /\ s \in Seq(Pair) /\ Len(s) = m + n
      /\ \A i \in 1 .. m + n : s[i] = IF i <= m THEN u[i] ELSE v[i - m]
  BY <1>1, <1>2, ConcatProperties
<1> HIDE DEF s
<1>6. ASSUME NEW i \in 1 .. m + n PROVE s[i] = t[i]
  <2>1. t[i] = <<r, 0 + i>>
    BY <1>4
  <2>2. CASE i <= m
    BY <1>1, <1>5, <2>1, <2>2
  <2>3. CASE ~(i <= m)
    <3>1. i - m \in 1 .. n
      BY <2>3
    <3>2. v[i - m] = <<r, m + (i - m)>>
      BY <1>2, <3>1
    <3>3. m + (i - m) = 0 + i
      OBVIOUS
    <3>4. s[i] = v[i - m]
      BY <1>5, <2>3
    <3>5. QED  BY <2>1, <3>2, <3>3, <3>4
  <2>4. QED  BY <2>2, <2>3
<1>7. s = t
  BY <1>4, <1>5, <1>6, SeqEqual
<1>8. QED  BY <1>7 DEF s, t, u, v

\* How many of the first t blocks are in the first half, and in the second,
\* when none has been overwritten.
Firsts(t) == IF t <= HalfUnits THEN t ELSE HalfUnits
Seconds(t) == IF t <= HalfUnits THEN 0 ELSE t - HalfUnits

\* What the halves were given of recording c.
Part0(r, c) == Run(c, 0, Firsts(r.total))
Part1(r, c) == Run(c, HalfUnits, Seconds(r.total))

LEMMA PartFacts ==
  ASSUME NEW r \in Ring, NEW c \in Nat
  PROVE  /\ Part0(r, c) \in Seq(Pair) /\ Len(Part0(r, c)) = Firsts(r.total)
         /\ Part1(r, c) \in Seq(Pair) /\ Len(Part1(r, c)) = Seconds(r.total)
         /\ r.total < HalfUnits => Part1(r, c) = <<>>
         /\ Part1(r, c) = <<>> => Part0(r, c) = Run(c, 0, r.total)
         /\ r.total > 0 => Part0(r, c) # <<>>
         /\ Part0(r, c) \o Part1(r, c) = Run(c, 0, r.total)
<1> DEFINE t == r.total
<1>1. t \in Nat
  BY RingParts
<1> HIDE DEF t
<1>2. Firsts(t) \in Nat /\ Seconds(t) \in Nat /\ HalfUnits \in Nat /\ 0 \in Nat
  BY <1>1 DEF Firsts, Seconds
<1>3. IsRun(Run(c, 0, Firsts(t)), c, 0, Firsts(t)) /\ (Run(c, 0, Firsts(t)) = <<>> <=> Firsts(t) = 0)
  BY <1>2, RunElements
<1>4. /\ IsRun(Run(c, HalfUnits, Seconds(t)), c, HalfUnits, Seconds(t))
      /\ Run(c, HalfUnits, Seconds(t)) = <<>> <=> Seconds(t) = 0
  BY <1>2, RunElements
<1>5. t < HalfUnits => Seconds(t) = 0
  BY <1>1 DEF Seconds
<1>6. Seconds(t) = 0 => Firsts(t) = t
  BY <1>1 DEF Seconds, Firsts
<1>7. t > 0 => Firsts(t) # 0
  BY <1>1 DEF Firsts
<1>8. Run(c, 0, Firsts(t)) \o Run(c, HalfUnits, Seconds(t)) = Run(c, 0, t)
  <2>1. CASE Seconds(t) = 0
    <3>1. Run(c, HalfUnits, Seconds(t)) = <<>> /\ Firsts(t) = t
      BY <1>4, <1>6, <2>1
    <3>2. Run(c, 0, Firsts(t)) \in Seq(Pair)
      BY <1>3 DEF IsRun
    <3>3. QED  BY <3>1, <3>2, ConcatEmptySeq
  <2>2. CASE Seconds(t) # 0
    <3>1. Firsts(t) = HalfUnits /\ HalfUnits + Seconds(t) = t
      BY <1>1, <2>2 DEF Seconds, Firsts
    <3>2. Run(c, 0, HalfUnits) \o Run(c, HalfUnits, Seconds(t)) = Run(c, 0, HalfUnits + Seconds(t))
      BY <1>2, RunConcat
    <3>3. QED  BY <3>1, <3>2
  <2>3. QED  BY <2>1, <2>2
<1>9. QED  BY <1>3, <1>4, <1>5, <1>6, <1>7, <1>8 DEF IsRun, Part0, Part1, t

\* While c is recorded from a reset on, and nothing else touches the halves:
\* the blocks lie in the halves in order, and it is noted when one is lost.
Clean(r, c) ==
    /\ r.overrun <=> r.total > 2 * HalfUnits
    /\ ~r.overrun =>
        /\ r.drain = 0
        /\ r.half[0].data = Part0(r, c) /\ r.half[1].data = Part1(r, c)
        /\ r.fill = IF HalfUnits <= r.total /\ r.total < 2 * HalfUnits THEN 1 ELSE 0
        /\ r.half[0].state = "full" <=> r.total >= HalfUnits
        /\ r.half[1].state = "full" <=> r.total = 2 * HalfUnits

\* A recording begins with clean halves.
LEMMA ResetClean ==
  ASSUME NEW c \in Nat
  PROVE  Clean(ResetRing, c)
<1>1. Firsts(0) = 0 /\ Seconds(0) = 0
  BY DEF Firsts, Seconds
<1>2. 0 \in Nat /\ HalfUnits \in Nat
  OBVIOUS
<1>3. Run(c, 0, 0) = <<>> /\ Run(c, HalfUnits, 0) = <<>>
  BY <1>2, RunElements
<1>4. Part0(ResetRing, c) = <<>> /\ Part1(ResetRing, c) = <<>>
  BY <1>1, <1>3, ResetFacts DEF Part0, Part1
<1>5. 0 \in Index /\ 1 \in Index /\ "empty" # "full"
  BY DEF Index
<1>6. QED  BY <1>4, <1>5, ResetFacts DEF Clean

\* A block that is pushed stays where the next one belongs.
LEMMA PushClean ==
  ASSUME NEW r \in Ring, Halves(r), NEW c \in Nat, Clean(r, c), NEW b \in Block,
         b = <<c, r.total + 1>>
  PROVE  Clean(Push(r, b), c)
<1> DEFINE p == Push(r, b)
           t == r.total
           H == HalfUnits
           data == Append(Kept(r), b)
<1>1. t \in Nat /\ r.fill \in Index /\ r.overrun \in BOOLEAN
  BY RingParts
<1>2. /\ p \in Ring /\ p.total = t + 1
      /\ p.overrun = (r.overrun \/ r.half[r.fill].state = "full")
      /\ p.drain = IF r.half[r.fill].state = "full" THEN r.fill ELSE r.drain
      /\ p.fill = IF Len(data) >= H THEN Next2(r.fill) ELSE r.fill
      /\ p.half[r.fill].data = data
      /\ p.half[r.fill].state = IF Len(data) >= H THEN "full" ELSE "filling"
      /\ \A i \in Index : i # r.fill => p.half[i] = r.half[i]
  BY PushFacts
<1>3. Part0(p, c) = Run(c, 0, Firsts(t + 1)) /\ Part1(p, c) = Run(c, H, Seconds(t + 1))
  BY <1>2 DEF Part0, Part1
<1> HIDE DEF p, data
<1>4. CASE r.overrun
  <2>1. t > 2 * H
    BY <1>4 DEF Clean
  <2>2. p.overrun
    BY <1>2, <1>4, Zenon
  <2>3. p.total > 2 * H
    BY <1>1, <1>2, <2>1
  <2>4. QED  BY <2>2, <2>3 DEF Clean, p
<1>5. CASE ~r.overrun
  <2>1. /\ t <= 2 * H /\ r.drain = 0
        /\ r.half[0].data = Run(c, 0, Firsts(t)) /\ r.half[1].data = Run(c, H, Seconds(t))
        /\ r.fill = IF H <= t /\ t < 2 * H THEN 1 ELSE 0
        /\ r.half[0].state = "full" <=> t >= H
        /\ r.half[1].state = "full" <=> t = 2 * H
    BY <1>1, <1>5 DEF Clean, Part0, Part1
  <2>2. CASE t < H
    <3>1. r.fill = 0 /\ r.half[0].state # "full" /\ r.half[1].state # "full" /\ Firsts(t) = t
          /\ Firsts(t + 1) = t + 1 /\ Seconds(t) = 0 /\ Seconds(t + 1) = 0
      BY <1>1, <2>1, <2>2 DEF Firsts, Seconds
    <3>2. data = Run(c, 0, t + 1)
      <4>1. Kept(r) = Run(c, 0, t)
        BY <2>1, <3>1 DEF Kept
      <4>2. 0 \in Nat /\ b = <<c, 0 + t + 1>>
        BY <1>1
      <4>3. Append(Run(c, 0, t), <<c, 0 + t + 1>>) = Run(c, 0, t + 1)
        BY <1>1, <4>2, RunAppend
      <4>4. QED  BY <4>1, <4>2, <4>3 DEF data
    <3>3. Len(data) = t + 1
      <4>1. t + 1 \in Nat /\ 0 \in Nat
        BY <1>1
      <4>2. IsRun(Run(c, 0, t + 1), c, 0, t + 1)
        BY <4>1, RunElements
      <4>3. QED  BY <3>2, <4>2 DEF IsRun
    <3>4. /\ p.half[0].data = Part0(p, c)
          /\ p.half[0].state = IF t + 1 >= H THEN "full" ELSE "filling"
          /\ p.half[1] = r.half[1] /\ p.half[1].data = Part1(p, c)
          /\ p.fill = IF t + 1 >= H THEN 1 ELSE 0
          /\ ~p.overrun /\ p.drain = 0 /\ p.total = t + 1
      BY <1>2, <1>3, <1>5, <2>1, <3>1, <3>2, <3>3, Next2Facts DEF Index
    <3>5. /\ ~(t + 1 > 2 * H)
          /\ t + 1 < 2 * H
      BY <1>1, <2>2
    <3>6. QED  BY <1>1, <2>2, <3>1, <3>4, <3>5 DEF Clean, p
  <2>3. CASE H <= t /\ t < 2 * H
    <3>1. r.fill = 1 /\ r.half[0].state = "full" /\ r.half[1].state # "full" /\ Firsts(t) = H
          /\ Firsts(t + 1) = H /\ Seconds(t) = t - H /\ Seconds(t + 1) = t - H + 1
          /\ t - H \in Nat
      BY <1>1, <2>1, <2>3 DEF Firsts, Seconds
    <3>2. data = Run(c, H, t - H + 1)
      <4>1. Kept(r) = Run(c, H, t - H)
        BY <2>1, <3>1 DEF Kept
      <4>2. b = <<c, H + (t - H) + 1>>
        BY <1>1
      <4>3. Append(Run(c, H, t - H), <<c, H + (t - H) + 1>>) = Run(c, H, t - H + 1)
        BY <3>1, RunAppend
      <4>4. QED  BY <4>1, <4>2, <4>3 DEF data
    <3>3. Len(data) = t - H + 1
      <4>1. t - H + 1 \in Nat
        BY <3>1
      <4>2. IsRun(Run(c, H, t - H + 1), c, H, t - H + 1)
        BY <4>1, RunElements
      <4>3. QED  BY <3>2, <4>2 DEF IsRun
    <3>4. t - H + 1 >= H <=> t + 1 >= 2 * H
      BY <1>1
    <3>5. /\ p.half[1].data = Part1(p, c)
          /\ p.half[1].state = IF t + 1 >= 2 * H THEN "full" ELSE "filling"
      BY <1>2, <1>3, <3>1, <3>2, <3>3, <3>4
    <3>6. p.half[0] = r.half[0] /\ p.half[0].data = Part0(p, c)
      BY <1>2, <1>3, <2>1, <3>1 DEF Index
    <3>7. p.fill = IF t + 1 >= 2 * H THEN 0 ELSE 1
      BY <1>2, <3>1, <3>3, <3>4, Next2Facts
    <3>8. ~p.overrun /\ p.drain = 0 /\ p.total = t + 1
      BY <1>2, <1>5, <2>1, <3>1
    <3>9. QED  BY <1>1, <2>3, <3>1, <3>5, <3>6, <3>7, <3>8 DEF Clean, p
  <2>4. CASE t = 2 * H
    <3>1. r.fill = 0 /\ r.half[0].state = "full"
      BY <2>1, <2>4
    <3>2. p.overrun
      BY <1>2, <3>1, Zenon
    <3>3. p.total > 2 * H
      BY <1>1, <1>2, <2>4
    <3>4. QED  BY <3>2, <3>3 DEF Clean, p
  <2>5. QED  BY <1>1, <2>1, <2>2, <2>3, <2>4
<1>6. QED  BY <1>1, <1>4, <1>5

-----------------------------------------------------------------------------
\* While c is uploaded: the uploader has given back k halves.
Drained(r, c, k) ==
    /\ r.drain = IF k = 1 THEN 1 ELSE 0
    /\ r.half[0].data = IF k = 0 THEN Part0(r, c) ELSE <<>>
    /\ r.half[1].data = IF k < 2 THEN Part1(r, c) ELSE <<>>

\* Halves that hold a whole recording are halves of which none was given back;
LEMMA CleanDrained ==
  ASSUME NEW r \in Ring, NEW c \in Nat, Clean(r, c), ~r.overrun
  PROVE  Drained(r, c, 0)
BY DEF Clean, Drained

\* giving one back counts it,
LEMMA MarkDrained ==
  ASSUME NEW r \in Ring, Halves(r), NEW c \in Nat, NEW k \in {0, 1}, Drained(r, c, k)
  PROVE  Drained(MarkEmpty(r), c, k + 1)
<1> DEFINE p == MarkEmpty(r)
<1>1. /\ p.total = r.total /\ p.drain = Next2(r.drain) /\ p.half[r.drain] = EmptyHalf
      /\ \A i \in Index : i # r.drain => p.half[i] = r.half[i]
  BY MarkFacts
<1>2. Part0(p, c) = Part0(r, c) /\ Part1(p, c) = Part1(r, c)
  BY <1>1 DEF Part0, Part1
<1>3. EmptyHalf.data = <<>>
  BY DEF EmptyHalf
<1> HIDE DEF p
<1>4. CASE k = 0
  BY <1>1, <1>2, <1>3, <1>4, Next2Facts DEF Drained, Index, p
<1>5. CASE k = 1
  BY <1>1, <1>2, <1>3, <1>5, Next2Facts DEF Drained, Index, p
<1>6. QED  BY <1>4, <1>5

\* and a seal does not change what is left.
LEMMA SealDrained ==
  ASSUME NEW r \in Ring, Halves(r), NEW c \in Nat, NEW k \in 0 .. 2, Drained(r, c, k)
  PROVE  Drained(Seal(r), c, k)
<1>1. /\ Seal(r).total = r.total /\ Seal(r).drain = r.drain
      /\ Seal(r).half[0].data = r.half[0].data /\ Seal(r).half[1].data = r.half[1].data
  BY SealFacts DEF Index
<1>2. QED  BY <1>1 DEF Drained, Part0, Part1

-----------------------------------------------------------------------------
(* The upload of a recording that started with the worker at rest.         *)

\* Jobs that wait or run are for rec, and the note is that of its overrun; two
\* at once there are only after a double press, and then rec is short.
Queued ==
    /\ \A i \in DOMAIN jobs : jobs[i] = rec
    /\ wpc # "wait" => job = rec
    /\ wpc # "wait" \/ jobs # <<>> => (noted <=> ring.overrun)
    /\ Len(jobs) > 1 \/ (wpc # "wait" /\ jobs # <<>>) => ring.total < HalfUnits

\* Once sealed, no half is being filled; the half copied is the one given back.
Sealed ==
    /\ wpc \notin {"wait", "seal"} => \A i \in Index : ring.half[i].state # "filling"
    /\ wpc = "mark" => /\ from = ring.drain /\ buf = ring.half[ring.drain].data
                       /\ HasFull(ring)

\* A second upload of the same recording, after a double press, finds nothing.
First(k) == k = 0 \/ ring.total < HalfUnits

\* Where the upload is when k halves have been given back.
At(k) ==
    LET part0 == Part0(ring, rec)
        part1 == Part1(ring, rec)
        between == sent = part0 /\ k = 1 /\ part1 # <<>>
    IN  /\ Drained(ring, rec, k)
        /\ k = 2 => part1 # <<>>
        /\ jobs # <<>> \/ wpc \in {"seal", "start"} => First(k)
        /\ wpc \in {"seal", "start"} => sent = <<>>
        /\ wpc = "take" => (sent = <<>> /\ First(k)) \/ between
        /\ wpc = "mark" => (sent = <<>> /\ k = 0) \/ between
        /\ wpc = "post" => \/ sent = <<>> /\ k = 1 /\ buf = part0 /\ (last <=> part1 = <<>>)
                           \/ sent = part0 /\ k = 2 /\ buf = part1 /\ last
        /\ wpc = "finish" => sent = part0 \o part1

\* What is sent and what the halves still hold fits in the two halves.
Fits ==
    Len(sent) + (IF wpc = "post" THEN Len(buf) ELSE 0)
      + Len(ring.half[0].data) + Len(ring.half[1].data) <= 2 * HalfUnits

Progress == IF ring.overrun THEN Fits ELSE \E k \in 0 .. 2 : At(k)

Uploaded ==
    /\ ring.overrun <=> ring.total > 2 * HalfUnits
    /\ Queued /\ Sealed /\ Progress

\* rec is recorded, and nothing else happens; then it is released and uploaded.
Recorded == jobs = <<>> /\ wpc = "wait" /\ Clean(ring, rec)
AloneInv == alone => mic /\ (IF FirstHold THEN Recorded ELSE Uploaded)

\* Short of a half there is no overrun.
LEMMA ShortFacts ==
  ASSUME AppInv, Uploaded, ring.total < HalfUnits
  PROVE  ~ring.overrun
<1>1. ring.total \in Nat
  BY RingParts DEF AppInv, RingType
<1>2. ~(ring.total > 2 * HalfUnits)
  BY <1>1
<1>3. QED  BY <1>2 DEF Uploaded

\* The steps of the three tasks while a recording made at rest is at work.
LEMMA PressAlone == ASSUME AppInv, AloneInv, Press PROVE AloneInv'
<1>1. tpc = "poll" /\ ~pressed /\ ~undone /\ pressed' = TRUE
      /\ UNCHANGED <<tpc, undone, jobs, wpc>>
  BY DEF Press, workerVars, AppInv, Holds
<1>2. FirstHold'
  BY <1>1 DEF FirstHold
<1>3. CASE AudioStart /\ alone' = (jobs = <<>> /\ wpc = "wait")
  <2>1. mic' = mic /\ mic /\ ring' = ResetRing /\ rec' = rec + 1
    BY <1>3 DEF AudioStart
  <2>2. rec + 1 \in Nat
    BY AppAssumption DEF AppAssumption, AppInv, TimerType
  <2>3. Clean(ring', rec')
    BY <2>1, <2>2, ResetClean
  <2>4. alone' => Recorded'
    BY <1>1, <1>3, <2>3 DEF Recorded
  <2>5. QED  BY <1>2, <2>1, <2>4 DEF AloneInv
<1>4. CASE ~mic /\ UNCHANGED <<audioVars, alone>>
  BY <1>4 DEF AloneInv
<1>5. QED  BY <1>3, <1>4 DEF Press

\* The steps that change neither the halves nor the worker.
LEMMA OtherUserAlone ==
  ASSUME AppInv, AloneInv, CancelPress \/ Release \/ WindowEnds \/ CancelDrain
  PROVE  AloneInv'
<1>1. UNCHANGED <<mic, ring, rec, alone, noted, wpc, job, from, buf, last, seq, sent>>
  BY DEF CancelPress, Release, WindowEnds, CancelDrain, audioVars, workerVars, uiVars
<1>2. CASE CancelPress \/ Release \/ WindowEnds
  <2>1. jobs' = jobs /\ undone' = undone
    BY <1>2 DEF CancelPress, Release, WindowEnds
  <2>2. FirstHold' <=> FirstHold
    BY <1>2, <2>1 DEF FirstHold, CancelPress, Release, WindowEnds
  <2>3. Recorded' <=> Recorded
    BY <1>1, <2>1 DEF Recorded
  <2>4. Uploaded => Uploaded'
    BY <1>1, <2>1 DEF Uploaded, Queued, Sealed, Progress, Fits, At, First
  <2>5. QED  BY <1>1, <2>2, <2>3, <2>4 DEF AloneInv
<1>3. CASE CancelDrain
  <2>1. jobs' = <<>> /\ ~FirstHold /\ ~FirstHold'
    BY <1>3 DEF CancelDrain, FirstHold
  <2>2. ASSUME Uploaded PROVE Uploaded'
    <3>1. Queued'
      <4>1. DOMAIN jobs' = {} /\ Len(jobs') = 0
        BY <2>1
      <4>2. QED  BY <1>1, <2>1, <2>2, <4>1 DEF Uploaded, Queued
    <3>2. Sealed' /\ Progress'
      BY <1>1, <2>1, <2>2 DEF Uploaded, Sealed, Progress, Fits, At, First
    <3>3. QED  BY <1>1, <2>2, <3>1, <3>2 DEF Uploaded
  <2>3. QED  BY <1>1, <2>1, <2>2 DEF AloneInv
<1>4. QED  BY <1>2, <1>3

\* The release of rec queues its one job; a release after a double press may
\* queue another, of what is shorter than a half.
LEMMA ReleasedAlone ==
  ASSUME AppInv, AloneInv, ReleaseTap \/ ReleaseQuiet \/ ReleaseSpeech
  PROVE  AloneInv'
<1>1. /\ UNCHANGED <<mic, ring, rec, alone, wpc, job, from, buf, last, seq, sent, pressed>>
      /\ tpc = "stop" /\ tpc' = "poll" /\ undone' = FALSE
  BY DEF ReleaseTap, ReleaseQuiet, ReleaseSpeech, Stopped, audioVars, workerVars
<1>2. ~pressed /\ ~FirstHold' /\ (FirstHold \/ undone)
  BY <1>1 DEF AppInv, Holds, FirstHold
<1>3. \/ jobs' = jobs /\ noted' = noted
      \/ jobs' = jobs /\ noted' = ring.overrun
      \/ jobs' = Append(jobs, rec) /\ noted' = ring.overrun
  BY DEF ReleaseTap, ReleaseQuiet, ReleaseSpeech, EnqueueUpload
<1>4. /\ ring \in Ring /\ Halves(ring) /\ ring.total \in Nat
      /\ jobs \in Seq(Recordings) /\ rec \in 0 .. MaxRecordings
  BY RingParts DEF AppInv, RingType, TimerType
<1>5. ASSUME alone, FirstHold PROVE Uploaded'
  <2>1. jobs = <<>> /\ wpc = "wait" /\ wpc' = "wait" /\ Clean(ring, rec) /\ sent' = <<>>
    BY <1>1, <1>5 DEF AloneInv, Recorded, AppInv, Holds
  <2>2. /\ \A i \in DOMAIN jobs' : jobs'[i] = rec
        /\ Len(jobs') <= 1 /\ Len(jobs') \in Nat
        /\ jobs' # <<>> => noted' = ring.overrun
    <3>1. CASE jobs' = jobs
      <4>1. DOMAIN jobs' = {} /\ Len(jobs') = 0
        BY <2>1, <3>1
      <4>2. QED  BY <2>1, <3>1, <4>1
    <3>2. CASE jobs' = Append(jobs, rec) /\ noted' = ring.overrun
      <4>1. jobs' = <<rec>>
        BY <2>1, <3>2
      <4>2. Len(jobs') = 1 /\ DOMAIN jobs' = {1} /\ jobs'[1] = rec
        BY <4>1
      <4>3. QED  BY <3>2, <4>2
    <3>3. QED  BY <1>3, <3>1, <3>2
  <2>3. Queued'
    BY <1>1, <2>1, <2>2 DEF Queued
  <2>4. Sealed'
    BY <2>1 DEF Sealed
  <2>5. Progress'
    <3>1. CASE ring.overrun
      <4>1. /\ Len(ring.half[0].data) \in Nat /\ Len(ring.half[0].data) <= HalfUnits
            /\ Len(ring.half[1].data) \in Nat /\ Len(ring.half[1].data) <= HalfUnits
        BY <1>4, RingParts DEF Halves, Index
      <4>2. Len(sent') = 0 /\ wpc' # "post"
        BY <2>1
      <4>3. Len(sent') + (IF wpc' = "post" THEN Len(buf') ELSE 0) = 0
        BY <4>2
      <4>4. \A a, b \in Nat : a <= HalfUnits /\ b <= HalfUnits => 0 + a + b <= 2 * HalfUnits
        OBVIOUS
      <4>5. 0 + Len(ring.half[0].data) + Len(ring.half[1].data) <= 2 * HalfUnits
        BY <4>1, <4>4, Zenon
      <4>6. Fits'
        BY <1>1, <4>3, <4>5, Zenon DEF Fits
      <4>7. QED  BY <1>1, <3>1, <4>6 DEF Progress
    <3>2. CASE ~ring.overrun
      <4>1. rec \in Nat
        BY <1>4, AppAssumption DEF AppAssumption
      <4>2. Drained(ring, rec, 0)
        BY <1>4, <2>1, <3>2, <4>1, CleanDrained
      <4>3. At(0)'
        BY <1>1, <2>1, <4>2 DEF At, First
      <4>4. 0 \in 0 .. 2
        OBVIOUS
      <4>5. QED  BY <1>1, <3>2, <4>3, <4>4 DEF Progress
    <3>3. QED  BY <3>1, <3>2
  <2>6. QED  BY <1>1, <2>1, <2>3, <2>4, <2>5 DEF Clean, Uploaded
<1>6. ASSUME alone, ~FirstHold PROVE Uploaded'
  <2>1. Uploaded /\ ring.total < HalfUnits
    BY <1>2, <1>6 DEF AloneInv, AppInv, Holds
  <2>2. ~ring.overrun
    BY <2>1, ShortFacts
  <2>3. \A i \in DOMAIN jobs' : jobs'[i] = rec
    <3>1. CASE jobs' = jobs
      BY <2>1, <3>1 DEF Uploaded, Queued
    <3>2. CASE jobs' = Append(jobs, rec)
      <4>1. /\ DOMAIN jobs' = 1 .. Len(jobs) + 1 /\ DOMAIN jobs = 1 .. Len(jobs)
            /\ Len(jobs) \in Nat
            /\ \A i \in 1 .. Len(jobs) : jobs'[i] = jobs[i]
            /\ jobs'[Len(jobs) + 1] = rec
        BY <1>4, <3>2
      <4>2. \A i \in DOMAIN jobs' : i \in DOMAIN jobs \/ i = Len(jobs) + 1
        BY <4>1
      <4>3. \A i \in DOMAIN jobs : jobs[i] = rec
        BY <2>1 DEF Uploaded, Queued
      <4>4. QED  BY <4>1, <4>2, <4>3
    <3>3. QED  BY <1>3, <3>1, <3>2
  <2>4. Queued'
    BY <1>1, <1>3, <2>1, <2>2, <2>3 DEF Uploaded, Queued
  <2>5. Sealed'
    BY <1>1, <2>1 DEF Uploaded, Sealed
  <2>6. Progress'
    <3>1. PICK k \in 0 .. 2 : At(k)
      BY <2>1, <2>2 DEF Uploaded, Progress
    <3>2. At(k)'
      BY <1>1, <2>1, <3>1 DEF At, First
    <3>3. QED  BY <1>1, <2>2, <3>2 DEF Progress
  <2>7. QED  BY <1>1, <2>1, <2>4, <2>5, <2>6 DEF Uploaded
<1>7. QED  BY <1>1, <1>2, <1>5, <1>6 DEF AloneInv

LEMMA ReaderAlone == ASSUME AppInv, AloneInv, ReaderStep PROVE AloneInv'
<1>1. /\ UNCHANGED <<mic, rec, pressed, tpc, undone, wpc, jobs, alone>> /\ running
      /\ \/ ring' = ring
         \/ ring.total < MaxBlocks /\ ring' = Push(ring, <<rec, ring.total + 1>>)
  BY DEF ReaderStep, Capture, ReaderEnds, timerVars, workerVars
<1>2. FirstHold /\ FirstHold'
  BY <1>1 DEF AppInv, Holds, FirstHold
<1>3. ASSUME Recorded PROVE Recorded'
  <2>1. CASE ring' = ring
    BY <1>1, <1>3, <2>1 DEF Recorded
  <2>2. CASE ring.total < MaxBlocks /\ ring' = Push(ring, <<rec, ring.total + 1>>)
    <3>1. PICK b \in Block : b = <<rec, ring.total + 1>>
      BY <1>1, <2>2, BlockFacts
    <3>2. PICK c \in Nat : c = rec
      BY AppAssumption DEF AppAssumption, AppInv, TimerType
    <3>3. Clean(Push(ring, b), c)
      BY <1>3, <3>1, <3>2, PushClean DEF Recorded, AppInv, RingType
    <3>4. QED  BY <1>1, <1>3, <2>2, <3>1, <3>2, <3>3 DEF Recorded
  <2>3. QED  BY <1>1, <2>1, <2>2
<1>4. QED  BY <1>1, <1>2, <1>3 DEF AloneInv

-----------------------------------------------------------------------------
(* The steps of the worker during the upload.                              *)

\* A half is full exactly when it holds something, once it was sealed.
LEMMA FullFacts ==
  ASSUME NEW r \in Ring, Halves(r), NEW i \in Index, r.half[i].state # "filling"
  PROVE  r.half[i].state = "full" <=> r.half[i].data # <<>>
<1>1. r.half[i].state \in HalfState
  BY RingParts
<1>2. QED  BY <1>1 DEF Halves, HalfState

\* Each step of the worker keeps the account of what was sent and what is left.
LEMMA DequeueUploaded == ASSUME AppInv, Uploaded, Dequeue PROVE Uploaded'
<1>1. /\ wpc = "wait" /\ jobs # <<>> /\ job' = Head(jobs) /\ jobs' = Tail(jobs) /\ wpc' = "seal"
      /\ UNCHANGED <<ring, rec, noted, from, buf, last, seq, sent>> /\ sent = <<>>
  BY DEF Dequeue, audioVars, uiVars, AppInv, Holds
<1>2. jobs \in Seq(Recordings) /\ Len(jobs) \in Nat
  BY DEF AppInv, TimerType
<1>3. /\ Len(jobs) > 0 /\ Len(Tail(jobs)) = Len(jobs) - 1 /\ Head(jobs) = jobs[1]
      /\ \A i \in 1 .. Len(jobs) - 1 : Tail(jobs)[i] = jobs[i + 1]
      /\ Tail(jobs) \in Seq(Recordings)
  BY <1>1, <1>2
<1>4. \A i \in 1 .. Len(jobs) : jobs[i] = rec
  BY <1>2 DEF Uploaded, Queued
<1>5. job' = rec /\ \A i \in DOMAIN jobs' : jobs'[i] = rec
  <2>1. 1 \in 1 .. Len(jobs) /\ \A i \in 1 .. Len(jobs) - 1 : i + 1 \in 1 .. Len(jobs)
    BY <1>2, <1>3
  <2>2. DOMAIN jobs' = 1 .. Len(jobs) - 1
    BY <1>1, <1>3
  <2>3. QED  BY <1>1, <1>3, <1>4, <2>1, <2>2
<1>6. jobs' # <<>> \/ Len(jobs') > 1 => Len(jobs) > 1
  <2>1. jobs' # <<>> => Len(jobs') > 0
    BY <1>1, <1>3
  <2>2. QED  BY <1>1, <1>2, <1>3, <2>1
<1>7. Queued'
  BY <1>1, <1>5, <1>6 DEF Uploaded, Queued
<1>8. Sealed'
  BY <1>1 DEF Sealed
<1>9. Progress'
  <2>1. CASE ring.overrun
    BY <1>1, <2>1 DEF Uploaded, Progress, Fits
  <2>2. CASE ~ring.overrun
    <3>1. PICK k \in 0 .. 2 : At(k)
      BY <2>2 DEF Uploaded, Progress
    <3>2. At(k)'
      BY <1>1, <3>1 DEF At, First
    <3>3. QED  BY <1>1, <2>2, <3>2 DEF Progress
  <2>3. QED  BY <2>1, <2>2
<1>10. QED  BY <1>1, <1>7, <1>8, <1>9 DEF Uploaded

LEMMA SealUploaded == ASSUME AppInv, Uploaded, SealTail PROVE Uploaded'
<1>1. /\ wpc = "seal" /\ wpc' = "start" /\ ring' = Seal(ring)
      /\ UNCHANGED <<job, from, buf, last, seq, sent, rec, noted, jobs>>
  BY DEF SealTail, uiVars
<1>2. ring \in Ring /\ Halves(ring) /\ rec \in Nat
  BY AppAssumption DEF AppAssumption, AppInv, RingType, TimerType
<1>3. /\ ring'.total = ring.total /\ ring'.overrun = ring.overrun
      /\ \A i \in Index : ring'.half[i].data = ring.half[i].data /\ ring'.half[i].state # "filling"
  BY <1>1, <1>2, SealFacts
<1>4. Queued'
  BY <1>1, <1>3 DEF Uploaded, Queued
<1>5. Sealed'
  BY <1>1, <1>3 DEF Sealed
<1>6. Progress'
  <2>1. CASE ring.overrun
    BY <1>1, <1>3, <2>1 DEF Uploaded, Progress, Fits, Index
  <2>2. CASE ~ring.overrun
    <3>1. PICK k \in 0 .. 2 : At(k)
      BY <2>2 DEF Uploaded, Progress
    <3>2. Drained(ring', rec', k)
      <4>1. Drained(Seal(ring), rec, k)
        BY <1>2, <3>1, SealDrained DEF At
      <4>2. QED  BY <1>1, <4>1
    <3>3. Part0(ring', rec') = Part0(ring, rec) /\ Part1(ring', rec') = Part1(ring, rec)
      BY <1>1, <1>3 DEF Part0, Part1
    <3>4. At(k)'
      BY <1>1, <1>3, <3>1, <3>2, <3>3 DEF At, First
    <3>5. QED  BY <1>3, <2>2, <3>4 DEF Progress
  <2>3. QED  BY <2>1, <2>2
<1>7. QED  BY <1>3, <1>4, <1>5, <1>6 DEF Uploaded

LEMMA StartUploaded == ASSUME AppInv, Uploaded, StartPosted PROVE Uploaded'
<1>1. /\ wpc = "start" /\ wpc' = "take"
      /\ UNCHANGED <<ring, rec, noted, jobs, job, from, buf, last, seq, sent>>
  BY DEF StartPosted, audioVars, uiVars
<1>2. Queued' /\ Sealed'
  BY <1>1 DEF Uploaded, Queued, Sealed
<1>3. Progress'
  <2>1. CASE ring.overrun
    BY <1>1, <2>1 DEF Uploaded, Progress, Fits
  <2>2. CASE ~ring.overrun
    <3>1. PICK k \in 0 .. 2 : At(k)
      BY <2>2 DEF Uploaded, Progress
    <3>2. At(k)'
      BY <1>1, <3>1 DEF At, First
    <3>3. QED  BY <1>1, <2>2, <3>2 DEF Progress
  <2>3. QED  BY <2>1, <2>2
<1>4. QED  BY <1>1, <1>2, <1>3 DEF Uploaded

LEMMA TakeUploaded == ASSUME AppInv, Uploaded, FeedTake PROVE Uploaded'
<1>1. /\ wpc = "take" /\ wpc' = "mark" /\ HasFull(ring)
      /\ from' = ring.drain /\ buf' = ring.half[ring.drain].data
      /\ UNCHANGED <<ring, rec, noted, jobs, job, last, seq, sent>>
  BY DEF FeedTake, TakeFull, audioVars, uiVars
<1>2. Queued' /\ Sealed'
  BY <1>1 DEF Uploaded, Queued, Sealed, HasFull
<1>3. Progress'
  <2>1. CASE ring.overrun
    BY <1>1, <2>1 DEF Uploaded, Progress, Fits
  <2>2. CASE ~ring.overrun
    <3>1. PICK k \in 0 .. 2 : At(k)
      BY <2>2 DEF Uploaded, Progress
    <3>2. ring \in Ring /\ Halves(ring) /\ rec \in Nat /\ ring.drain \in Index
      BY AppAssumption, RingParts DEF AppAssumption, AppInv, RingType, TimerType
    <3>3. ring.half[ring.drain].data # <<>>
      BY <1>1, <3>2 DEF HasFull, Halves
    <3>4. sent = <<>> => k = 0
      <4>1. SUFFICES ASSUME sent = <<>>, k # 0 PROVE FALSE
        OBVIOUS
      <4>2. CASE First(k)
        <5>1. Part1(ring, rec) = <<>>
          BY <3>2, <4>1, <4>2, PartFacts DEF First
        <5>2. k = 1
          BY <3>1, <4>1, <5>1 DEF At
        <5>3. QED  BY <3>1, <3>3, <5>1, <5>2 DEF At, Drained
      <4>3. CASE sent = Part0(ring, rec) /\ k = 1 /\ Part1(ring, rec) # <<>>
        <5>1. ring.total \in Nat /\ (ring.total > 0 \/ ring.total = 0)
          BY <3>2, RingParts
        <5>2. ring.total = 0
          BY <3>2, <4>1, <4>3, <5>1, PartFacts
        <5>3. QED  BY <3>2, <4>3, <5>2, PartFacts
      <4>4. QED  BY <1>1, <3>1, <4>2, <4>3 DEF At
    <3>5. At(k)'
      BY <1>1, <3>1, <3>4 DEF At, First
    <3>6. QED  BY <1>1, <2>2, <3>5 DEF Progress
  <2>3. QED  BY <2>1, <2>2
<1>4. QED  BY <1>1, <1>2, <1>3 DEF Uploaded

\* The half that is given back is the one that was copied, and nothing came
\* into it in between.
LEMMA MarkUploaded == ASSUME AppInv, Uploaded, FeedMark PROVE Uploaded'
<1>1. /\ wpc = "mark" /\ wpc' = "post" /\ ring' = MarkEmpty(ring)
      /\ buf' \in Copies(buf, ring.half[from].data) /\ last' = ~HasFull(MarkEmpty(ring))
      /\ UNCHANGED <<rec, noted, jobs, job, from, seq, sent>>
  BY DEF FeedMark, uiVars
<1>2. /\ ring \in Ring /\ Halves(ring) /\ rec \in Nat /\ ring.drain \in Index
      /\ buf \in Seq(Block) /\ sent \in Seq(Block) /\ ring.total \in Nat
      /\ \A i \in Index : ring.half[i].data \in Seq(Block)
  BY AppAssumption, RingParts DEF AppAssumption, AppInv, RingType, TimerType, WorkerType
<1>3. /\ from = ring.drain /\ buf = ring.half[ring.drain].data /\ HasFull(ring)
      /\ \A i \in Index : ring.half[i].state # "filling"
  BY <1>1 DEF Uploaded, Sealed
<1>4. buf' = buf
  <2>1. DOMAIN buf' = DOMAIN buf /\ buf' = [i \in DOMAIN buf |-> buf'[i]]
        /\ \A i \in DOMAIN buf : buf'[i] = buf[i]
    BY <1>1, <1>3 DEF Copies
  <2>2. buf = [i \in DOMAIN buf |-> buf[i]]
    BY <1>2
  <2>3. QED  BY <2>1, <2>2
<1>5. /\ ring' \in Ring /\ Halves(ring') /\ ring'.total = ring.total
      /\ ring'.overrun = ring.overrun /\ ring'.drain = Next2(ring.drain)
      /\ ring'.half[ring.drain] = EmptyHalf
      /\ \A i \in Index : i # ring.drain => ring'.half[i] = ring.half[i]
  BY <1>1, <1>2, MarkFacts
<1>6. \A i \in Index : ring'.half[i].state # "filling"
  BY <1>3, <1>5 DEF EmptyHalf
<1>7. Queued'
  BY <1>1, <1>5 DEF Uploaded, Queued
<1>8. Sealed'
  BY <1>1, <1>6 DEF Sealed
<1>9. Progress'
  <2>1. CASE ring.overrun
    <3>1. /\ Len(sent) + 0 + Len(ring.half[0].data) + Len(ring.half[1].data) <= 2 * HalfUnits
      BY <1>1, <2>1 DEF Uploaded, Progress, Fits
    <3>2. /\ Len(ring.half[0].data) \in Nat /\ Len(ring.half[1].data) \in Nat /\ Len(sent) \in Nat
      BY <1>2 DEF Index
    <3>3. EmptyHalf.data = <<>> /\ Len(<<>>) = 0
      BY DEF EmptyHalf
    <3>4. \/ /\ Len(buf) = Len(ring.half[0].data) /\ Len(ring'.half[0].data) = 0
             /\ Len(ring'.half[1].data) = Len(ring.half[1].data)
          \/ /\ Len(buf) = Len(ring.half[1].data) /\ Len(ring'.half[1].data) = 0
             /\ Len(ring'.half[0].data) = Len(ring.half[0].data)
      <4>1. CASE ring.drain = 0
        BY <1>3, <1>5, <3>3, <4>1 DEF Index
      <4>2. CASE ring.drain = 1
        BY <1>3, <1>5, <3>3, <4>2 DEF Index
      <4>3. QED  BY <1>2, <4>1, <4>2 DEF Index
    <3>5. Len(sent) + Len(buf) + Len(ring'.half[0].data) + Len(ring'.half[1].data) <= 2 * HalfUnits
      <4>1. \A s, a, b \in Nat : s + 0 + a + b <= 2 * HalfUnits
                                 => s + a + 0 + b <= 2 * HalfUnits /\ s + b + a + 0 <= 2 * HalfUnits
        OBVIOUS
      <4>2. /\ Len(sent) + Len(ring.half[0].data) + 0 + Len(ring.half[1].data) <= 2 * HalfUnits
            /\ Len(sent) + Len(ring.half[1].data) + Len(ring.half[0].data) + 0 <= 2 * HalfUnits
        BY <3>1, <3>2, <4>1, Zenon
      <4>3. QED  BY <3>4, <4>2, Zenon
    <3>6. Fits'
      BY <1>1, <1>4, <3>5 DEF Fits
    <3>7. QED  BY <1>5, <2>1, <3>6 DEF Progress
  <2>2. CASE ~ring.overrun
    <3>1. PICK k \in 0 .. 2 : At(k)
      BY <2>2 DEF Uploaded, Progress
    <3>2. k \in {0, 1}
      BY <1>1, <3>1 DEF At
    <3>3. Drained(ring', rec', k + 1)
      <4>1. Drained(MarkEmpty(ring), rec, k + 1)
        BY <1>2, <3>1, <3>2, MarkDrained DEF At
      <4>2. QED  BY <1>1, <4>1
    <3>4. Part0(ring', rec') = Part0(ring, rec) /\ Part1(ring', rec') = Part1(ring, rec)
      BY <1>1, <1>5 DEF Part0, Part1
    <3>5. HasFull(ring') <=> ring'.half[ring'.drain].data # <<>>
      <4>1. ring'.drain \in Index
        BY <1>5, RingParts
      <4>2. PICK p \in Ring : p = MarkEmpty(ring)
        BY <1>1, <1>5
      <4>3. Halves(p) /\ p.drain \in Index /\ p.half[p.drain].state # "filling"
        BY <1>1, <1>5, <1>6, <4>1, <4>2
      <4>4. p.half[p.drain].state = "full" <=> p.half[p.drain].data # <<>>
        BY <4>3, FullFacts
      <4>5. QED  BY <1>1, <4>2, <4>4 DEF HasFull
    <3>6. last' <=> ring'.half[ring'.drain].data = <<>>
      BY <1>1, <3>5
    <3>7. jobs # <<>> => ring.total < HalfUnits
      BY <1>1 DEF Uploaded, Queued
    <3>8. k = 0 => sent = <<>> /\ buf = Part0(ring, rec)
      BY <1>1, <1>3, <3>1 DEF At, Drained
    <3>9. k = 1 => sent = Part0(ring, rec) /\ buf = Part1(ring, rec) /\ Part1(ring, rec) # <<>>
      BY <1>1, <1>3, <3>1 DEF At, Drained
    <3>10. CASE k = 0
      <4>1. Drained(ring', rec', 1)
        BY <3>3, <3>10
      <4>2. last' <=> Part1(ring', rec') = <<>>
        BY <3>6, <4>1 DEF Drained
      <4>3. At(1)'
        BY <1>1, <1>4, <1>5, <3>4, <3>7, <3>8, <3>10, <4>1, <4>2 DEF At, First
      <4>4. 1 \in 0 .. 2
        OBVIOUS
      <4>5. QED  BY <1>5, <2>2, <4>3, <4>4 DEF Progress
    <3>11. CASE k = 1
      <4>1. Drained(ring', rec', 2)
        BY <3>3, <3>11
      <4>2. last'
        BY <3>6, <4>1 DEF Drained
      <4>3. At(2)'
        BY <1>1, <1>4, <1>5, <3>4, <3>7, <3>9, <3>11, <4>1, <4>2 DEF At, First
      <4>4. 2 \in 0 .. 2
        OBVIOUS
      <4>5. QED  BY <1>5, <2>2, <4>3, <4>4 DEF Progress
    <3>12. QED  BY <3>2, <3>10, <3>11
  <2>3. QED  BY <2>1, <2>2
<1>10. QED  BY <1>1, <1>5, <1>7, <1>8, <1>9 DEF Uploaded

LEMMA PostedUploaded == ASSUME AppInv, Uploaded, ChunkPosted PROVE Uploaded'
<1>1. /\ wpc = "post" /\ sent' = sent \o buf /\ wpc' = IF last THEN "finish" ELSE "take"
      /\ UNCHANGED <<ring, rec, noted, jobs, job, from, buf, last>>
  BY DEF ChunkPosted, audioVars, uiVars
<1>2. /\ ring \in Ring /\ rec \in Nat /\ buf \in Seq(Block) /\ sent \in Seq(Block)
      /\ \A i \in Index : ring.half[i].data \in Seq(Block)
  BY AppAssumption, RingParts DEF AppAssumption, AppInv, RingType, TimerType, WorkerType
<1>3. Queued' /\ Sealed'
  BY <1>1 DEF Uploaded, Queued, Sealed
<1>4. Progress'
  <2>1. CASE ring.overrun
    <3>1. Len(sent) + Len(buf) + Len(ring.half[0].data) + Len(ring.half[1].data) <= 2 * HalfUnits
      BY <1>1, <2>1 DEF Uploaded, Progress, Fits
    <3>2. Len(sent') = Len(sent) + Len(buf)
      BY <1>1, <1>2, ConcatProperties
    <3>3. Len(sent') + 0 = Len(sent) + Len(buf)
      BY <1>2, <3>2
    <3>4. wpc' # "post"
      BY <1>1
    <3>5. Fits'
      BY <1>1, <3>1, <3>3, <3>4 DEF Fits
    <3>6. QED  BY <1>1, <2>1, <3>5 DEF Progress
  <2>2. CASE ~ring.overrun
    <3>1. PICK k \in 0 .. 2 : At(k)
      BY <2>2 DEF Uploaded, Progress
    <3>2. Part0(ring, rec) \in Seq(Pair) /\ Part1(ring, rec) \in Seq(Pair)
      BY <1>2, PartFacts
    <3>3. CASE sent = <<>> /\ k = 1 /\ buf = Part0(ring, rec) /\ (last <=> Part1(ring, rec) = <<>>)
      <4>1. sent' = Part0(ring, rec)
        BY <1>1, <3>2, <3>3, ConcatEmptySeq
      <4>2. last => Part0(ring, rec) \o Part1(ring, rec) = Part0(ring, rec)
        BY <3>2, <3>3, ConcatEmptySeq
      <4>3. At(k)'
        BY <1>1, <3>1, <3>3, <4>1, <4>2 DEF At, First
      <4>4. QED  BY <1>1, <2>2, <4>3 DEF Progress
    <3>4. CASE sent = Part0(ring, rec) /\ k = 2 /\ buf = Part1(ring, rec) /\ last
      <4>1. At(k)'
        BY <1>1, <3>1, <3>4 DEF At, First
      <4>2. QED  BY <1>1, <2>2, <4>1 DEF Progress
    <3>5. QED  BY <1>1, <3>1, <3>3, <3>4 DEF At
  <2>3. QED  BY <2>1, <2>2
<1>5. QED  BY <1>1, <1>3, <1>4 DEF Uploaded

LEMMA ReportedUploaded == ASSUME AppInv, Uploaded, Replied \/ UploadFailed PROVE Uploaded'
<1>1. /\ wpc # "wait" /\ wpc' = "wait" /\ noted' = FALSE /\ sent' = <<>>
      /\ UNCHANGED <<ring, rec, jobs>>
  BY DEF Replied, UploadFailed, Reported, audioVars
<1>2. jobs # <<>> => ring.total < HalfUnits /\ ~ring.overrun
  BY <1>1, ShortFacts DEF Uploaded, Queued
<1>3. Queued' /\ Sealed'
  BY <1>1, <1>2 DEF Uploaded, Queued, Sealed
<1>4. Progress'
  <2>1. CASE ring.overrun
    <3>1. /\ ring \in Ring /\ buf \in Seq(Block) /\ sent \in Seq(Block)
          /\ \A i \in Index : ring.half[i].data \in Seq(Block)
      BY RingParts DEF AppInv, RingType, WorkerType
    <3>2. Fits
      BY <2>1 DEF Uploaded, Progress
    <3> DEFINE posted == IF wpc = "post" THEN Len(buf) ELSE 0
    <3>3. /\ Len(sent) \in Nat /\ posted \in Nat /\ Len(ring.half[0].data) \in Nat
          /\ Len(ring.half[1].data) \in Nat
      BY <3>1 DEF Index
    <3>4. Len(sent) + posted + Len(ring.half[0].data) + Len(ring.half[1].data) <= 2 * HalfUnits
      BY <3>2 DEF Fits
    <3>5. \A s, u, a, b \in Nat : s + u + a + b <= 2 * HalfUnits => 0 + a + b <= 2 * HalfUnits
      OBVIOUS
    <3> HIDE DEF posted
    <3>6. 0 + Len(ring.half[0].data) + Len(ring.half[1].data) <= 2 * HalfUnits
      BY <3>3, <3>4, <3>5, Zenon
    <3>7. Len(sent') + (IF wpc' = "post" THEN Len(buf') ELSE 0) = 0
      BY <1>1
    <3>8. Fits'
      BY <1>1, <3>6, <3>7, Zenon DEF Fits
    <3>9. QED  BY <1>1, <2>1, <3>8 DEF Progress
  <2>2. CASE ~ring.overrun
    <3>1. PICK k \in 0 .. 2 : At(k)
      BY <2>2 DEF Uploaded, Progress
    <3>2. At(k)'
      BY <1>1, <1>2, <3>1 DEF At, First
    <3>3. QED  BY <1>1, <2>2, <3>2 DEF Progress
  <2>3. QED  BY <2>1, <2>2
<1>5. QED  BY <1>1, <1>3, <1>4 DEF Uploaded

LEMMA WorkerAlone == ASSUME AppInv, AloneInv, WorkerStep PROVE AloneInv'
<1>1. UNCHANGED <<mic, alone, pressed, tpc, undone>>
  BY DEF WorkerStep, Dequeue, SealTail, StartPosted, FeedTake, FeedMark, ChunkPosted, Replied,
         UploadFailed, Reported, audioVars, timerVars
<1>2. FirstHold' <=> FirstHold
  BY <1>1 DEF FirstHold
<1>3. ~(jobs = <<>> /\ wpc = "wait")
  BY DEF WorkerStep, Dequeue, SealTail, StartPosted, FeedTake, FeedMark, ChunkPosted, Replied,
         UploadFailed
<1>4. Uploaded => Uploaded'
  BY DequeueUploaded, SealUploaded, StartUploaded, TakeUploaded, MarkUploaded, PostedUploaded,
     ReportedUploaded DEF WorkerStep
<1>5. QED  BY <1>1, <1>2, <1>3, <1>4 DEF AloneInv, Recorded

LEMMA NextAloneInv == AppInv /\ AloneInv /\ [Next]_vars => AloneInv'
<1> SUFFICES ASSUME AppInv, AloneInv, [Next]_vars PROVE AloneInv'
  OBVIOUS
<1>1. CASE UserStep
  BY <1>1, PressAlone, OtherUserAlone DEF UserStep
<1>2. CASE TimerStep
  BY <1>2, OtherUserAlone, ReleasedAlone DEF TimerStep
<1>3. CASE ReaderStep
  BY <1>3, ReaderAlone
<1>4. CASE WorkerStep
  BY <1>4, WorkerAlone
<1>5. CASE UNCHANGED vars
  <2>1. UNCHANGED <<mic, ring, rec, alone, pressed, tpc, undone, jobs, noted, wpc, job, from, buf,
                    last, sent>>
    BY <1>5 DEF vars, audioVars, timerVars, workerVars, uiVars
  <2>2. (FirstHold' <=> FirstHold) /\ (Recorded' <=> Recorded)
    BY <2>1 DEF FirstHold, Recorded
  <2>3. Uploaded => Uploaded'
    BY <2>1 DEF Uploaded, Queued, Sealed, Progress, Fits, At, First
  <2>4. QED  BY <2>1, <2>2, <2>3 DEF AloneInv
<1>6. QED  BY <1>1, <1>2, <1>3, <1>4, <1>5 DEF Next

LEMMA SoloInv == Spec => [](AppInv /\ AloneInv)
<1>1. Init => AppInv /\ AloneInv
  BY InitAppInv DEF Init, AloneInv
<1>2. AppInv /\ AloneInv /\ [Next]_vars => (AppInv /\ AloneInv)'
  BY NextAppInv, NextAloneInv
<1>3. QED  BY <1>1, <1>2, PTL DEF Spec

\* What the worker has sent at the end of an undisturbed upload.
LEMMA SentFacts ==
  ASSUME AppInv, AloneInv, Undisturbed
  PROVE  /\ noted <=> ring.overrun
         /\ ~ring.overrun => sent = Run(rec, 0, ring.total)
         /\ ring.overrun => Len(sent) < ring.total
<1>1. Uploaded /\ wpc = "finish"
  BY DEF Undisturbed, AloneInv, Recorded
<1>2. ring \in Ring /\ rec \in Nat /\ ring.total \in Nat
  BY AppAssumption, RingParts DEF AppAssumption, AppInv, RingType, TimerType
<1>3. noted <=> ring.overrun
  BY <1>1 DEF Uploaded, Queued
<1>4. ASSUME ~ring.overrun PROVE sent = Run(rec, 0, ring.total)
  <2>1. sent = Part0(ring, rec) \o Part1(ring, rec)
    BY <1>1, <1>4 DEF Uploaded, Progress, At
  <2>2. QED  BY <1>2, <2>1, PartFacts
<1>5. ASSUME ring.overrun PROVE Len(sent) < ring.total
  <2>1. Len(sent) + 0 + Len(ring.half[0].data) + Len(ring.half[1].data) <= 2 * HalfUnits
    BY <1>1, <1>5 DEF Uploaded, Progress, Fits
  <2>2. ring.total > 2 * HalfUnits
    BY <1>1, <1>5 DEF Uploaded
  <2>3. /\ Len(sent) \in Nat /\ Len(ring.half[0].data) \in Nat /\ Len(ring.half[1].data) \in Nat
    BY <1>2, RingParts DEF Index, AppInv, WorkerType
  <2>4. \A s, a, b, t \in Nat : s + 0 + a + b <= 2 * HalfUnits /\ t > 2 * HalfUnits => s < t
    OBVIOUS
  <2>5. QED  BY <1>2, <2>1, <2>2, <2>3, <2>4, Zenon
<1>6. QED  BY <1>3, <1>4, <1>5

\* An upload nothing disturbed has sent its recording, block for block, when no
\* block was overwritten: for every size of the halves, queue and recording.
THEOREM SoloExact == Spec => []SoloUploadExact
<1>1. AppInv /\ AloneInv => SoloUploadExact
  <2> SUFFICES ASSUME AppInv, AloneInv, Undisturbed, ~ring.overrun
               PROVE  sent = [i \in 1 .. ring.total |-> <<rec, i>>]
    BY DEF SoloUploadExact
  <2>1. ring.total \in Nat
    BY RingParts DEF AppInv, RingType
  <2>2. \A i \in 1 .. ring.total : 0 + i = i
    BY <2>1
  <2>3. sent = [i \in 1 .. ring.total |-> <<rec, 0 + i>>]
    BY SentFacts DEF Run
  <2>4. QED  BY <2>2, <2>3
<1>2. QED  BY <1>1, SoloInv, PTL

\* Such an upload is marked as partial exactly when it is.
THEOREM PartHonest == Spec => []PartTagHonest
<1>1. AppInv /\ AloneInv => PartTagHonest
  <2> SUFFICES ASSUME AppInv, AloneInv, Undisturbed
               PROVE  noted <=> Len(sent) < ring.total
    BY DEF PartTagHonest
  <2>1. CASE ring.overrun
    BY <2>1, SentFacts
  <2>2. CASE ~ring.overrun
    <3>1. ring.total \in Nat /\ rec \in Nat /\ 0 \in Nat
      BY AppAssumption, RingParts DEF AppAssumption, AppInv, RingType, TimerType
    <3>2. IsRun(Run(rec, 0, ring.total), rec, 0, ring.total)
      BY <3>1, RunElements
    <3>3. Len(sent) = ring.total
      BY <2>2, <3>2, SentFacts DEF IsRun
    <3>4. QED  BY <2>2, <3>1, <3>3, SentFacts
  <2>3. QED  BY <2>1, <2>2
<1>2. QED  BY <1>1, SoloInv, PTL

-----------------------------------------------------------------------------
(* The button.                                                             *)

USE TimeAssumption, WindowAssumption DEF TimeAssumption, WindowAssumption

\* The least of two times is one of them and not above the other.
LEMMA LeastFacts ==
  ASSUME NEW a \in Int, NEW b \in Int
  PROVE  Least(a, b) \in Int /\ Least(a, b) <= b /\ Least(a, b) <= a
         /\ (Least(a, b) < b => Least(a, b) = a)
BY DEF Least

-----------------------------------------------------------------------------
(* The type of the state.                                                  *)

LEMMA PttInitType == PttInit => PttTypeOK
<1> SUFFICES ASSUME PttInit PROVE PttTypeOK
  OBVIOUS
<1>1. raw \in BOOLEAN /\ reported \in BOOLEAN /\ held \in BOOLEAN /\ differs \in BOOLEAN
  BY Zenon DEF PttInit
<1>2. stable \in Nat /\ lag \in Int /\ pressLag \in Int /\ spanLag \in Int
  BY DEF PttInit
<1>3. since \in 0 .. Window /\ span \in 0 .. Debounce /\ steady \in 0 .. Steady
  BY DEF PttInit, Steady
<1>4. QED  BY <1>1, <1>2, <1>3 DEF PttTypeOK

LEMMA PollType == ASSUME PttTypeOK, Poll PROVE PttTypeOK'
<1>1. stable' \in Nat /\ lag' \in Int
  BY DEF PttTypeOK, Poll, Counted
<1>2. reported' \in BOOLEAN /\ differs' \in BOOLEAN
  BY Zenon DEF PttTypeOK, Poll
<1>3. held' \in BOOLEAN
  <2>1. held' \in (IF Changes THEN BOOLEAN ELSE {FALSE})
    BY DEF Poll
  <2>2. QED  BY <2>1
<1>4. since' \in 0 .. Window /\ pressLag' \in Int
  BY DEF PttTypeOK, Poll, OnPress
<1>5. span' \in 0 .. Debounce /\ spanLag' \in Int
  BY DEF PttTypeOK, Poll
<1>6. raw' \in BOOLEAN /\ steady' \in 0 .. Steady
  BY DEF PttTypeOK, Poll, Steady
<1>7. QED  BY <1>1, <1>2, <1>3, <1>4, <1>5, <1>6 DEF PttTypeOK

LEMMA PttNextType == PttTypeOK /\ [PttNext]_pttVars => PttTypeOK'
<1> SUFFICES ASSUME PttTypeOK, [PttNext]_pttVars PROVE PttTypeOK'
  OBVIOUS
<1>1. CASE Flip  BY <1>1 DEF Flip, PttTypeOK, Steady
<1>2. CASE Pass
  <2>1. /\ Least(since + 1, Window) \in 0 .. Window
        /\ Least(span + 1, Debounce) \in 0 .. Debounce
        /\ Least(steady + 1, Steady) \in 0 .. Steady
    BY DEF PttTypeOK, Least, Steady
  <2>2. QED  BY <1>2, <2>1 DEF Pass, PttTypeOK, Steady
<1>3. CASE Poll  BY <1>3, PollType
<1>4. CASE Check  BY <1>4 DEF Check, PttTypeOK, clockVars, Steady
<1>5. CASE Return  BY <1>5 DEF Return, PttTypeOK, clockVars, Steady
<1>6. CASE UNCHANGED pttVars  BY <1>6 DEF pttVars, PttTypeOK, clockVars, Steady
<1>7. QED  BY <1>1, <1>2, <1>3, <1>4, <1>5, <1>6 DEF PttNext

\* The variables have their types in every state.
THEOREM PttTypeCorrect == PttSpec => []PttTypeOK
BY PttInitType, PttNextType, PTL DEF PttSpec

-----------------------------------------------------------------------------
(* Alarms are a period apart, however late the polls are: from the alarm of *)
(* an earlier poll to that of the next one, the time that has passed since, *)
(* the lag that poll had and the present lag make up all the periods of the *)
(* samples counted in between.                                             *)

\* Since the press: all samples of a release, once there was one, and those of
\* the next press.
PressSpan ==
    since < Window =>
        since + pressLag - lag >= Period + stable + (IF reported THEN 0 ELSE Debounce)

\* Since the first of the samples that differ from what is reported.
SampleSpan ==
    /\ differs <=> stable > 0
    /\ differs /\ span < Debounce => span + spanLag - lag >= stable

PttInv == PressSpan /\ SampleSpan

LEMMA PttInitInv == PttInit => PttInv
BY DEF PttInit, PttInv, PressSpan, SampleSpan

LEMMA PassInv == ASSUME PttTypeOK, PttInv, Pass PROVE PttInv'
<1>1. /\ lag' = lag + 1 /\ since' = Least(since + 1, Window)
      /\ span' = Least(span + 1, Debounce)
      /\ UNCHANGED <<raw, reported, stable, pressLag, differs, spanLag>>
  BY DEF Pass
<1>2. PressSpan'
  BY <1>1 DEF PttTypeOK, PttInv, PressSpan, Least
<1>3. SampleSpan'
  BY <1>1 DEF PttTypeOK, PttInv, SampleSpan, Least
<1>4. QED  BY <1>2, <1>3 DEF PttInv

\* A poll keeps the two accounts of the periods between presses and samples.
LEMMA PollPress == ASSUME PttTypeOK, PressSpan, Poll PROVE PressSpan'
<1>1. lag' = lag - Period /\ stable' = Counted(Enough)
  BY DEF Poll
<1>2. CASE Changes /\ raw
  <2>1. ~reported /\ reported' /\ stable' = 0
    BY <1>1, <1>2 DEF Poll, Changes, Counted
  <2>2. CASE since' = Window
    BY <2>2 DEF PressSpan, PttTypeOK
  <2>3. CASE since' = 0 /\ pressLag' = lag
    BY <2>1, <2>3, <1>1 DEF PressSpan, PttTypeOK
  <2>4. QED  BY <1>2, <2>2, <2>3 DEF Poll, OnPress
<1>3. CASE Changes /\ ~raw
  <2>1. reported /\ ~reported' /\ stable' = 0 /\ stable + Period >= Debounce
    BY <1>1, <1>3 DEF Poll, Changes, Counted, Enough, PttTypeOK
  <2>2. UNCHANGED <<since, pressLag>>
    BY <1>3 DEF Poll
  <2>3. QED  BY <1>1, <2>1, <2>2 DEF PressSpan, PttTypeOK
<1>4. CASE ~Changes
  <2>1. reported' = reported /\ UNCHANGED <<since, pressLag>>
    BY <1>4 DEF Poll
  <2>2. stable' \in Nat /\ stable' <= stable + Period
    BY <1>1 DEF Counted, PttTypeOK
  <2>3. QED  BY <1>1, <2>1, <2>2 DEF PressSpan, PttTypeOK
<1>5. QED  BY <1>2, <1>3, <1>4

LEMMA PollSample == ASSUME PttTypeOK, SampleSpan, Poll PROVE SampleSpan'
<1>1. /\ lag' = lag - Period /\ stable' = Counted(Enough)
      /\ differs' = (raw # reported')
  BY DEF Poll
<1>2. CASE raw = reported
  <2>1. reported' = reported /\ stable' = 0
    BY <1>1, <1>2 DEF Poll, Changes, Counted
  <2>2. ~differs'
    BY <1>1, <1>2, <2>1, Zenon
  <2>3. QED  BY <2>1, <2>2 DEF SampleSpan
<1>3. CASE Changes
  <2>1. reported' = raw /\ stable' = 0
    BY <1>1, <1>3 DEF Poll, Changes, Counted
  <2>2. ~differs'
    BY <1>1, <2>1, Zenon
  <2>3. QED  BY <2>1, <2>2 DEF SampleSpan
<1>4. CASE raw # reported /\ ~Changes
  <2>1. reported' = reported /\ stable' = stable + Period
    BY <1>1, <1>4 DEF Poll, Changes, Counted
  <2>2. differs'
    BY <1>1, <1>4, <2>1
  <2>3. CASE differs
    <3>1. UNCHANGED <<span, spanLag>>
      BY <1>4, <2>3 DEF Poll
    <3>2. QED  BY <1>1, <2>1, <2>2, <2>3, <3>1 DEF SampleSpan, PttTypeOK
  <2>4. CASE ~differs
    <3>1. span' = 0 /\ spanLag' = lag /\ stable = 0
      BY <1>4, <2>4 DEF Poll, SampleSpan, PttTypeOK
    <3>2. QED  BY <1>1, <2>1, <2>2, <3>1 DEF SampleSpan, PttTypeOK
  <2>5. QED  BY <2>3, <2>4
<1>5. QED  BY <1>2, <1>3, <1>4

LEMMA PttNextInv == PttTypeOK /\ PttInv /\ [PttNext]_pttVars => PttInv'
<1> SUFFICES ASSUME PttTypeOK, PttInv, [PttNext]_pttVars PROVE PttInv'
  OBVIOUS
<1>1. CASE Pass  BY <1>1, PassInv
<1>2. CASE Poll  BY <1>2, PollPress, PollSample DEF PttInv
<1>3. ASSUME Flip \/ Check \/ Return \/ UNCHANGED pttVars PROVE PttInv'
  <2>1. UNCHANGED <<reported, stable, lag, since, span, pressLag, differs, spanLag>>
    BY <1>3 DEF Flip, Check, Return, pttVars, clockVars
  <2>2. QED  BY <2>1 DEF PttInv, PressSpan, SampleSpan
<1>4. QED  BY <1>1, <1>2, <1>3 DEF PttNext

\* With any polling period, and however long the timer task is held up: a press
\* is a double press only by the lateness of the one before.
THEOREM DoublePressIsLate == PttSpec => DoublePressNeedsDelay
<1> DEFINE A == ~reported /\ reported' /\ since' = Window => pressLag > lag
<1>1. ASSUME PttTypeOK, PttInv, [PttNext]_pttVars PROVE [A]_pttVars
  <2> SUFFICES ASSUME PttNext, ~reported, reported', since' = Window PROVE pressLag > lag
    BY <1>1
  <2>1. Poll
    BY DEF PttNext, Flip, Pass, Check, Return
  <2>2. Changes /\ raw /\ stable + Period >= Debounce
    BY <2>1 DEF Poll, Changes, Enough
  <2>3. since < Window
    BY <2>1, <2>2 DEF Poll, OnPress
  <2>4. since + pressLag - lag >= Period + stable + Debounce
    BY <1>1, <2>3 DEF PttInv, PressSpan
  <2>5. QED  BY <1>1, <2>2, <2>3, <2>4 DEF PttTypeOK
<1>2. QED
  BY <1>1, PttInitType, PttNextType, PttInitInv, PttNextInv, PTL DEF PttSpec, DoublePressNeedsDelay

\* And samples count for less than the debounce time only by the lateness of the
\* first of them.
THEOREM QuickReportIsLate == PttSpec => QuickReportNeedsDelay
<1> DEFINE A == reported' # reported =>
                    IF differs THEN span < Debounce - Period => spanLag > lag
                               ELSE Debounce <= Period
<1>1. ASSUME PttTypeOK, PttInv, [PttNext]_pttVars PROVE [A]_pttVars
  <2> SUFFICES ASSUME PttNext, reported' # reported PROVE A
    BY <1>1
  <2>1. Poll
    BY DEF PttNext, Flip, Pass, Check, Return
  <2>2. stable + Period >= Debounce
    BY <2>1 DEF Poll, Changes, Enough
  <2>3. CASE differs
    BY <1>1, <2>2, <2>3 DEF PttInv, SampleSpan, PttTypeOK
  <2>4. CASE ~differs
    BY <1>1, <2>2, <2>4 DEF PttInv, SampleSpan, PttTypeOK
  <2>5. QED  BY <2>3, <2>4
<1>2. QED
  BY <1>1, PttInitType, PttNextType, PttInitInv, PttNextInv, PTL DEF PttSpec, QuickReportNeedsDelay
=============================================================================
