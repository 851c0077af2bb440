--------------------------- MODULE RelayTurnProofs ---------------------------
(***************************************************************************)
(* What holds of RelayTurn for any number of devices, turns and cancels    *)
(* and for every size limit of the maps.                                   *)
(***************************************************************************)
EXTENDS RelayTurn, TLAPS

USE RequestAssumption, LimitAssumption DEF RequestAssumption, LimitAssumption

-----------------------------------------------------------------------------
(* The inductive invariant.                                                *)

\* A verdict is there wherever the code is about to use it.
VerdictKnown ==
    \A r \in Requests :
        pc[r] \in {"recheck", "check4", "respond", "idle", "emit"} => verdict[r] \in Verdicts

\* Generations are handed out in order, each to one turn of a device.
GenerationsDistinct ==
    \A r \in Requests :
        /\ pc[r] \in {"new", "register"} => own[r] = 0
        /\ pc[r] \in Registered => own[r] # 0
        /\ own[r] <= gen[dev(r)]
        /\ \A s \in Requests : dev(s) = dev(r) /\ own[s] = own[r] /\ own[r] # 0 => s = r

\* The envelope of a turn is published by the step that answers it.
EnvelopeWithAnswer ==
    \A r \in Requests :
        /\ pc[r] \notin {"cleanup", "done"} => emitted[r] = <<>>
        /\ Len(emitted[r]) <= 1
        /\ pc[r] \in {"cleanup", "done"} /\ own[r] # 0 /\ ~Stale(r)
                => emitted[r] = <<answer[r]>>

\* From the publication of "idle" on, the newest turn keeps SettledNotWorking.
NewestSettled ==
    \A r \in Requests :
        pc[r] \in {"emit", "cleanup", "done"} /\ own[r] # 0 /\ ~Stale(r) =>
            \/ state[dev(r)] # "working"
            \/ \E s \in Requests : dev(s) = dev(r) /\ pc[s] = "register"

\* An acknowledged cancel has ended its victim's context.
VictimStopped ==
    \A c \in Cancels : cpc[c] = "acked" /\ victim[c] \in Requests => ctx[victim[c]] = "done"

TypeInv == TypeOK /\ VerdictKnown

IInv ==
    /\ TypeInv
    /\ GenerationsDistinct
    /\ CancelMapSound
    /\ EnvelopeWithAnswer
    /\ NewestSettled
    /\ VictimStopped

LEMMA InitIInv == Init => IInv
<1> SUFFICES ASSUME Init PROVE IInv
  OBVIOUS
<1> USE DEF Init
<1>1. TypeInv  BY DEF TypeInv, TypeOK, VerdictKnown, PC, Verdicts, Answers
<1>2. GenerationsDistinct  BY DEF GenerationsDistinct, Registered, dev
<1>3. CancelMapSound  BY DEF CancelMapSound, Registered
<1>4. EnvelopeWithAnswer  BY DEF EnvelopeWithAnswer
<1>5. NewestSettled  BY DEF NewestSettled
<1>6. VictimStopped  BY DEF VictimStopped
<1>7. QED  BY <1>1, <1>2, <1>3, <1>4, <1>5, <1>6 DEF IInv

LEMMA NextTypeInv == TypeInv /\ [Next]_vars => TypeInv'
<1> SUFFICES ASSUME TypeInv, [Next]_vars PROVE TypeInv'
  OBVIOUS
<1> USE DEF TypeInv, TypeOK, VerdictKnown, PC, Verdicts, Answers, Goto, dev,
            turnVars, mapVars, outVars, cancelVars
<1>1. ASSUME NEW r \in Requests, TurnStep(r) PROVE TypeInv'
  <2>1. CASE Register(r)  BY <2>1 DEF Register
  <2>2. CASE CheckBeforeSTT(r)
    <3>1. CASE pc' = [pc EXCEPT ![r] = "emit"]  BY <2>2, <3>1 DEF CheckBeforeSTT
    <3>2. CASE pc' = [pc EXCEPT ![r] = "stt"]  BY <2>2, <3>2 DEF CheckBeforeSTT
    <3>3. QED  BY <2>2, <3>1, <3>2 DEF CheckBeforeSTT
  <2>3. CASE Transcribed(r)  BY <2>3 DEF Transcribed
  <2>4. CASE NotTranscribed(r)  BY <2>4 DEF NotTranscribed
  <2>5. CASE Recheck(r)  BY <2>5 DEF Recheck
  <2>6. CASE DropStale(r)  BY <2>6 DEF DropStale
  <2>7. CASE CheckBeforeSession(r)  BY <2>7 DEF CheckBeforeSession
  <2>8. CASE CheckBeforePrompt(r)  BY <2>8 DEF CheckBeforePrompt
  <2>9. CASE SendPrompt(r)  BY <2>9 DEF SendPrompt
  <2>10. CASE PromptFails(r)  BY <2>10 DEF PromptFails
  <2>11. CASE PromptReplies(r)  BY <2>11 DEF PromptReplies
  <2>12. CASE CheckAfterPrompt(r)  BY <2>12 DEF CheckAfterPrompt
  <2>13. CASE PublishResponse(r)  BY <2>13 DEF PublishResponse
  <2>14. CASE PublishIdle(r)  BY <2>14 DEF PublishIdle
  <2>15. CASE Emit(r)  BY <2>15 DEF Emit
  <2>16. CASE Cleanup(r)  BY <2>16 DEF Cleanup
  <2>17. QED
    BY <1>1, <2>1, <2>2, <2>3, <2>4, <2>5, <2>6, <2>7, <2>8, <2>9, <2>10, <2>11,
       <2>12, <2>13, <2>14, <2>15, <2>16 DEF TurnStep
<1>2. ASSUME NEW r \in Requests, ClientStep(r) PROVE TypeInv'
  <2>1. CASE StartUpload(r)  BY <2>1 DEF StartUpload
  <2>2. CASE SweepUpload(r)  BY <2>2 DEF SweepUpload
  <2>3. CASE Arrive(r)  BY <2>3 DEF Arrive
  <2>4. CASE NothingSaid(r)  BY <2>4 DEF NothingSaid
  <2>5. CASE Refuse(r)  BY <2>5 DEF Refuse
  <2>6. CASE CtxEnds(r)  BY <2>6 DEF CtxEnds
  <2>7. QED  BY <1>2, <2>1, <2>2, <2>3, <2>4, <2>5, <2>6 DEF ClientStep
<1>3. ASSUME NEW c \in Cancels, CancelLock(c) PROVE TypeInv'
  BY <1>3 DEF CancelLock, CancelGoto
<1>4. ASSUME NEW c \in Cancels, CancelUnauthorized(c) PROVE TypeInv'
  BY <1>4 DEF CancelUnauthorized, CancelGoto
<1>5. ASSUME NEW c \in Cancels, CancelStep(c) PROVE TypeInv'
  <2>1. CASE CancelDropUploads(c)  BY <2>1 DEF CancelDropUploads, CancelGoto
  <2>2. CASE CancelStop(c)  BY <2>2 DEF CancelStop, CancelGoto
  <2>3. QED  BY <1>5, <2>1, <2>2 DEF CancelStep
<1>6. CASE UNCHANGED vars  BY <1>6 DEF vars
<1>7. QED  BY <1>1, <1>2, <1>3, <1>4, <1>5, <1>6 DEF Next
-----------------------------------------------------------------------------
(* Each conjunct is kept by every step.                                    *)

LEMMA NextGenerationsDistinct == IInv /\ [Next]_vars => GenerationsDistinct'
<1> SUFFICES ASSUME IInv, [Next]_vars PROVE GenerationsDistinct'
  OBVIOUS
<1> USE DEF IInv, TypeInv, TypeOK, GenerationsDistinct, Registered, PC, Goto, dev,
            turnVars, mapVars, outVars, cancelVars
<1>1. ASSUME NEW r \in Requests, TurnStep(r) PROVE GenerationsDistinct'
  <2>1. CASE Register(r)  BY <2>1 DEF Register
  <2>2. CASE CheckBeforeSTT(r)
    <3>1. CASE Stale(r)  BY <2>2, <3>1 DEF CheckBeforeSTT
    <3>2. CASE ~Stale(r)  BY <2>2, <3>2 DEF CheckBeforeSTT
    <3>3. QED  BY <3>1, <3>2
  <2>3. CASE Transcribed(r)  BY <2>3 DEF Transcribed
  <2>4. CASE NotTranscribed(r)  BY <2>4 DEF NotTranscribed
  <2>5. CASE Recheck(r)  BY <2>5 DEF Recheck
  <2>6. CASE DropStale(r)  BY <2>6 DEF DropStale
  <2>7. CASE CheckBeforeSession(r)  BY <2>7 DEF CheckBeforeSession
  <2>8. CASE CheckBeforePrompt(r)  BY <2>8 DEF CheckBeforePrompt
  <2>9. CASE SendPrompt(r)  BY <2>9 DEF SendPrompt
  <2>10. CASE PromptFails(r)  BY <2>10 DEF PromptFails
  <2>11. CASE PromptReplies(r)  BY <2>11 DEF PromptReplies
  <2>12. CASE CheckAfterPrompt(r)  BY <2>12 DEF CheckAfterPrompt
  <2>13. CASE PublishResponse(r)  BY <2>13 DEF PublishResponse
  <2>14. CASE PublishIdle(r)  BY <2>14 DEF PublishIdle
  <2>15. CASE Emit(r)  BY <2>15 DEF Emit
  <2>16. CASE Cleanup(r)  BY <2>16 DEF Cleanup
  <2>17. QED
    BY <1>1, <2>1, <2>2, <2>3, <2>4, <2>5, <2>6, <2>7, <2>8, <2>9, <2>10,
       <2>11, <2>12, <2>13, <2>14, <2>15, <2>16 DEF TurnStep
<1>2. ASSUME NEW r \in Requests, ClientStep(r) PROVE GenerationsDistinct'
  <2>1. CASE StartUpload(r)  BY <2>1 DEF StartUpload
  <2>2. CASE SweepUpload(r)  BY <2>2 DEF SweepUpload
  <2>3. CASE Arrive(r)  BY <2>3 DEF Arrive
  <2>4. CASE NothingSaid(r)  BY <2>4 DEF NothingSaid
  <2>5. CASE Refuse(r)  BY <2>5 DEF Refuse
  <2>6. CASE CtxEnds(r)  BY <2>6 DEF CtxEnds
  <2>7. QED
    BY <1>2, <2>1, <2>2, <2>3, <2>4, <2>5, <2>6 DEF ClientStep
<1>3. ASSUME NEW c \in Cancels, CancelLock(c) PROVE GenerationsDistinct'
  BY <1>3 DEF CancelLock, CancelGoto
<1>4. ASSUME NEW c \in Cancels, CancelUnauthorized(c) PROVE GenerationsDistinct'
  BY <1>4 DEF CancelUnauthorized, CancelGoto
<1>5. ASSUME NEW c \in Cancels, CancelDropUploads(c) PROVE GenerationsDistinct'
  BY <1>5 DEF CancelDropUploads, CancelGoto
<1>6. ASSUME NEW c \in Cancels, CancelStop(c) PROVE GenerationsDistinct'
  BY <1>6 DEF CancelStop, CancelGoto
<1>7. CASE UNCHANGED vars  BY <1>7 DEF vars
<1>8. QED  BY <1>1, <1>2, <1>3, <1>4, <1>5, <1>6, <1>7 DEF Next, CancelStep

LEMMA NextCancelMapSound == IInv /\ [Next]_vars => CancelMapSound'
<1> SUFFICES ASSUME IInv, [Next]_vars PROVE CancelMapSound'
  OBVIOUS
<1> USE DEF IInv, TypeInv, TypeOK, CancelMapSound, GenerationsDistinct, Registered, PC, Stale, Goto, dev,
            turnVars, mapVars, outVars, cancelVars
<1>1. ASSUME NEW r \in Requests, TurnStep(r) PROVE CancelMapSound'
  <2>1. CASE Register(r)  BY <2>1 DEF Register
  <2>2. CASE CheckBeforeSTT(r)
    <3>1. /\ pc[r] = "check1" /\ UNCHANGED <<own, gen, cancels, ctx, state>>
          /\ \/ Stale(r) /\ pc' = [pc EXCEPT ![r] = "emit"]
             \/ ~Stale(r) /\ pc' = [pc EXCEPT ![r] = "stt"]
      BY <2>2 DEF CheckBeforeSTT
    <3>2. CASE Stale(r) /\ pc' = [pc EXCEPT ![r] = "emit"]  BY <3>1, <3>2
    <3>3. CASE pc' = [pc EXCEPT ![r] = "stt"]  BY <3>1, <3>3
    <3>4. QED  BY <3>1, <3>2, <3>3
  <2>3. CASE Transcribed(r)  BY <2>3 DEF Transcribed
  <2>4. CASE NotTranscribed(r)  BY <2>4 DEF NotTranscribed
  <2>5. CASE Recheck(r)  BY <2>5 DEF Recheck
  <2>6. CASE DropStale(r)  BY <2>6 DEF DropStale
  <2>7. CASE CheckBeforeSession(r)  BY <2>7 DEF CheckBeforeSession
  <2>8. CASE CheckBeforePrompt(r)  BY <2>8 DEF CheckBeforePrompt
  <2>9. CASE SendPrompt(r)  BY <2>9 DEF SendPrompt
  <2>10. CASE PromptFails(r)
    <3>1. /\ pc[r] \in {"prompt", "prompting"} /\ pc' = [pc EXCEPT ![r] = "check4"]
          /\ UNCHANGED <<own, gen, cancels, ctx, state>>
      BY <2>10 DEF PromptFails
    <3>2. QED  BY <3>1
  <2>11. CASE PromptReplies(r)  BY <2>11 DEF PromptReplies
  <2>12. CASE CheckAfterPrompt(r)  BY <2>12 DEF CheckAfterPrompt
  <2>13. CASE PublishResponse(r)  BY <2>13 DEF PublishResponse
  <2>14. CASE PublishIdle(r)  BY <2>14 DEF PublishIdle
  <2>15. CASE Emit(r)  BY <2>15 DEF Emit
  <2>16. CASE Cleanup(r)  BY <2>16 DEF Cleanup
  <2>17. QED
    BY <1>1, <2>1, <2>2, <2>3, <2>4, <2>5, <2>6, <2>7, <2>8, <2>9, <2>10,
       <2>11, <2>12, <2>13, <2>14, <2>15, <2>16 DEF TurnStep
<1>2. ASSUME NEW r \in Requests, ClientStep(r) PROVE CancelMapSound'
  <2>1. CASE StartUpload(r)  BY <2>1 DEF StartUpload
  <2>2. CASE SweepUpload(r)  BY <2>2 DEF SweepUpload
  <2>3. CASE Arrive(r)  BY <2>3 DEF Arrive
  <2>4. CASE NothingSaid(r)  BY <2>4 DEF NothingSaid
  <2>5. CASE Refuse(r)  BY <2>5 DEF Refuse
  <2>6. CASE CtxEnds(r)  BY <2>6 DEF CtxEnds
  <2>7. QED
    BY <1>2, <2>1, <2>2, <2>3, <2>4, <2>5, <2>6 DEF ClientStep
<1>3. ASSUME NEW c \in Cancels, CancelLock(c) PROVE CancelMapSound'
  BY <1>3 DEF CancelLock, CancelGoto
<1>4. ASSUME NEW c \in Cancels, CancelUnauthorized(c) PROVE CancelMapSound'
  BY <1>4 DEF CancelUnauthorized, CancelGoto
<1>5. ASSUME NEW c \in Cancels, CancelDropUploads(c) PROVE CancelMapSound'
  BY <1>5 DEF CancelDropUploads, CancelGoto
<1>6. ASSUME NEW c \in Cancels, CancelStop(c) PROVE CancelMapSound'
  BY <1>6 DEF CancelStop, CancelGoto
<1>7. CASE UNCHANGED vars  BY <1>7 DEF vars
<1>8. QED  BY <1>1, <1>2, <1>3, <1>4, <1>5, <1>6, <1>7 DEF Next, CancelStep

LEMMA NextEnvelopeWithAnswer == IInv /\ [Next]_vars => EnvelopeWithAnswer'
<1> SUFFICES ASSUME IInv, [Next]_vars PROVE EnvelopeWithAnswer'
  OBVIOUS
<1> USE DEF IInv, TypeInv, TypeOK, EnvelopeWithAnswer, GenerationsDistinct, VerdictKnown, Stale, Goto, dev,
            turnVars, mapVars, outVars, cancelVars
<1>1. ASSUME NEW r \in Requests, TurnStep(r) PROVE EnvelopeWithAnswer'
  <2>1. CASE Register(r)  BY <2>1 DEF Register
  <2>2. CASE CheckBeforeSTT(r)  BY <2>2 DEF CheckBeforeSTT
  <2>3. CASE Transcribed(r)  BY <2>3 DEF Transcribed
  <2>4. CASE NotTranscribed(r)  BY <2>4 DEF NotTranscribed
  <2>5. CASE Recheck(r)  BY <2>5 DEF Recheck
  <2>6. CASE DropStale(r)  BY <2>6 DEF DropStale
  <2>7. CASE CheckBeforeSession(r)  BY <2>7 DEF CheckBeforeSession
  <2>8. CASE CheckBeforePrompt(r)  BY <2>8 DEF CheckBeforePrompt
  <2>9. CASE SendPrompt(r)  BY <2>9 DEF SendPrompt
  <2>10. CASE PromptFails(r)  BY <2>10 DEF PromptFails
  <2>11. CASE PromptReplies(r)  BY <2>11 DEF PromptReplies
  <2>12. CASE CheckAfterPrompt(r)  BY <2>12 DEF CheckAfterPrompt
  <2>13. CASE PublishResponse(r)  BY <2>13 DEF PublishResponse
  <2>14. CASE PublishIdle(r)  BY <2>14 DEF PublishIdle
  <2>15. CASE Emit(r)
    <3>1. /\ pc[r] = "emit" /\ pc' = [pc EXCEPT ![r] = "cleanup"]
          /\ own' = own /\ gen' = gen
      BY <2>15 DEF Emit
    <3>2. /\ emitted' = [emitted EXCEPT ![r] = Append(@, verdict[r])]
          /\ answer' = [answer EXCEPT ![r] = verdict[r]]
      BY <2>15 DEF Emit
    <3>3. verdict[r] \in Verdicts /\ emitted[r] = <<>>  BY <3>1
    <3>4. Append(emitted[r], verdict[r]) = <<verdict[r]>>  BY <3>3
    <3>5. emitted'[r] = <<verdict[r]>> /\ answer'[r] = verdict[r]
      BY <3>2, <3>4
    <3>6. Len(emitted'[r]) <= 1  BY <3>5
    <3>7. \A s \in Requests : s # r => emitted'[s] = emitted[s] /\ answer'[s] = answer[s]
      BY <3>2, Zenon
    <3>8. QED  BY <3>1, <3>5, <3>6, <3>7
  <2>16. CASE Cleanup(r)  BY <2>16 DEF Cleanup
  <2>17. QED
    BY <1>1, <2>1, <2>2, <2>3, <2>4, <2>5, <2>6, <2>7, <2>8, <2>9, <2>10,
       <2>11, <2>12, <2>13, <2>14, <2>15, <2>16 DEF TurnStep
<1>2. ASSUME NEW r \in Requests, ClientStep(r) PROVE EnvelopeWithAnswer'
  <2>1. CASE StartUpload(r)  BY <2>1 DEF StartUpload
  <2>2. CASE SweepUpload(r)  BY <2>2 DEF SweepUpload
  <2>3. CASE Arrive(r)  BY <2>3 DEF Arrive
  <2>4. CASE NothingSaid(r)  BY <2>4 DEF NothingSaid
  <2>5. CASE Refuse(r)  BY <2>5 DEF Refuse
  <2>6. CASE CtxEnds(r)  BY <2>6 DEF CtxEnds
  <2>7. QED
    BY <1>2, <2>1, <2>2, <2>3, <2>4, <2>5, <2>6 DEF ClientStep
<1>3. ASSUME NEW c \in Cancels, CancelLock(c) PROVE EnvelopeWithAnswer'
  BY <1>3 DEF CancelLock, CancelGoto
<1>4. ASSUME NEW c \in Cancels, CancelUnauthorized(c) PROVE EnvelopeWithAnswer'
  BY <1>4 DEF CancelUnauthorized, CancelGoto
<1>5. ASSUME NEW c \in Cancels, CancelDropUploads(c) PROVE EnvelopeWithAnswer'
  BY <1>5 DEF CancelDropUploads, CancelGoto
<1>6. ASSUME NEW c \in Cancels, CancelStop(c) PROVE EnvelopeWithAnswer'
  BY <1>6 DEF CancelStop, CancelGoto
<1>7. CASE UNCHANGED vars  BY <1>7 DEF vars
<1>8. QED  BY <1>1, <1>2, <1>3, <1>4, <1>5, <1>6, <1>7 DEF Next, CancelStep

LEMMA NextNewestSettled == IInv /\ [Next]_vars => NewestSettled'
<1> SUFFICES ASSUME IInv, [Next]_vars PROVE NewestSettled'
  OBVIOUS
<1> USE DEF IInv, TypeInv, TypeOK, NewestSettled, GenerationsDistinct, Stale, Goto, dev,
            turnVars, mapVars, outVars, cancelVars
<1>1. ASSUME NEW r \in Requests, TurnStep(r) PROVE NewestSettled'
  <2>1. CASE Register(r)  BY <2>1 DEF Register
  <2>2. CASE CheckBeforeSTT(r)
    <3>1. /\ pc[r] = "check1" /\ UNCHANGED <<own, gen, cancels, ctx, state>>
          /\ \/ Stale(r) /\ pc' = [pc EXCEPT ![r] = "emit"]
             \/ ~Stale(r) /\ pc' = [pc EXCEPT ![r] = "stt"]
      BY <2>2 DEF CheckBeforeSTT
    <3>2. CASE Stale(r) /\ pc' = [pc EXCEPT ![r] = "emit"]  BY <3>1, <3>2
    <3>3. CASE pc' = [pc EXCEPT ![r] = "stt"]  BY <3>1, <3>3
    <3>4. QED  BY <3>1, <3>2, <3>3
  <2>3. CASE Transcribed(r)  BY <2>3 DEF Transcribed
  <2>4. CASE NotTranscribed(r)  BY <2>4 DEF NotTranscribed
  <2>5. CASE Recheck(r)  BY <2>5 DEF Recheck
  <2>6. CASE DropStale(r)  BY <2>6 DEF DropStale
  <2>7. CASE CheckBeforeSession(r)  BY <2>7 DEF CheckBeforeSession
  <2>8. CASE CheckBeforePrompt(r)  BY <2>8 DEF CheckBeforePrompt
  <2>9. CASE SendPrompt(r)  BY <2>9 DEF SendPrompt
  <2>10. CASE PromptFails(r)
    <3>1. /\ pc[r] \in {"prompt", "prompting"} /\ pc' = [pc EXCEPT ![r] = "check4"]
          /\ UNCHANGED <<own, gen, cancels, ctx, state>>
      BY <2>10 DEF PromptFails
    <3>2. QED  BY <3>1
  <2>11. CASE PromptReplies(r)  BY <2>11 DEF PromptReplies
  <2>12. CASE CheckAfterPrompt(r)  BY <2>12 DEF CheckAfterPrompt
  <2>13. CASE PublishResponse(r)  BY <2>13 DEF PublishResponse
  <2>14. CASE PublishIdle(r)  BY <2>14 DEF PublishIdle
  <2>15. CASE Emit(r)  BY <2>15 DEF Emit
  <2>16. CASE Cleanup(r)  BY <2>16 DEF Cleanup
  <2>17. QED
    BY <1>1, <2>1, <2>2, <2>3, <2>4, <2>5, <2>6, <2>7, <2>8, <2>9, <2>10,
       <2>11, <2>12, <2>13, <2>14, <2>15, <2>16 DEF TurnStep
<1>2. ASSUME NEW r \in Requests, ClientStep(r) PROVE NewestSettled'
  <2>1. CASE StartUpload(r)  BY <2>1 DEF StartUpload
  <2>2. CASE SweepUpload(r)  BY <2>2 DEF SweepUpload
  <2>3. CASE Arrive(r)  BY <2>3 DEF Arrive
  <2>4. CASE NothingSaid(r)  BY <2>4 DEF NothingSaid
  <2>5. CASE Refuse(r)  BY <2>5 DEF Refuse
  <2>6. CASE CtxEnds(r)  BY <2>6 DEF CtxEnds
  <2>7. QED
    BY <1>2, <2>1, <2>2, <2>3, <2>4, <2>5, <2>6 DEF ClientStep
<1>3. ASSUME NEW c \in Cancels, CancelLock(c) PROVE NewestSettled'
  BY <1>3 DEF CancelLock, CancelGoto
<1>4. ASSUME NEW c \in Cancels, CancelUnauthorized(c) PROVE NewestSettled'
  BY <1>4 DEF CancelUnauthorized, CancelGoto
<1>5. ASSUME NEW c \in Cancels, CancelDropUploads(c) PROVE NewestSettled'
  BY <1>5 DEF CancelDropUploads, CancelGoto
<1>6. ASSUME NEW c \in Cancels, CancelStop(c) PROVE NewestSettled'
  BY <1>6 DEF CancelStop, CancelGoto
<1>7. CASE UNCHANGED vars  BY <1>7 DEF vars
<1>8. QED  BY <1>1, <1>2, <1>3, <1>4, <1>5, <1>6, <1>7 DEF Next, CancelStep

LEMMA NextVictimStopped == IInv /\ [Next]_vars => VictimStopped'
<1> SUFFICES ASSUME IInv, [Next]_vars PROVE VictimStopped'
  OBVIOUS
<1> USE DEF IInv, TypeInv, TypeOK, VictimStopped, Goto, dev,
            turnVars, mapVars, outVars, cancelVars
<1>1. ASSUME NEW r \in Requests, TurnStep(r) PROVE VictimStopped'
  <2>1. CASE Register(r)  BY <2>1 DEF Register
  <2>2. CASE CheckBeforeSTT(r)  BY <2>2 DEF CheckBeforeSTT
  <2>3. CASE Transcribed(r)  BY <2>3 DEF Transcribed
  <2>4. CASE NotTranscribed(r)  BY <2>4 DEF NotTranscribed
  <2>5. CASE Recheck(r)  BY <2>5 DEF Recheck
  <2>6. CASE DropStale(r)  BY <2>6 DEF DropStale
  <2>7. CASE CheckBeforeSession(r)  BY <2>7 DEF CheckBeforeSession
  <2>8. CASE CheckBeforePrompt(r)  BY <2>8 DEF CheckBeforePrompt
  <2>9. CASE SendPrompt(r)  BY <2>9 DEF SendPrompt
  <2>10. CASE PromptFails(r)  BY <2>10 DEF PromptFails
  <2>11. CASE PromptReplies(r)  BY <2>11 DEF PromptReplies
  <2>12. CASE CheckAfterPrompt(r)  BY <2>12 DEF CheckAfterPrompt
  <2>13. CASE PublishResponse(r)  BY <2>13 DEF PublishResponse
  <2>14. CASE PublishIdle(r)  BY <2>14 DEF PublishIdle
  <2>15. CASE Emit(r)  BY <2>15 DEF Emit
  <2>16. CASE Cleanup(r)  BY <2>16 DEF Cleanup
  <2>17. QED
    BY <1>1, <2>1, <2>2, <2>3, <2>4, <2>5, <2>6, <2>7, <2>8, <2>9, <2>10,
       <2>11, <2>12, <2>13, <2>14, <2>15, <2>16 DEF TurnStep
<1>2. ASSUME NEW r \in Requests, ClientStep(r) PROVE VictimStopped'
  <2>1. CASE StartUpload(r)  BY <2>1 DEF StartUpload
  <2>2. CASE SweepUpload(r)  BY <2>2 DEF SweepUpload
  <2>3. CASE Arrive(r)  BY <2>3 DEF Arrive
  <2>4. CASE NothingSaid(r)  BY <2>4 DEF NothingSaid
  <2>5. CASE Refuse(r)  BY <2>5 DEF Refuse
  <2>6. CASE CtxEnds(r)  BY <2>6 DEF CtxEnds
  <2>7. QED
    BY <1>2, <2>1, <2>2, <2>3, <2>4, <2>5, <2>6 DEF ClientStep
<1>3. ASSUME NEW c \in Cancels, CancelLock(c) PROVE VictimStopped'
  BY <1>3 DEF CancelLock, CancelGoto
<1>4. ASSUME NEW c \in Cancels, CancelUnauthorized(c) PROVE VictimStopped'
  BY <1>4 DEF CancelUnauthorized, CancelGoto
<1>5. ASSUME NEW c \in Cancels, CancelDropUploads(c) PROVE VictimStopped'
  BY <1>5 DEF CancelDropUploads, CancelGoto
<1>6. ASSUME NEW c \in Cancels, CancelStop(c) PROVE VictimStopped'
  BY <1>6 DEF CancelStop, CancelGoto
<1>7. CASE UNCHANGED vars  BY <1>7 DEF vars
<1>8. QED  BY <1>1, <1>2, <1>3, <1>4, <1>5, <1>6, <1>7 DEF Next, CancelStep

-----------------------------------------------------------------------------
(* The theorems.                                                           *)

LEMMA NextIInv == IInv /\ [Next]_vars => IInv'
<1> SUFFICES ASSUME IInv, [Next]_vars PROVE IInv'
  OBVIOUS
<1>1. TypeInv'  BY NextTypeInv DEF IInv
<1>2. GenerationsDistinct'  BY NextGenerationsDistinct
<1>3. CancelMapSound'  BY NextCancelMapSound
<1>4. EnvelopeWithAnswer'  BY NextEnvelopeWithAnswer
<1>5. NewestSettled'  BY NextNewestSettled
<1>6. VictimStopped'  BY NextVictimStopped
<1>7. QED  BY <1>1, <1>2, <1>3, <1>4, <1>5, <1>6 DEF IInv

LEMMA Invariance == Spec => []IInv
BY InitIInv, NextIInv, PTL DEF Spec

\* Every variable keeps its type.
THEOREM TypeCorrect == Spec => []TypeOK
<1>1. IInv => TypeOK  BY DEF IInv, TypeInv
<1>2. QED  BY Invariance, <1>1, PTL

\* A cancel always finds the newest turn of its device while that can still be
\* stopped, and never a turn that ended or was overtaken.
THEOREM CancelFindsNewest == Spec => []CancelMapSound
<1>1. IInv => CancelMapSound  BY DEF IInv
<1>2. QED  BY Invariance, <1>1, PTL

\* A turn publishes at most one envelope, and one that nothing overtook exactly
\* one, with the verdict it was answered.
THEOREM OneEnvelopePerTurn == Spec => []EnvelopeOnce
<1>1. IInv => EnvelopeOnce  BY DEF IInv, EnvelopeWithAnswer, EnvelopeOnce
<1>2. QED  BY Invariance, <1>1, PTL

\* The retained state leaves "working" with the newest turn.
THEOREM WorkingEndsWithTurn == Spec => []SettledNotWorking
<1>1. IInv => SettledNotWorking  BY DEF IInv, NewestSettled, SettledNotWorking
<1>2. QED  BY Invariance, <1>1, PTL

\* The context of a cancelled turn is over before the cancel is acknowledged,
\* and SendPrompt needs a live one.
LEMMA StepVictimNeverPrompted ==
    IInv /\ [Next]_vars =>
        [\A c \in Cancels : cpc[c] = "acked" /\ victim[c] \in Requests \ prompted
            => victim[c] \notin prompted']_vars
<1> SUFFICES ASSUME IInv, Next, NEW c \in Cancels, cpc[c] = "acked",
                    victim[c] \in Requests \ prompted
             PROVE  victim[c] \notin prompted'
  OBVIOUS
<1>1. ctx[victim[c]] = "done"  BY DEF IInv, VictimStopped
<1>2. \A r \in Requests : SendPrompt(r) => r # victim[c]  BY <1>1 DEF SendPrompt
<1>3. CASE \E r \in Requests : SendPrompt(r)  BY <1>2, <1>3 DEF SendPrompt
<1>4. CASE ~\E r \in Requests : SendPrompt(r)
  <2> USE DEF turnVars, mapVars, outVars, cancelVars
  <2>1. ASSUME NEW r \in Requests, TurnStep(r) PROVE prompted' = prompted
    BY <1>4, <2>1 DEF TurnStep, Register, CheckBeforeSTT, Transcribed, NotTranscribed,
        Recheck, DropStale, CheckBeforeSession, CheckBeforePrompt, PromptFails,
        PromptReplies, CheckAfterPrompt, PublishResponse, PublishIdle, Emit, Cleanup
  <2>2. ASSUME NEW r \in Requests, ClientStep(r) PROVE prompted' = prompted
    BY <2>2 DEF ClientStep, StartUpload, SweepUpload, Arrive, NothingSaid, Refuse, CtxEnds
  <2>3. ASSUME NEW k \in Cancels, CancelLock(k) \/ CancelUnauthorized(k) \/ CancelStep(k)
        PROVE prompted' = prompted
    BY <2>3 DEF CancelStep, CancelLock, CancelUnauthorized, CancelDropUploads, CancelStop
  <2>4. QED  BY <2>1, <2>2, <2>3 DEF Next
<1>5. QED  BY <1>3, <1>4

\* After the acknowledgement of a cancel its victim sends the agent nothing.
THEOREM CancelKeepsAgentQuiet == Spec => VictimNeverPrompted
BY Invariance, StepVictimNeverPrompted, PTL DEF Spec, VictimNeverPrompted
-----------------------------------------------------------------------------
(* Seen from outside a turn is a VoiceTurn.                                *)

\* What a turn has shown when it is at a given step, and what the verdict it
\* holds has to say of that.
ToldSoFar ==
    \A r \in Requests :
        /\ pc[r] \notin {"cleanup", "done"} => answer[r] = "none"
        /\ pc[r] \in {"new", "register", "check1", "stt", "check2", "check3", "prompt", "recheck"}
                => r \notin prompted
        /\ pc[r] \in {"prompting", "respond"} => r \in prompted
        /\ pc[r] \in PC \ {"idle", "emit", "cleanup", "done"} => r \notin responded
        /\ pc[r] \in {"new", "register", "check1", "stt", "check2", "check3", "prompt", "prompting"}
                => verdict[r] = "none"
        /\ pc[r] = "recheck" => verdict[r] \in {"silence", "stt_failed"}
        /\ pc[r] = "check4" => verdict[r] \in {"ok", "hermes_timeout"}
        /\ pc[r] = "respond" => verdict[r] = "ok"
        /\ pc[r] = "check4" /\ verdict[r] = "ok" => r \in prompted
        /\ pc[r] \in {"idle", "emit"} => (verdict[r] = "ok" <=> r \in responded)
        /\ pc[r] \in {"check4", "idle", "emit"} /\ verdict[r] = "hermes_timeout"
                => r \in prompted \/ ctx[r] = "done"
        /\ pc[r] \in {"idle", "emit"} /\ verdict[r] \notin {"ok", "hermes_timeout"}
                => r \notin prompted

LEMMA InitToldSoFar == Init => ToldSoFar
BY DEF Init, ToldSoFar

LEMMA NextToldSoFar == TypeInv /\ ToldSoFar /\ [Next]_vars => ToldSoFar'
<1> SUFFICES ASSUME TypeInv, ToldSoFar, [Next]_vars PROVE ToldSoFar'
  OBVIOUS
<1> USE DEF TypeInv, TypeOK, ToldSoFar, PC, Verdicts, Goto,
            turnVars, mapVars, outVars, cancelVars
<1>1. ASSUME NEW r \in Requests, TurnStep(r) PROVE ToldSoFar'
  <2>1. CASE Register(r)  BY <2>1 DEF Register
  <2>2. CASE CheckBeforeSTT(r)  BY <2>2 DEF CheckBeforeSTT
  <2>3. CASE Transcribed(r)  BY <2>3 DEF Transcribed
  <2>4. CASE NotTranscribed(r)  BY <2>4 DEF NotTranscribed
  <2>5. CASE Recheck(r)  BY <2>5 DEF Recheck
  <2>6. CASE DropStale(r)  BY <2>6 DEF DropStale
  <2>7. CASE CheckBeforeSession(r)  BY <2>7 DEF CheckBeforeSession
  <2>8. CASE CheckBeforePrompt(r)  BY <2>8 DEF CheckBeforePrompt
  <2>9. CASE SendPrompt(r)  BY <2>9 DEF SendPrompt
  <2>10. CASE PromptFails(r)  BY <2>10 DEF PromptFails
  <2>11. CASE PromptReplies(r)  BY <2>11 DEF PromptReplies
  <2>12. CASE CheckAfterPrompt(r)  BY <2>12 DEF CheckAfterPrompt
  <2>13. CASE PublishResponse(r)  BY <2>13 DEF PublishResponse
  <2>14. CASE PublishIdle(r)  BY <2>14 DEF PublishIdle
  <2>15. CASE Emit(r)  BY <2>15 DEF Emit
  <2>16. CASE Cleanup(r)  BY <2>16 DEF Cleanup
  <2>17. QED
    BY <1>1, <2>1, <2>2, <2>3, <2>4, <2>5, <2>6, <2>7, <2>8, <2>9, <2>10,
       <2>11, <2>12, <2>13, <2>14, <2>15, <2>16 DEF TurnStep
<1>2. ASSUME NEW r \in Requests, ClientStep(r) PROVE ToldSoFar'
  <2>1. CASE StartUpload(r)  BY <2>1 DEF StartUpload
  <2>2. CASE SweepUpload(r)  BY <2>2 DEF SweepUpload
  <2>3. CASE Arrive(r)  BY <2>3 DEF Arrive
  <2>4. CASE NothingSaid(r)  BY <2>4 DEF NothingSaid
  <2>5. CASE Refuse(r)  BY <2>5 DEF Refuse
  <2>6. CASE CtxEnds(r)  BY <2>6 DEF CtxEnds
  <2>7. QED  BY <1>2, <2>1, <2>2, <2>3, <2>4, <2>5, <2>6 DEF ClientStep
<1>3. ASSUME NEW c \in Cancels, CancelLock(c) PROVE ToldSoFar'
  BY <1>3 DEF CancelLock, CancelGoto
<1>4. ASSUME NEW c \in Cancels, CancelUnauthorized(c) PROVE ToldSoFar'
  BY <1>4 DEF CancelUnauthorized, CancelGoto
<1>5. ASSUME NEW c \in Cancels, CancelDropUploads(c) PROVE ToldSoFar'
  BY <1>5 DEF CancelDropUploads, CancelGoto
<1>6. ASSUME NEW c \in Cancels, CancelStop(c) PROVE ToldSoFar'
  BY <1>6 DEF CancelStop, CancelGoto
<1>7. CASE UNCHANGED vars  BY <1>7 DEF vars
<1>8. QED  BY <1>1, <1>2, <1>3, <1>4, <1>5, <1>6, <1>7 DEF Next, CancelStep

\* Every step of the relay is a step of VoiceTurn, or cannot be seen outside.
LEMMA StepIsVoiceTurn ==
    IInv /\ ToldSoFar /\ [Next]_vars => [Outside!Next]_(Outside!vars)
<1> SUFFICES ASSUME IInv, ToldSoFar, [Next]_vars PROVE [Outside!Next]_(Outside!vars)
  OBVIOUS
<1> USE DEF IInv, TypeInv, TypeOK, EnvelopeWithAnswer, ToldSoFar, PC, Verdicts, Goto, Outside!vars,
            turnVars, mapVars, outVars, cancelVars
<1>1. ASSUME NEW r \in Requests, TurnStep(r) PROVE [Outside!Next]_(Outside!vars)
  <2>1. CASE Register(r)  BY <2>1 DEF Register
  <2>2. CASE CheckBeforeSTT(r)  BY <2>2 DEF CheckBeforeSTT
  <2>3. CASE Transcribed(r)  BY <2>3 DEF Transcribed
  <2>4. CASE NotTranscribed(r)  BY <2>4 DEF NotTranscribed
  <2>5. CASE Recheck(r)  BY <2>5 DEF Recheck
  <2>6. CASE DropStale(r)
    <3>1. answer[r] = "none" /\ r \notin responded  BY <2>6 DEF DropStale
    <3>2. Outside!AnswerAlone(r)  BY <2>6, <3>1 DEF DropStale, Outside!AnswerAlone
    <3>3. QED  BY <3>2 DEF Outside!Next
  <2>7. CASE CheckBeforeSession(r)  BY <2>7 DEF CheckBeforeSession
  <2>8. CASE CheckBeforePrompt(r)  BY <2>8 DEF CheckBeforePrompt
  <2>9. CASE SendPrompt(r)
    <3>1. Outside!Prompt(r)  BY <2>9 DEF SendPrompt, Outside!Prompt
    <3>2. QED  BY <3>1 DEF Outside!Next
  <2>10. CASE PromptFails(r)  BY <2>10 DEF PromptFails
  <2>11. CASE PromptReplies(r)  BY <2>11 DEF PromptReplies
  <2>12. CASE CheckAfterPrompt(r)  BY <2>12 DEF CheckAfterPrompt
  <2>13. CASE PublishResponse(r)
    <3>1. Outside!Respond(r)  BY <2>13 DEF PublishResponse, Outside!Respond
    <3>2. QED  BY <3>1 DEF Outside!Next
  <2>14. CASE PublishIdle(r)  BY <2>14 DEF PublishIdle
  <2>15. CASE Emit(r)
    <3>1. answer[r] = "none" /\ emitted[r] = <<>> /\ verdict[r] \in Verdicts
      BY <2>15 DEF Emit, VerdictKnown
    <3>2. Append(emitted[r], verdict[r]) = <<verdict[r]>>  BY <3>1
    <3>3. emitted' = [emitted EXCEPT ![r] = <<verdict[r]>>]  BY <2>15, <3>2 DEF Emit
    <3>4. verdict[r] \in Outside!Truthful(r)
      BY <2>15, <3>1 DEF Emit, Outside!Truthful
    <3>5. Outside!AnswerWithEnvelope(r)
      BY <2>15, <3>1, <3>3, <3>4 DEF Emit, Outside!AnswerWithEnvelope
    <3>6. QED  BY <3>5 DEF Outside!Next
  <2>16. CASE Cleanup(r)
    <3>1. Outside!Stop  BY <2>16 DEF Cleanup, Outside!Stop
    <3>2. QED  BY <3>1 DEF Outside!Next
  <2>17. QED
    BY <1>1, <2>1, <2>2, <2>3, <2>4, <2>5, <2>6, <2>7, <2>8, <2>9, <2>10,
       <2>11, <2>12, <2>13, <2>14, <2>15, <2>16 DEF TurnStep
<1>2. ASSUME NEW r \in Requests, ClientStep(r) PROVE [Outside!Next]_(Outside!vars)
  <2>1. CASE StartUpload(r)  BY <2>1 DEF StartUpload
  <2>2. CASE SweepUpload(r)  BY <2>2 DEF SweepUpload
  <2>3. CASE Arrive(r)  BY <2>3 DEF Arrive
  <2>4. CASE NothingSaid(r)
    <3>1. Outside!AnswerAlone(r)  BY <2>4 DEF NothingSaid, Outside!AnswerAlone
    <3>2. QED  BY <3>1 DEF Outside!Next
  <2>5. CASE Refuse(r)
    <3>1. Outside!AnswerAlone(r)  BY <2>5 DEF Refuse, Outside!AnswerAlone
    <3>2. QED  BY <3>1 DEF Outside!Next
  <2>6. CASE CtxEnds(r)
    <3>1. Outside!Stop  BY <2>6 DEF CtxEnds, Outside!Stop
    <3>2. QED  BY <3>1 DEF Outside!Next
  <2>7. QED  BY <1>2, <2>1, <2>2, <2>3, <2>4, <2>5, <2>6 DEF ClientStep
<1>3. ASSUME NEW c \in Cancels, CancelLock(c) PROVE [Outside!Next]_(Outside!vars)
  <2>1. Outside!Stop  BY <1>3 DEF CancelLock, CancelGoto, Outside!Stop
  <2>2. QED  BY <2>1 DEF Outside!Next
<1>4. ASSUME NEW c \in Cancels, CancelUnauthorized(c) PROVE [Outside!Next]_(Outside!vars)
  BY <1>4 DEF CancelUnauthorized, CancelGoto
<1>5. ASSUME NEW c \in Cancels, CancelDropUploads(c) PROVE [Outside!Next]_(Outside!vars)
  BY <1>5 DEF CancelDropUploads, CancelGoto
<1>6. ASSUME NEW c \in Cancels, CancelStop(c) PROVE [Outside!Next]_(Outside!vars)
  <2>1. Outside!Stop  BY <1>6 DEF CancelStop, CancelGoto, Outside!Stop
  <2>2. QED  BY <2>1 DEF Outside!Next
<1>7. CASE UNCHANGED vars  BY <1>7 DEF vars
<1>8. QED  BY <1>1, <1>2, <1>3, <1>4, <1>5, <1>6, <1>7 DEF Next, CancelStep

\* The relay keeps what it promises of a voice turn.
THEOREM TurnIsVoiceTurn == Spec => IsVoiceTurn
<1>1. Init => Outside!Init  BY DEF Init, Outside!Init
<1>2. QED
  BY <1>1, InitIInv, NextIInv, InitToldSoFar, NextToldSoFar, StepIsVoiceTurn, PTL
     DEF Spec, IsVoiceTurn, Outside!Spec, IInv

\* In the abstract specification answer, reply and envelope agree after every
\* step.
LEMMA VoiceTurnTellsAll ==
    /\ emitted \in [Requests -> Seq(Verdicts)] /\ answer \in [Requests -> Answers]
    /\ Outside!AnswerTellsAll /\ [Outside!Next]_(Outside!vars)
    => Outside!AnswerTellsAll'
<1> SUFFICES ASSUME emitted \in [Requests -> Seq(Verdicts)],
                    answer \in [Requests -> Answers],
                    Outside!AnswerTellsAll, [Outside!Next]_(Outside!vars)
             PROVE  Outside!AnswerTellsAll'
  OBVIOUS
<1> USE DEF Outside!AnswerTellsAll
<1>1. CASE Outside!Stop  BY <1>1 DEF Outside!Stop
<1>2. ASSUME NEW r \in Requests, Outside!Prompt(r) PROVE Outside!AnswerTellsAll'
  BY <1>2 DEF Outside!Prompt
<1>3. ASSUME NEW r \in Requests, Outside!Respond(r) PROVE Outside!AnswerTellsAll'
  BY <1>3 DEF Outside!Respond
<1>4. ASSUME NEW r \in Requests, Outside!AnswerWithEnvelope(r) PROVE Outside!AnswerTellsAll'
  <2>1. PICK v \in Outside!Truthful(r) :
            /\ answer' = [answer EXCEPT ![r] = v]
            /\ emitted' = [emitted EXCEPT ![r] = <<v>>]
    BY <1>4 DEF Outside!AnswerWithEnvelope
  <2>2. responded' = responded  BY <1>4 DEF Outside!AnswerWithEnvelope
  <2>3. v # "none" /\ (v = "ok" <=> r \in responded)
    BY <2>1 DEF Outside!Truthful
  <2>4. answer'[r] = v /\ emitted'[r] = <<v>>
    BY <2>1
  <2>5. \A s \in Requests : s # r => answer'[s] = answer[s] /\ emitted'[s] = emitted[s]
    BY <2>1
  <2>6. QED  BY <2>2, <2>3, <2>4, <2>5
<1>5. ASSUME NEW r \in Requests, Outside!AnswerAlone(r) PROVE Outside!AnswerTellsAll'
  BY <1>5 DEF Outside!AnswerAlone
<1>6. CASE UNCHANGED Outside!vars  BY <1>6 DEF Outside!vars
<1>7. QED  BY <1>1, <1>2, <1>3, <1>4, <1>5, <1>6 DEF Outside!Next

\* A device is answered "ok" exactly when the reply was published, and every
\* envelope says what the device was answered.
THEOREM AnswersAgree == Spec => []Outside!AnswerTellsAll
<1>1. Outside!Init => Outside!AnswerTellsAll  BY DEF Outside!Init, Outside!AnswerTellsAll
<1>2. IInv => emitted \in [Requests -> Seq(Verdicts)] /\ answer \in [Requests -> Answers]
  BY DEF IInv, TypeInv, TypeOK
<1>3. QED
  BY <1>1, <1>2, TurnIsVoiceTurn, Invariance, VoiceTurnTellsAll, PTL
     DEF IsVoiceTurn, Outside!Spec

LEMMA ToldInvariance == Spec => []ToldSoFar
BY InitIInv, NextIInv, InitToldSoFar, NextToldSoFar, PTL DEF Spec, IInv

\* A turn gets to its calls as TurnCalls assumes: registered and with nothing
\* said, asked, published or answered, whatever other turns and cancels did
\* before; and a call it waits in has been asked or not as its place says.
THEOREM CallsStartClean ==
    Spec => [](\A r \in Requests : pc[r] \in {"stt", "check2", "check3", "prompt", "prompting"} =>
                  /\ own[r] # 0 /\ verdict[r] = "none" /\ answer[r] = "none"
                  /\ emitted[r] = <<>> /\ r \notin responded
                  /\ r \in prompted <=> pc[r] = "prompting")
<1> DEFINE Clean ==
        \A r \in Requests : pc[r] \in {"stt", "check2", "check3", "prompt", "prompting"} =>
                  /\ own[r] # 0 /\ verdict[r] = "none" /\ answer[r] = "none"
                  /\ emitted[r] = <<>> /\ r \notin responded
                  /\ r \in prompted <=> pc[r] = "prompting"
<1>1. IInv /\ ToldSoFar => Clean
  BY DEF IInv, GenerationsDistinct, EnvelopeWithAnswer, ToldSoFar, Registered, PC
<1> HIDE DEF Clean
<1>2. Spec => []Clean  BY <1>1, Invariance, ToldInvariance, PTL
<1>3. QED  BY <1>2 DEF Clean
=============================================================================
