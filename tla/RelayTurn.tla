------------------------------ MODULE RelayTurn ------------------------------
(***************************************************************************)
(* The life of a voice turn in the relay: transcribeAndPrompt and the      *)
(* requests that lead to it (relay/internal/server/chunks.go), racing with *)
(* other turns of the same device and with POST /v1/cancel                 *)
(* (relay/internal/server/server.go).                                      *)
(*                                                                         *)
(* Every request is a goroutine of its own.  Server.mu protects the maps   *)
(* cancels and cancelGen, but is released between any two accesses, so a   *)
(* step here is what happens between two points where another goroutine    *)
(* can get in: one critical section, one publish, one call's end.  A turn  *)
(* takes a generation number when it registers; a newer turn or a cancel   *)
(* increments the device's number and so makes the older turn stale, which *)
(* the turn finds out only where the code looks.                           *)
(*                                                                         *)
(* Publishing is enqueueing to the MQTT client; state[d] is the last state *)
(* enqueued for the retained topic node/<d>/state.                         *)
(***************************************************************************)
EXTENDS Integers, Sequences, FiniteSets

CONSTANTS
    Devices,
    Requests,   \* POST /v1/voice and POST /v1/chunks/{id}/finish requests
    Chunked,    \* those of them that finish a chunked upload of their own
    Cancels,    \* POST /v1/cancel requests
    DeviceOf,   \* the authorised device of a request of either kind
    MapLimit,   \* the size beyond which handleCancel empties a map (1000)
    None        \* no request

ASSUME RequestAssumption ==
    /\ Chunked \subseteq Requests
    /\ DeviceOf \in [Requests \cup Cancels -> Devices]
    /\ None \notin Requests
ASSUME LimitAssumption == MapLimit \in Nat

VARIABLES
    pc,         \* where the goroutine of a request is
    verdict,    \* turn.Verdict, set where the outcome is known
    answer,     \* what the request was answered: X-Error, or "ok"
    own,        \* gen of a registered turn, 0 before
    ctx,        \* whether the turn's context is still live
    gen,        \* Server.cancelGen
    cancels,    \* Server.cancels: the turn whose cancel function is stored
    sessions,   \* the devices with an entry in Server.sessions
    uploads,    \* the chunked uploads the store holds, complete or not
    state,      \* the state last published for a device
    emitted,    \* the turn envelopes published for a request
    prompted,   \* the turns whose prompt was sent to the agent
    responded,  \* the turns whose reply was published
    cpc,        \* where the goroutine of a cancel is
    victim      \* the turn whose cancel function the cancel took

turnVars == <<pc, verdict, answer, own, ctx>>
mapVars == <<gen, cancels, sessions, uploads>>
outVars == <<state, emitted, prompted, responded>>
cancelVars == <<cpc, victim>>
vars == <<turnVars, mapVars, outVars, cancelVars>>

Verdicts == {"ok", "silence", "stt_failed", "hermes_timeout", "cancelled"}
Answers == Verdicts \cup {"none", "refused"}
PC == {"new", "register", "check1", "stt", "check2", "check3", "prompt", "prompting",
       "check4", "respond", "recheck", "idle", "emit", "cleanup", "done"}

\* The steps during which a turn is registered and its context may be live.
Registered == PC \ {"new", "register", "done"}

dev(r) == DeviceOf[r]

\* The closure stale(): true once the device's generation has moved on.
Stale(r) == gen[dev(r)] # own[r]

Goto(r, from, to) == pc[r] = from /\ pc' = [pc EXCEPT ![r] = to]

-----------------------------------------------------------------------------
Init ==
    /\ pc = [r \in Requests |-> "new"]
    /\ verdict = [r \in Requests |-> "none"]
    /\ answer = [r \in Requests |-> "none"]
    /\ own = [r \in Requests |-> 0]
    /\ ctx = [r \in Requests |-> "live"]
    /\ gen = [d \in Devices |-> 0]
    /\ cancels = [d \in Devices |-> None]
    /\ sessions = {}
    /\ uploads = {}
    /\ state = [d \in Devices |-> "idle"]
    /\ emitted = [r \in Requests |-> <<>>]
    /\ prompted = {}
    /\ responded = {}
    /\ cpc = [c \in Cancels |-> "new"]
    /\ victim = [c \in Cancels |-> None]

-----------------------------------------------------------------------------
\* Operators named Slip... are deliberate mistakes: each stands beside the
\* definition it would replace, for showing that a property notices it.

(* Before the turn: handleChunkStart, handleVoice, handleChunkFinish.      *)

\* An upload is opened; ChunkStore models what happens to it until its finish.
StartUpload(r) ==
    /\ pc[r] = "new" /\ r \in Chunked \ uploads
    /\ state' = [state EXCEPT ![dev(r)] = "uploading"]
    /\ uploads' = uploads \cup {r}
    /\ UNCHANGED <<turnVars, gen, cancels, sessions, emitted, prompted, responded, cancelVars>>

\* The janitor sweeps an upload whose device went quiet.
SweepUpload(r) ==
    /\ r \in uploads
    /\ uploads' = uploads \ {r}
    /\ UNCHANGED <<turnVars, gen, cancels, sessions, outVars, cancelVars>>

\* The PCM is there, from the body or from the store, and the turn begins by
\* publishing "working".
Arrive(r) ==
    /\ Goto(r, "new", "register")
    /\ r \in Chunked => r \in uploads
    /\ uploads' = uploads \ {r}
    /\ state' = [state EXCEPT ![dev(r)] = "working"]
    /\ UNCHANGED <<verdict, answer, own, ctx, gen, cancels, sessions,
                   emitted, prompted, responded, cancelVars>>

\* No PCM at all: an empty body, or an upload without a chunk, which stays.
NothingSaid(r) ==
    /\ Goto(r, "new", "done")
    /\ r \in Chunked => r \in uploads
    /\ state' = [state EXCEPT ![dev(r)] = "idle"]
    /\ answer' = [answer EXCEPT ![r] = "silence"]
    /\ UNCHANGED <<verdict, own, ctx, mapVars, emitted, prompted, responded, cancelVars>>

\* unauthorized, too_long, upload_gap or unknown_upload.
Refuse(r) ==
    /\ Goto(r, "new", "done")
    /\ answer' = [answer EXCEPT ![r] = "refused"]
    /\ UNCHANGED <<verdict, own, ctx, mapVars, outVars, cancelVars>>

-----------------------------------------------------------------------------
(* transcribeAndPrompt                                                     *)

\* The critical section at its head.  The function of an older turn is taken
\* out of the map but not called.
Register(r) ==
    /\ Goto(r, "register", "check1")
    /\ gen' = [gen EXCEPT ![dev(r)] = @ + 1]
    /\ own' = [own EXCEPT ![r] = gen[dev(r)] + 1]
    /\ cancels' = [cancels EXCEPT ![dev(r)] = r]
    /\ UNCHANGED <<verdict, answer, ctx, sessions, uploads, outVars, cancelVars>>

\* A turn found stale before the transcription: the one place where a stale
\* turn emits its envelope.  A fresh one calls the STT provider.
CheckBeforeSTT(r) ==
    /\ \/ /\ Stale(r)
          /\ Goto(r, "check1", "emit")
          /\ verdict' = [verdict EXCEPT ![r] = "cancelled"]
       \/ /\ ~Stale(r)
          /\ Goto(r, "check1", "stt")
          /\ UNCHANGED verdict
    /\ UNCHANGED <<answer, own, ctx, mapVars, outVars, cancelVars>>

\* Transcribe returns text, and the prompt is published.
Transcribed(r) ==
    /\ Goto(r, "stt", "check2")
    /\ UNCHANGED <<verdict, answer, own, ctx, mapVars, outVars, cancelVars>>

\* Transcribe returns nothing to say, or fails (its context's end included).
NotTranscribed(r) ==
    /\ Goto(r, "stt", "recheck")
    /\ \E v \in {"silence", "stt_failed"} : verdict' = [verdict EXCEPT ![r] = v]
    /\ UNCHANGED <<answer, own, ctx, mapVars, outVars, cancelVars>>

SlipNoIdleOnFailure(r) ==
    /\ Goto(r, "recheck", "emit")
    /\ UNCHANGED <<verdict, answer, own, ctx, mapVars, outVars, cancelVars>>

\* if !stale() { PublishState(idle) }: the test, then the publish.
Recheck(r) ==
    /\ Goto(r, "recheck", IF Stale(r) THEN "emit" ELSE "idle")
    /\ UNCHANGED <<verdict, answer, own, ctx, mapVars, outVars, cancelVars>>

\* A later test that finds the turn stale answers 409 and emits nothing.
DropStale(r) ==
    /\ \E from \in {"check2", "check3", "check4"} : Goto(r, from, "cleanup")
    /\ Stale(r)
    /\ answer' = [answer EXCEPT ![r] = "cancelled"]
    /\ UNCHANGED <<verdict, own, ctx, mapVars, outVars, cancelVars>>

\* The session is looked up or made (CreateSession names it after the device
\* and cannot fail for a device that was authorised).
CheckBeforeSession(r) ==
    /\ Goto(r, "check2", "check3")
    /\ ~Stale(r)
    /\ sessions' = sessions \cup {dev(r)}
    /\ UNCHANGED <<verdict, answer, own, ctx, gen, cancels, uploads, outVars, cancelVars>>

CheckBeforePrompt(r) ==
    /\ Goto(r, "check3", "prompt")
    /\ ~Stale(r)
    /\ UNCHANGED <<verdict, answer, own, ctx, mapVars, outVars, cancelVars>>

\* The call of hermes.Prompt: with a live context the agent gets the request.
SendPrompt(r) ==
    /\ ctx[r] = "live"
    /\ Goto(r, "prompt", "prompting")
    /\ prompted' = prompted \cup {r}
    /\ UNCHANGED <<verdict, answer, own, ctx, mapVars, state, emitted, responded, cancelVars>>

SlipWaitForReply(r) ==
    /\ Goto(r, "prompting", "check4")
    /\ verdict' = [verdict EXCEPT ![r] = "hermes_timeout"]
    /\ UNCHANGED <<answer, own, ctx, mapVars, outVars, cancelVars>>

\* Prompt fails: at once when the context is over, otherwise while it waits,
\* for a timeout, a cancel, an error status or an empty reply.
PromptFails(r) ==
    /\ \/ ctx[r] = "done" /\ Goto(r, "prompt", "check4")
       \/ Goto(r, "prompting", "check4")
    /\ verdict' = [verdict EXCEPT ![r] = "hermes_timeout"]
    /\ UNCHANGED <<answer, own, ctx, mapVars, outVars, cancelVars>>

PromptReplies(r) ==
    /\ Goto(r, "prompting", "check4")
    /\ verdict' = [verdict EXCEPT ![r] = "ok"]
    /\ UNCHANGED <<answer, own, ctx, mapVars, outVars, cancelVars>>

SlipRespondAnyway(r) ==
    /\ Goto(r, "check4", "respond")
    /\ ~Stale(r)
    /\ UNCHANGED <<verdict, answer, own, ctx, mapVars, outVars, cancelVars>>

\* The last test, after which nothing looks at the generation any more.
CheckAfterPrompt(r) ==
    /\ Goto(r, "check4", IF verdict[r] = "ok" THEN "respond" ELSE "idle")
    /\ ~Stale(r)
    /\ UNCHANGED <<verdict, answer, own, ctx, mapVars, outVars, cancelVars>>

PublishResponse(r) ==
    /\ Goto(r, "respond", "idle")
    /\ responded' = responded \cup {r}
    /\ UNCHANGED <<verdict, answer, own, ctx, mapVars, state, emitted, prompted, cancelVars>>

SlipForgetEmit(r) ==
    /\ Goto(r, "idle", "cleanup")
    /\ state' = [state EXCEPT ![dev(r)] = "idle"]
    /\ UNCHANGED <<verdict, answer, own, ctx, mapVars, emitted, prompted, responded, cancelVars>>

PublishIdle(r) ==
    /\ Goto(r, "idle", "emit")
    /\ state' = [state EXCEPT ![dev(r)] = "idle"]
    /\ UNCHANGED <<verdict, answer, own, ctx, mapVars, emitted, prompted, responded, cancelVars>>

\* emit(verdict) and the answer that goes with it.
Emit(r) ==
    /\ Goto(r, "emit", "cleanup")
    /\ emitted' = [emitted EXCEPT ![r] = Append(@, verdict[r])]
    /\ answer' = [answer EXCEPT ![r] = verdict[r]]
    /\ UNCHANGED <<verdict, own, ctx, mapVars, state, prompted, responded, cancelVars>>

SlipDeleteAlways(r) ==
    /\ Goto(r, "cleanup", "done")
    /\ cancels' = [cancels EXCEPT ![dev(r)] = None]
    /\ ctx' = [ctx EXCEPT ![r] = "done"]
    /\ UNCHANGED <<verdict, answer, own, gen, sessions, uploads, outVars, cancelVars>>

\* The deferred function: only the newest turn may delete the map's entry.
Cleanup(r) ==
    /\ Goto(r, "cleanup", "done")
    /\ cancels' = IF Stale(r) THEN cancels ELSE [cancels EXCEPT ![dev(r)] = None]
    /\ ctx' = [ctx EXCEPT ![r] = "done"]
    /\ UNCHANGED <<verdict, answer, own, gen, sessions, uploads, outVars, cancelVars>>

\* The deadline passes or the client hangs up.
CtxEnds(r) ==
    /\ pc[r] \in Registered \cup {"register"}
    /\ ctx[r] = "live"
    /\ ctx' = [ctx EXCEPT ![r] = "done"]
    /\ UNCHANGED <<pc, verdict, answer, own, mapVars, outVars, cancelVars>>

-----------------------------------------------------------------------------
(* handleCancel                                                            *)

CancelGoto(c, from, to) == cpc[c] = from /\ cpc' = [cpc EXCEPT ![c] = to]

\* Its critical section.  An overgrown map is emptied, and with cancels every
\* function in it is called: the turns of the other devices lose their
\* contexts, though not their generations.
CancelLock(c) ==
    LET d == dev(c)
        rest == [cancels EXCEPT ![d] = None]
        others == {r \in Requests : \E e \in Devices : rest[e] = r}
        overgrown == Cardinality(others) > MapLimit
    IN  /\ CancelGoto(c, "new", "drop")
        /\ victim' = [victim EXCEPT ![c] = cancels[d]]
        /\ gen' = [gen EXCEPT ![d] = @ + 1]
        /\ sessions' = IF Cardinality(sessions) > MapLimit THEN {} ELSE sessions
        /\ cancels' = IF overgrown THEN [e \in Devices |-> None] ELSE rest
        /\ ctx' = [r \in Requests |-> IF overgrown /\ r \in others THEN "done" ELSE ctx[r]]
        /\ UNCHANGED <<pc, verdict, answer, own, uploads, outVars>>

\* chunks.dropDevice.
CancelDropUploads(c) ==
    /\ CancelGoto(c, "drop", "stop")
    /\ uploads' = {r \in uploads : dev(r) # dev(c)}
    /\ UNCHANGED <<turnVars, gen, cancels, sessions, outVars, victim>>

SlipAckOnly(c) ==
    /\ CancelGoto(c, "stop", "acked")
    /\ UNCHANGED <<turnVars, mapVars, outVars, victim>>

\* cancel(), the no-op hermes.Cancel, and the answer "cancelled".
CancelStop(c) ==
    /\ CancelGoto(c, "stop", "acked")
    /\ ctx' = [r \in Requests |-> IF r = victim[c] THEN "done" ELSE ctx[r]]
    /\ UNCHANGED <<pc, verdict, answer, own, mapVars, outVars, victim>>

CancelUnauthorized(c) ==
    /\ CancelGoto(c, "new", "refused")
    /\ UNCHANGED <<turnVars, mapVars, outVars, victim>>

-----------------------------------------------------------------------------
\* A registered turn's own steps.
TurnStep(r) ==
    \/ Register(r) \/ CheckBeforeSTT(r) \/ Transcribed(r) \/ NotTranscribed(r)
    \/ Recheck(r) \/ DropStale(r) \/ CheckBeforeSession(r) \/ CheckBeforePrompt(r)
    \/ SendPrompt(r) \/ PromptFails(r) \/ PromptReplies(r) \/ CheckAfterPrompt(r)
    \/ PublishResponse(r) \/ PublishIdle(r) \/ Emit(r) \/ Cleanup(r)

\* What the clients and the clock do to a request.
ClientStep(r) ==
    \/ StartUpload(r) \/ SweepUpload(r) \/ Arrive(r) \/ NothingSaid(r) \/ Refuse(r)
    \/ CtxEnds(r)

CancelStep(c) == CancelDropUploads(c) \/ CancelStop(c)

Next ==
    \/ \E r \in Requests : TurnStep(r) \/ ClientStep(r)
    \/ \E c \in Cancels : CancelLock(c) \/ CancelUnauthorized(c) \/ CancelStep(c)

\* The runtime schedules every goroutine; the mutex is never held across a
\* call; and the two calls out end, because their context has a deadline
\* (STT_TIMEOUT + HERMES_TIMEOUT).  Clients owe nothing.
Fairness ==
    /\ \A r \in Requests : WF_vars(TurnStep(r))
    /\ \A c \in Cancels : WF_vars(CancelStep(c))

Spec == Init /\ [][Next]_vars /\ Fairness
-----------------------------------------------------------------------------
TypeOK ==
    /\ pc \in [Requests -> PC]
    /\ verdict \in [Requests -> Verdicts \cup {"none"}]
    /\ answer \in [Requests -> Answers]
    /\ own \in [Requests -> Nat]
    /\ ctx \in [Requests -> {"live", "done"}]
    /\ gen \in [Devices -> Nat]
    /\ cancels \in [Devices -> Requests \cup {None}]
    /\ sessions \subseteq Devices
    /\ uploads \subseteq Chunked
    /\ state \in [Devices -> {"idle", "uploading", "working"}]
    /\ emitted \in [Requests -> Seq(Verdicts)]
    /\ prompted \subseteq Requests
    /\ responded \subseteq Requests
    /\ cpc \in [Cancels -> {"new", "drop", "stop", "acked", "refused"}]
    /\ victim \in [Cancels -> Requests \cup {None}]

\* A cancel finds the turn it is meant for: the newest turn of a device, while
\* its context is live, is the one whose function is stored, and what is stored
\* is never the function of a turn that ended or was overtaken.  The clean-up
\* of an older turn must not take the entry of a newer one with it.
CancelMapSound ==
    /\ \A r \in Requests :
        pc[r] \in Registered /\ ~Stale(r) /\ ctx[r] = "live" => cancels[dev(r)] = r
    /\ \A d \in Devices : cancels[d] # None =>
        LET r == cancels[d] IN dev(r) = d /\ pc[r] \in Registered /\ ~Stale(r)

\* No turn publishes two envelopes, and one that was never overtaken publishes
\* one, which agrees with the answer the device got.
EnvelopeOnce ==
    \A r \in Requests :
        /\ Len(emitted[r]) <= 1
        /\ pc[r] = "done" /\ own[r] # 0 /\ ~Stale(r) => emitted[r] = <<answer[r]>>

\* The retained state does not stick at "working": when the newest turn of a
\* device has ended without being cancelled, and no other turn is starting, the
\* state is not "working", whatever older turns are still doing.
SettledNotWorking ==
    \A r \in Requests :
        pc[r] = "done" /\ own[r] # 0 /\ ~Stale(r) =>
            \/ state[dev(r)] # "working"
            \/ \E s \in Requests : dev(s) = dev(r) /\ pc[s] = "register"

\* Once a cancel is acknowledged, the turn it took hold of asks the agent
\* nothing any more, even one that had just found itself fresh.
VictimNeverPrompted ==
    [][\A c \in Cancels : cpc[c] = "acked" /\ victim[c] \in Requests \ prompted
            => victim[c] \notin prompted']_vars

\* Seen from outside a turn is a VoiceTurn, whatever overtakes or cancels it:
\* it asks the agent at most once and not after its context has ended, and its
\* envelope comes last, agrees with the answer and tells how far it got.
Outside == INSTANCE VoiceTurn WITH stopped <- {r \in Requests : ctx[r] = "done"}

IsVoiceTurn == Outside!Spec

\* Every request that started a turn gets its answer and leaves the handler.
EveryTurnEnds == \A r \in Requests : pc[r] = "register" ~> pc[r] = "done"

-----------------------------------------------------------------------------
(* What the documents and comments say, and the code does not do: TLC finds *)
(* a counterexample to each when it is added to MCRelayTurn.cfg.            *)

\* Of docs/architecture.md: "Every failure emits a turn with its verdict".
EveryTurnEmits ==
    \A r \in Requests : pc[r] = "done" /\ own[r] # 0 => Len(emitted[r]) = 1

\* Of the comment on hermes.Client.Cancel: "Callers already drop stale results
\* locally via the generation guard".  After the acknowledgement no reply of
\* the cancelled turn is published.
CancelledReplyDropped ==
    [][\A c \in Cancels : cpc[c] = "acked" /\ victim[c] \in Requests \ responded
            => victim[c] \notin responded']_vars
=============================================================================
