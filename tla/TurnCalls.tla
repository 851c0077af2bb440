----------------------------- MODULE TurnCalls ------------------------------
(***************************************************************************)
(* The two calls a voice turn makes out of the relay: the transcription    *)
(* (relay/internal/stt) and the prompt to the agent                        *)
(* (relay/internal/hermes), between the tests of transcribeAndPrompt.      *)
(*                                                                         *)
(* RelayTurn takes each call as one step with a few outcomes.  Here is how *)
(* the outcomes come about: the driver that stt.New picks, the messages of *)
(* a streaming transcription one by one, and the time they use up of the   *)
(* one context, whose deadline is STT_TIMEOUT_S + HERMES_TIMEOUT_S.  Places *)
(* outside the transcription have the names RelayTurn gives them, and      *)
(* every step here is to be one that RelayTurn allows (TurnStepsOnly).     *)
(*                                                                         *)
(* Time is a number of units left and spent; it passes while a call waits. *)
(***************************************************************************)
EXTENDS Integers, Sequences, FiniteSets

CONSTANTS
    Providers,      \* the values of STT_PROVIDER
    SttTimeout,     \* cfg.STTTimeout, the limit of an http.Client
    HermesTimeout,  \* cfg.HermesTimeout
    StreamLimit,    \* the 10 s of the streaming driver's dial and of its loop
    MaxLen,         \* the longest transcript; 0 is a blank one
    MaxHeard        \* bound: messages in one stream

ASSUME TimeAssumption ==
    SttTimeout \in Nat /\ HermesTimeout \in Nat \ {0} /\ StreamLimit \in Nat \ {0}
ASSUME LenAssumption == MaxLen \in Nat
ASSUME ProviderAssumption ==
    Providers \subseteq {"stub", "deepgram", "whisper", "deepgram-stream"}

VARIABLES
    provider,   \* cfg.STTProvider
    place,      \* where the turn is
    verdict,    \* turn.Verdict
    left,       \* units until the deadline of the turn's context
    gone,       \* the client hung up or the turn was cancelled
    spent,      \* units since the call, or the reading loop, began
    heard,      \* history: the messages read from the stream
    best,       \* the index in heard of the transcript kept, 0 for none
    bestFinal,  \* whether it is a final one
    session,    \* whether Server.sessions has the device
    asked       \* history: the agent got the prompt

callVars == <<place, verdict, spent, heard, best, bestFinal>>
ctxVars == <<left, gone>>
vars == <<provider, callVars, ctxVars, session, asked>>

\* A message of the stream: a Results message with the length of its trimmed
\* transcript, is_final, and whether it says that nothing follows
\* (from_finalize, or is_final and speech_final); or one without a result.
Message == [results : {TRUE}, len : 0 .. MaxLen, final : BOOLEAN, last : BOOLEAN]
           \cup [results : {FALSE}, len : {0}, final : {FALSE}, last : {FALSE}]

live == left > 0 /\ ~gone

InStt == {"stt", "asking", "dial", "write", "read"}
Waiting == {"asking", "dial", "write", "read", "prompting"}
Places == InStt \cup {"check2", "recheck", "check3", "prompt", "prompting", "check4"}

-----------------------------------------------------------------------------
Init ==
    /\ provider \in Providers
    /\ place = "stt"
    /\ verdict = "none"
    /\ left = SttTimeout + HermesTimeout
    /\ gone = FALSE
    /\ spent = 0
    /\ heard = <<>>
    /\ best = 0
    /\ bestFinal = FALSE
    /\ session \in BOOLEAN
    /\ asked = FALSE

\* The ways a transcription ends.
Text == place' = "check2" /\ UNCHANGED verdict
Silence == place' = "recheck" /\ verdict' = "silence"
SttFailed == place' = "recheck" /\ verdict' = "stt_failed"

\* stt.New, and the driver's first call.  The stub answers at once, and always
\* with text, because a turn without PCM does not get here.
Driver(p) == IF p = "deepgram-stream" THEN "dial" ELSE "asking"
Call ==
    /\ place = "stt"
    /\ IF provider = "stub" THEN Text ELSE place' = Driver(provider) /\ UNCHANGED verdict
    /\ UNCHANGED <<provider, spent, heard, best, bestFinal, ctxVars, session, asked>>

\* deepgram and whisper: an answer of status 200 that can be decoded.
HttpAnswer ==
    /\ place = "asking" /\ live
    /\ Text \/ Silence
    /\ UNCHANGED <<provider, spent, heard, best, bestFinal, ctxVars, session, asked>>

Dialled ==
    /\ place = "dial" /\ live
    /\ place' = "write"
    /\ UNCHANGED <<provider, verdict, spent, heard, best, bestFinal, ctxVars, session, asked>>

\* The PCM and the Finalize message are written; the loop's clock starts.
Written ==
    /\ place = "write" /\ live
    /\ place' = "read"
    /\ spent' = 0
    /\ UNCHANGED <<provider, verdict, heard, best, bestFinal, ctxVars, session, asked>>

SlipLongerWins(m) ==
    \/ m.final /\ ~bestFinal
    \/ m.len > (IF best = 0 THEN 0 ELSE heard[best].len)

\* Whether message m replaces the transcript kept so far.
Improves(m) ==
    \/ m.final /\ ~bestFinal
    \/ ~bestFinal /\ m.len > (IF best = 0 THEN 0 ELSE heard[best].len)

\* What Transcribe returns when its loop ends, with transcript b kept of h.
StreamEnds(h, b) ==
    CASE b # 0 -> Text
      [] b = 0 /\ (\E i \in DOMAIN h : h[i].results) -> Silence
      [] OTHER -> SttFailed

\* One round of the loop.  Only a Results message with text is looked at, also
\* for whether the loop is over; the clock is looked at between messages.
Hear(m) ==
    LET says == m.results /\ m.len > 0
        takes == says /\ Improves(m)
    IN  /\ place = "read" /\ live /\ Len(heard) < MaxHeard
        /\ heard' = Append(heard, m)
        /\ best' = IF takes THEN Len(heard) + 1 ELSE best
        /\ bestFinal' = (bestFinal \/ (takes /\ m.final))
        /\ IF (says /\ m.last) \/ spent >= StreamLimit
           THEN StreamEnds(heard', best')
           ELSE UNCHANGED <<place, verdict>>
        /\ UNCHANGED <<provider, spent, ctxVars, session, asked>>

\* CreateSession names the conversation after the device when there is none.
CheckBeforeSession ==
    /\ place = "check2"
    /\ place' = "check3"
    /\ session' = TRUE
    /\ UNCHANGED <<provider, verdict, spent, heard, best, bestFinal, ctxVars, asked>>

CheckBeforePrompt ==
    /\ place = "check3"
    /\ place' = "prompt"
    /\ UNCHANGED <<provider, verdict, spent, heard, best, bestFinal, ctxVars, session, asked>>

SlipSendAnyway ==
    /\ place = "prompt"
    /\ place' = "prompting"
    /\ asked' = TRUE
    /\ UNCHANGED <<provider, verdict, spent, heard, best, bestFinal, ctxVars, session>>

\* http.Client.Do looks at the context first.
Send ==
    /\ place = "prompt" /\ live
    /\ place' = "prompting"
    /\ asked' = TRUE
    /\ UNCHANGED <<provider, verdict, spent, heard, best, bestFinal, ctxVars, session>>

\* extractReply finds a reply when some message item of the output has text,
\* of its own or in its content.
Item == [message : BOOLEAN, text : BOOLEAN, content : BOOLEAN]
Outputs == {<<>>} \cup {<<x>> : x \in Item} \cup {<<x, y>> : x, y \in Item}
HasReply(out) == \E i \in DOMAIN out : out[i].message /\ (out[i].text \/ out[i].content)

\* An answer of status 200 that can be decoded.
Reply(out) ==
    /\ place = "prompting" /\ live
    /\ place' = "check4"
    /\ verdict' = IF HasReply(out) THEN "ok" ELSE "hermes_timeout"
    /\ UNCHANGED <<provider, spent, heard, best, bestFinal, ctxVars, session, asked>>

SlipNoSttLimit == ~live \/ (place = "dial" /\ spent >= StreamLimit)

SlipWaitForServer ==
    \/ ~live /\ place # "read"
    \/ place = "asking" /\ spent >= SttTimeout
    \/ place = "dial" /\ spent >= StreamLimit

\* A call gives up by itself: every one with the context, those made with a
\* client of STT_TIMEOUT_S or a dial of 10 s also after that.  A blocked read
\* and the prompt have no limit of their own.
TimeUp ==
    \/ ~live
    \/ place = "asking" /\ spent >= SttTimeout
    \/ place = "dial" /\ spent >= StreamLimit

\* A call fails: its time is up, the transport breaks, the status is not 200,
\* or the answer cannot be decoded.  A stream that breaks keeps what it heard.
Fails ==
    /\ \/ place \in {"asking", "dial", "write"} /\ SttFailed
       \/ place = "read" /\ StreamEnds(heard, best)
       \/ /\ place = "prompting" \/ (place = "prompt" /\ ~live)
          /\ place' = "check4" /\ verdict' = "hermes_timeout"
    /\ UNCHANGED <<provider, spent, heard, best, bestFinal, ctxVars, session, asked>>

\* A unit of time passes in a call that still waits.
Tick ==
    /\ place \in Waiting /\ live /\ ~TimeUp
    /\ left' = left - 1
    /\ spent' = spent + 1
    /\ UNCHANGED <<provider, place, verdict, heard, best, bestFinal, gone, session, asked>>

\* The device hangs up, or the turn is cancelled.
HangUp ==
    /\ place \notin {"recheck", "check4"} /\ ~gone
    /\ gone' = TRUE
    /\ UNCHANGED <<provider, callVars, left, session, asked>>

-----------------------------------------------------------------------------
OwnStep == Call \/ CheckBeforeSession \/ CheckBeforePrompt \/ Send
ServerStep ==
    \/ HttpAnswer \/ Dialled \/ Written
    \/ \E m \in Message : Hear(m)
    \/ \E out \in Outputs : Reply(out)

Next == OwnStep \/ ServerStep \/ Fails \/ Tick \/ HangUp

\* The goroutine runs, time passes, and a call whose time is up returns.
\* Nothing is owed by the services.
Fairness == WF_vars(OwnStep) /\ WF_vars(TimeUp /\ Fails) /\ WF_vars(Tick)

Spec == Init /\ [][Next]_vars /\ Fairness

-----------------------------------------------------------------------------
TypeOK ==
    /\ provider \in Providers
    /\ place \in Places
    /\ verdict \in {"none", "silence", "stt_failed", "hermes_timeout", "ok"}
    /\ left \in Int /\ spent \in Int
    /\ gone \in BOOLEAN /\ session \in BOOLEAN /\ asked \in BOOLEAN
    /\ heard \in Seq(Message)
    /\ best \in 0 .. Len(heard)
    /\ bestFinal \in BOOLEAN

\* Of everything heard, in whatever order finals, interims and blanks come and
\* wherever the stream breaks, the streaming driver keeps a final with text if
\* there was one, whatever longer interim comes before or after it, and without
\* one the first of the longest interims; it reports silence only when nothing
\* with text was heard.  Which of several finals it is to be is left open:
\* deepgram_stream.go:23 says the last, its line 104 keeps the first.
StreamPicks ==
    LET spoken == {i \in DOMAIN heard : heard[i].results /\ heard[i].len > 0}
        finals == {i \in spoken : heard[i].final}
    IN  /\ best = 0 <=> spoken = {}
        /\ finals # {} => best \in finals
        /\ best # 0 /\ finals = {} =>
            \A i \in spoken : heard[i].len < heard[best].len
                              \/ (heard[i].len = heard[best].len /\ best <= i)
        /\ provider = "deepgram-stream" /\ verdict = "silence" => spoken = {}

\* The rule that deepgram_stream.go:23 gives, "last message with is_final=true
\* wins", of the finals with text.  The code keeps the first of them.
LastFinalWins ==
    \A i \in DOMAIN heard :
        heard[i].results /\ heard[i].len > 0 /\ heard[i].final => i <= best

\* However slow the transcription was, the agent is asked with its whole
\* HERMES_TIMEOUT_S left, although both calls share one deadline; except for
\* the streaming driver, which no STT_TIMEOUT_S bounds.
AgentHasItsTime ==
    place \in {"check2", "check3", "prompt"} /\ provider # "deepgram-stream"
        => left >= HermesTimeout

\* Whatever the services do or leave undone, the turn comes to an end.
CallsEnd == <>(place \in {"recheck", "check4"})

\* The turn as RelayTurn sees it: registered, newest of its device, and
\* somewhere between its calls.
RT == INSTANCE RelayTurn WITH
    Devices <- {"d"}, Requests <- {"r"}, Chunked <- {}, Cancels <- {},
    DeviceOf <- [x \in {"r"} |-> "d"], MapLimit <- 1000, None <- "none",
    pc <- [x \in {"r"} |-> IF place \in InStt THEN "stt" ELSE place],
    verdict <- [x \in {"r"} |-> verdict],
    answer <- [x \in {"r"} |-> "none"],
    own <- [x \in {"r"} |-> 1],
    ctx <- [x \in {"r"} |-> IF live THEN "live" ELSE "done"],
    gen <- [x \in {"d"} |-> 1],
    cancels <- [x \in {"d"} |-> "r"],
    sessions <- IF session THEN {"d"} ELSE {},
    uploads <- {},
    state <- [x \in {"d"} |-> "working"],
    emitted <- [x \in {"r"} |-> <<>>],
    prompted <- IF asked THEN {"r"} ELSE {},
    responded <- {},
    cpc <- [x \in {} |-> "new"],
    victim <- [x \in {} |-> "none"]

\* The calls do to the turn only what RelayTurn says they do: no prompt with
\* an ended context, no way from a failed or silent transcription to the agent,
\* no verdict but the four, whatever the services answer and whenever time runs
\* out.
TurnStepsOnly == [][RT!Next]_(RT!vars)
=============================================================================
