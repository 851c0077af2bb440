------------------------------ MODULE VoiceTurn ------------------------------
(***************************************************************************)
(* What the relay promises of a voice turn to those who see it from        *)
(* outside: the device that waits for its answer, the agent that is        *)
(* prompted, and the readers of the response and turn topics.  A turn asks *)
(* the agent at most once, publishes a reply only of what it asked, and    *)
(* publishes its envelope with its answer, after everything else and true  *)
(* to it.                                                                  *)
(***************************************************************************)
EXTENDS Sequences

CONSTANT Requests

VARIABLES
    stopped,    \* the turns whose time is up
    prompted,   \* those whose prompt went to the agent
    responded,  \* those whose reply was published
    emitted,    \* the envelopes published for a request
    answer      \* what the device was answered

vars == <<stopped, prompted, responded, emitted, answer>>

Init ==
    /\ stopped = {} /\ prompted = {} /\ responded = {}
    /\ emitted = [r \in Requests |-> <<>>]
    /\ answer = [r \in Requests |-> "none"]

\* The deadline, the client or a cancel ends turns, one or several at once.
Stop ==
    /\ stopped \subseteq stopped' /\ stopped' \subseteq Requests
    /\ UNCHANGED <<prompted, responded, emitted, answer>>

\* The agent is asked, once, and never for a turn whose time is up.
Prompt(r) ==
    /\ r \notin prompted \cup stopped /\ answer[r] = "none"
    /\ prompted' = prompted \cup {r}
    /\ UNCHANGED <<stopped, responded, emitted, answer>>

\* Its reply is published, though the turn may be stopped by now.
Respond(r) ==
    /\ r \in prompted \ responded /\ answer[r] = "none"
    /\ responded' = responded \cup {r}
    /\ UNCHANGED <<stopped, prompted, emitted, answer>>

\* The verdicts that are true of a turn as far as it got.
Truthful(r) ==
    IF r \in responded THEN {"ok"}
    ELSE IF r \in prompted THEN {"hermes_timeout"}
    ELSE {"silence", "stt_failed", "cancelled"}
            \cup (IF r \in stopped THEN {"hermes_timeout"} ELSE {})

\* The device is answered what the envelope says.
AnswerWithEnvelope(r) ==
    /\ answer[r] = "none"
    /\ \E v \in Truthful(r) :
        /\ answer' = [answer EXCEPT ![r] = v]
        /\ emitted' = [emitted EXCEPT ![r] = <<v>>]
    /\ UNCHANGED <<stopped, prompted, responded>>

\* Without an envelope end the requests that never became a turn, and turns
\* found overtaken or cancelled; nothing of these is published.
AnswerAlone(r) ==
    /\ answer[r] = "none" /\ r \notin responded
    /\ \/ \E a \in {"refused", "silence"} :
            r \notin prompted /\ answer' = [answer EXCEPT ![r] = a]
       \/ answer' = [answer EXCEPT ![r] = "cancelled"]
    /\ UNCHANGED <<stopped, prompted, responded, emitted>>

Next ==
    \/ Stop
    \/ \E r \in Requests :
        Prompt(r) \/ Respond(r) \/ AnswerWithEnvelope(r) \/ AnswerAlone(r)

Spec == Init /\ [][Next]_vars

-----------------------------------------------------------------------------
\* Once a device has its answer, the answer is "ok" exactly if the reply was
\* published, and an envelope, if there is one, says what the answer says.
AnswerTellsAll ==
    \A r \in Requests :
        /\ answer[r] = "ok" => r \in responded
        /\ r \in responded => answer[r] \in {"none", "ok"}
        /\ emitted[r] \in {<<>>, <<answer[r]>>}
        /\ answer[r] = "none" => emitted[r] = <<>>
=============================================================================
