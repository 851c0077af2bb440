--------------------------- MODULE TurnCallsProofs ---------------------------
(***************************************************************************)
(* What holds of TurnCalls for every limit of the calls, every length of a  *)
(* stream and every transcript.                                            *)
(***************************************************************************)
EXTENDS TurnCalls, TLAPS

USE TimeAssumption, LenAssumption, ProviderAssumption
    DEF TimeAssumption, LenAssumption, ProviderAssumption

-----------------------------------------------------------------------------
(* The type of the state.                                                  *)

LEMMA InitType == Init => TypeOK
<1> SUFFICES ASSUME Init PROVE TypeOK
  OBVIOUS
<1>1. heard \in Seq(Message) /\ best \in 0 .. Len(heard)
  BY DEF Init
<1>2. place \in Places /\ left \in Int /\ spent \in Int
  BY DEF Init, Places, InStt
<1>3. QED  BY <1>1, <1>2 DEF Init, TypeOK

\* A message heard keeps the types.
LEMMA HearType ==
  ASSUME TypeOK, NEW m \in Message, Hear(m)
  PROVE  TypeOK'
<1>1. heard' = Append(heard, m) /\ heard \in Seq(Message)
  BY DEF Hear, TypeOK
<1>2. heard' \in Seq(Message) /\ Len(heard') = Len(heard) + 1 /\ Len(heard) \in Nat
  BY <1>1
<1>3. best' \in 0 .. Len(heard') /\ bestFinal' \in BOOLEAN
  <2>1. best \in 0 .. Len(heard) /\ bestFinal \in BOOLEAN
    BY DEF TypeOK
  <2>2. best' = Len(heard) + 1 \/ best' = best
    BY DEF Hear
  <2>3. bestFinal' \in BOOLEAN
    BY DEF Hear
  <2>4. QED  BY <1>2, <2>1, <2>2, <2>3
<1>4. /\ place' \in {"check2", "recheck"} \cup {place}
      /\ verdict' \in {"silence", "stt_failed"} \cup {verdict}
  BY DEF Hear, StreamEnds, Text, Silence, SttFailed
<1>5. UNCHANGED <<provider, spent, left, gone, session, asked>>
  BY DEF Hear, ctxVars
<1>6. QED  BY <1>2, <1>3, <1>4, <1>5 DEF TypeOK, Places, InStt

LEMMA NextType == TypeOK /\ [Next]_vars => TypeOK'
<1> SUFFICES ASSUME TypeOK, [Next]_vars PROVE TypeOK'
  OBVIOUS
<1> USE DEF TypeOK, Places, InStt, callVars, ctxVars
<1>1. CASE Call  BY <1>1 DEF Call, Driver, Text
<1>2. CASE CheckBeforeSession  BY <1>2 DEF CheckBeforeSession
<1>3. CASE CheckBeforePrompt  BY <1>3 DEF CheckBeforePrompt
<1>4. CASE Send  BY <1>4 DEF Send
<1>5. CASE HttpAnswer  BY <1>5 DEF HttpAnswer, Text, Silence
<1>6. CASE Dialled  BY <1>6 DEF Dialled
<1>7. CASE Written  BY <1>7 DEF Written
<1>8. ASSUME NEW m \in Message, Hear(m) PROVE TypeOK'
  BY <1>8, HearType
<1>9. ASSUME NEW out \in Outputs, Reply(out) PROVE TypeOK'
  BY <1>9 DEF Reply
<1>10. CASE Fails  BY <1>10 DEF Fails, SttFailed, StreamEnds, Text, Silence
<1>11. CASE Tick  BY <1>11 DEF Tick
<1>12. CASE HangUp  BY <1>12 DEF HangUp
<1>13. CASE UNCHANGED vars  BY <1>13 DEF vars
<1>14. QED
  BY <1>1, <1>2, <1>3, <1>4, <1>5, <1>6, <1>7, <1>8, <1>9, <1>10, <1>11, <1>12, <1>13
     DEF Next, OwnStep, ServerStep

-----------------------------------------------------------------------------
(* The time left for the agent.                                            *)

\* Where each driver can be, and what an HTTP driver has used up there.
TimeInv ==
    /\ provider = "deepgram-stream" => place # "asking"
    /\ provider # "deepgram-stream" => place \notin {"dial", "write", "read"}
    /\ place = "stt" => left = SttTimeout + HermesTimeout /\ spent = 0
    /\ place = "asking" => spent <= SttTimeout /\ left + spent = SttTimeout + HermesTimeout
    /\ AgentHasItsTime

\* Time spent and time left add up through every step.
LEMMA NextTime == TypeOK /\ TimeInv /\ [Next]_vars => TimeInv'
<1> SUFFICES ASSUME TypeOK, TimeInv, [Next]_vars PROVE TimeInv'
  OBVIOUS
<1> USE DEF TypeOK, TimeInv, AgentHasItsTime, callVars, ctxVars
<1>1. CASE Call  BY <1>1 DEF Call, Driver, Text
<1>2. CASE CheckBeforeSession  BY <1>2 DEF CheckBeforeSession
<1>3. CASE CheckBeforePrompt  BY <1>3 DEF CheckBeforePrompt
<1>4. CASE Send  BY <1>4 DEF Send
<1>5. CASE HttpAnswer  BY <1>5 DEF HttpAnswer, Text, Silence
<1>6. CASE Dialled  BY <1>6 DEF Dialled
<1>7. CASE Written  BY <1>7 DEF Written
<1>8. ASSUME NEW m \in Message, Hear(m) PROVE TimeInv'
  <2>1. place = "read" /\ place' \in {"check2", "recheck", "read"}
    BY <1>8 DEF Hear, StreamEnds, Text, Silence, SttFailed
  <2>2. UNCHANGED <<provider, spent, left>>
    BY <1>8 DEF Hear
  <2>3. QED  BY <2>1, <2>2
<1>9. ASSUME NEW out \in Outputs, Reply(out) PROVE TimeInv'
  BY <1>9 DEF Reply
<1>10. CASE Fails  BY <1>10 DEF Fails, SttFailed, StreamEnds, Text, Silence
<1>11. CASE Tick  BY <1>11 DEF Tick, TimeUp, Waiting
<1>12. CASE HangUp  BY <1>12 DEF HangUp
<1>13. CASE UNCHANGED vars  BY <1>13 DEF vars
<1>14. QED
  BY <1>1, <1>2, <1>3, <1>4, <1>5, <1>6, <1>7, <1>8, <1>9, <1>10, <1>11, <1>12, <1>13
     DEF Next, OwnStep, ServerStep

\* The variables have their types in every state.
THEOREM TypeCorrect == Spec => []TypeOK
BY InitType, NextType, PTL DEF Spec

\* One deadline for both calls is enough: with any timeouts, the HTTP drivers
\* and the stub leave the agent all of its own.
THEOREM EnoughForTheAgent == Spec => []AgentHasItsTime
<1>1. Init => TimeInv
  BY DEF Init, TimeInv, AgentHasItsTime
<1>2. TimeInv => AgentHasItsTime
  BY DEF TimeInv
<1>3. QED  BY <1>1, <1>2, InitType, NextType, NextTime, PTL DEF Spec

-----------------------------------------------------------------------------
(* What the streaming driver keeps.                                        *)

Says(m) == m.results /\ m.len > 0

\* What best and bestFinal say of what was heard.
HeardInv ==
    /\ best = 0 => \A i \in DOMAIN heard : ~Says(heard[i])
    /\ best # 0 => Says(heard[best])
    /\ bestFinal => /\ best # 0 /\ heard[best].final
                    /\ \A i \in DOMAIN heard : Says(heard[i]) /\ heard[i].final => best <= i
    /\ ~bestFinal => \A i \in DOMAIN heard : Says(heard[i]) =>
                        /\ ~heard[i].final
                        /\ \/ heard[i].len < heard[best].len
                           \/ heard[i].len = heard[best].len /\ best <= i

\* A verdict of silence comes from an end with nothing kept.
PickInv ==
    /\ HeardInv
    /\ provider = "deepgram-stream" /\ verdict = "silence" => place = "recheck" /\ best = 0

LEMMA MessageType ==
  ASSUME NEW x \in Message
  PROVE  x.len \in Nat /\ x.final \in BOOLEAN /\ x.results \in BOOLEAN
<1>1. CASE x \in [results : {TRUE}, len : 0 .. MaxLen, final : BOOLEAN, last : BOOLEAN]
  <2>1. x.len \in Nat  BY <1>1
  <2>2. x.final \in BOOLEAN  BY <1>1
  <2>3. x.results \in BOOLEAN  BY <1>1
  <2>4. QED  BY <2>1, <2>2, <2>3
<1>2. CASE x \in [results : {FALSE}, len : {0}, final : {FALSE}, last : {FALSE}]
  <2>1. x.len \in Nat  BY <1>2
  <2>2. x.final \in BOOLEAN  BY <1>2
  <2>3. x.results \in BOOLEAN  BY <1>2
  <2>4. QED  BY <2>1, <2>2, <2>3
<1>3. QED  BY <1>1, <1>2 DEF Message

\* One more message, and the transcript kept is still the right one.
LEMMA HearPick ==
  ASSUME TypeOK, HeardInv, NEW m \in Message, Hear(m)
  PROVE  HeardInv'
<1> DEFINE n == Len(heard) + 1
           takes == Says(m) /\ Improves(m)
<1>1. /\ heard \in Seq(Message) /\ best \in 0 .. Len(heard) /\ bestFinal \in BOOLEAN
      /\ Len(heard) \in Nat
  BY DEF TypeOK
<1>2. /\ heard' = Append(heard, m)
      /\ takes => best' = n /\ bestFinal' = (bestFinal \/ m.final)
      /\ ~takes => best' = best /\ bestFinal' = bestFinal
  BY <1>1 DEF Hear, Says
<1>3. /\ Len(heard') = n /\ DOMAIN heard' = 1 .. n /\ DOMAIN heard = 1 .. Len(heard)
      /\ heard'[n] = m
      /\ \A i \in DOMAIN heard : heard'[i] = heard[i]
  BY <1>1, <1>2
<1>4. \A i \in DOMAIN heard' : i = n \/ (i \in DOMAIN heard /\ i < n /\ heard'[i] = heard[i])
  BY <1>1, <1>3
<1>5. /\ m.len \in Nat /\ m.final \in BOOLEAN /\ m.results \in BOOLEAN
      /\ \A i \in DOMAIN heard : heard[i].len \in Nat /\ heard[i].final \in BOOLEAN
  <2>1. \A x \in Message : x.len \in Nat /\ x.final \in BOOLEAN /\ x.results \in BOOLEAN
    BY MessageType
  <2>2. \A i \in DOMAIN heard : heard[i] \in Message
    BY <1>1
  <2>3. QED  BY <2>1, <2>2
<1>6. best # 0 => best \in DOMAIN heard /\ heard'[best] = heard[best] /\ best < n
  BY <1>1, <1>3
<1>7. Improves(m) <=> /\ ~bestFinal
                      /\ m.final \/ m.len > (IF best = 0 THEN 0 ELSE heard[best].len)
  BY DEF Improves
<1> HIDE DEF n
<1>8. CASE takes
  <2>1. ~bestFinal /\ Says(m) /\ best' = n /\ n # 0
    BY <1>1, <1>2, <1>7, <1>8 DEF n
  <2>2. (bestFinal' <=> m.final)
    BY <1>2, <1>8, <2>1
  <2>3. \A i \in DOMAIN heard : Says(heard[i]) => ~heard[i].final /\ best # 0
    BY <2>1 DEF HeardInv
  <2>4. ASSUME NEW i \in DOMAIN heard, Says(heard[i]), ~m.final PROVE heard[i].len < m.len
    <3>1. best # 0 /\ heard[i].len <= heard[best].len
      BY <1>5, <1>6, <2>1, <2>3, <2>4 DEF HeardInv
    <3>2. m.len > heard[best].len
      BY <1>7, <1>8, <2>4, <3>1
    <3>3. QED  BY <1>5, <1>6, <3>1, <3>2
  <2>5. n \in Nat
    BY <1>1 DEF n
  <2>6. QED
    BY <1>3, <1>4, <1>5, <2>1, <2>2, <2>3, <2>4, <2>5 DEF HeardInv, Says
<1>9. CASE ~takes
  <2>1. best' = best /\ bestFinal' = bestFinal
    BY <1>2, <1>9
  <2>2. CASE ~Says(m)
    BY <1>3, <1>4, <1>6, <2>1, <2>2 DEF HeardInv, Says
  <2>3. CASE Says(m) /\ bestFinal
    BY <1>3, <1>4, <1>6, <2>1, <2>3 DEF HeardInv, Says
  <2>4. CASE Says(m) /\ ~bestFinal
    <3>1. ~m.final /\ best # 0 /\ m.len <= heard[best].len
      BY <1>5, <1>6, <1>7, <1>9, <2>4 DEF Says
    <3>2. QED
      BY <1>3, <1>4, <1>5, <1>6, <2>1, <2>4, <3>1 DEF HeardInv, Says
  <2>5. QED  BY <1>1, <2>2, <2>3, <2>4
<1>10. QED  BY <1>8, <1>9

LEMMA NextPick == TypeOK /\ TimeInv /\ PickInv /\ [Next]_vars => PickInv'
<1> SUFFICES ASSUME TypeOK, TimeInv, PickInv, [Next]_vars PROVE PickInv'
  OBVIOUS
<1>1. ASSUME NEW m \in Message, Hear(m) PROVE PickInv'
  <2>1. HeardInv'
    BY <1>1, HearPick DEF PickInv
  <2>2. /\ place = "read" /\ provider' = provider
        /\ \/ UNCHANGED <<place, verdict>>
           \/ StreamEnds(heard', best')
    BY <1>1 DEF Hear
  <2>3. verdict = "silence" => provider # "deepgram-stream"
    BY <2>2 DEF PickInv
  <2>4. StreamEnds(heard', best') /\ verdict' = "silence" /\ verdict # "silence"
            => place' = "recheck" /\ best' = 0
    <3>1. CASE best' # 0  BY <3>1 DEF StreamEnds, Text
    <3>2. CASE best' = 0  BY <3>2 DEF StreamEnds, Silence, SttFailed
    <3>3. QED  BY <3>1, <3>2
  <2>5. QED  BY <2>1, <2>2, <2>3, <2>4 DEF PickInv
<1>2. ASSUME UNCHANGED <<heard, best, bestFinal>> PROVE HeardInv'
  BY <1>2 DEF PickInv, HeardInv, Says
<1> USE DEF PickInv, callVars, ctxVars
<1>3. CASE Call  BY <1>2, <1>3 DEF Call, Text
<1>4. CASE CheckBeforeSession  BY <1>2, <1>4 DEF CheckBeforeSession
<1>5. CASE CheckBeforePrompt  BY <1>2, <1>5 DEF CheckBeforePrompt
<1>6. CASE Send  BY <1>2, <1>6 DEF Send
<1>7. CASE Dialled  BY <1>2, <1>7 DEF Dialled
<1>8. CASE Written  BY <1>2, <1>8 DEF Written
<1>9. ASSUME NEW out \in Outputs, Reply(out) PROVE PickInv'
  BY <1>2, <1>9 DEF Reply
<1>10. CASE Fails
  <2>1. HeardInv' /\ UNCHANGED <<provider, best, heard>>
    BY <1>2, <1>10 DEF Fails
  <2>2. CASE place = "read" /\ StreamEnds(heard, best)
    <3>1. verdict = "silence" => provider # "deepgram-stream"
      BY <2>2
    <3>2. verdict' = "silence" /\ verdict # "silence" => place' = "recheck" /\ best = 0
      <4>1. CASE best # 0  BY <2>2, <4>1 DEF StreamEnds, Text
      <4>2. CASE best = 0  BY <2>2, <4>2 DEF StreamEnds, Silence, SttFailed
      <4>3. QED  BY <4>1, <4>2
    <3>3. QED  BY <2>1, <3>1, <3>2
  <2>3. CASE SttFailed  BY <2>1, <2>3 DEF SttFailed
  <2>4. CASE verdict' = "hermes_timeout"  BY <2>1, <2>4
  <2>5. QED  BY <1>10, <2>2, <2>3, <2>4 DEF Fails
<1>11. CASE Tick  BY <1>2, <1>11 DEF Tick
<1>12. CASE HangUp  BY <1>2, <1>12 DEF HangUp
<1>13. CASE UNCHANGED vars  BY <1>2, <1>13 DEF vars
<1>14. CASE HttpAnswer
  BY <1>2, <1>14 DEF HttpAnswer, Text, Silence, TimeInv
<1>15. QED
  BY <1>1, <1>3, <1>4, <1>5, <1>6, <1>7, <1>8, <1>9, <1>10, <1>11, <1>12, <1>13, <1>14
     DEF Next, OwnStep, ServerStep

\* The account of the loop says what StreamPicks says.
LEMMA PickIsStreamPicks == TypeOK /\ PickInv => StreamPicks
<1> SUFFICES ASSUME TypeOK, PickInv PROVE StreamPicks
  OBVIOUS
<1> DEFINE spoken == {i \in DOMAIN heard : heard[i].results /\ heard[i].len > 0}
           finals == {i \in spoken : heard[i].final}
<1>1. best = 0 \/ best \in DOMAIN heard
  BY DEF TypeOK
<1>2. best = 0 <=> spoken = {}
  BY <1>1 DEF PickInv, HeardInv, Says, TypeOK
<1>3. finals # {} => best \in finals
  BY <1>1 DEF PickInv, HeardInv, Says, TypeOK
<1>4. best # 0 /\ finals = {} =>
        \A i \in spoken : heard[i].len < heard[best].len
                          \/ (heard[i].len = heard[best].len /\ best <= i)
  BY <1>1 DEF PickInv, HeardInv, Says, TypeOK
<1>5. provider = "deepgram-stream" /\ verdict = "silence" => spoken = {}
  BY <1>2 DEF PickInv
<1>6. QED  BY <1>2, <1>3, <1>4, <1>5 DEF StreamPicks

\* However many messages a stream has, and in whatever order: a final wins over
\* every interim, else the first of the longest interims does, and silence means
\* silence.
THEOREM StreamPicksRight == Spec => []StreamPicks
<1>1. Init => TimeInv /\ PickInv
  BY DEF Init, TimeInv, AgentHasItsTime, PickInv, HeardInv
<1>2. QED
  BY <1>1, InitType, NextType, NextTime, NextPick, PickIsStreamPicks, PTL DEF Spec

-----------------------------------------------------------------------------
(* The steps are steps of RelayTurn.                                       *)

\* The end of a transcription, whichever it is, is RelayTurn's Transcribed or
\* NotTranscribed.
LEMMA SttEndIsTurnStep ==
  ASSUME place \in InStt, Text \/ Silence \/ SttFailed,
         UNCHANGED <<ctxVars, session, asked>>
  PROVE  RT!Next
<1> USE DEF RT!dev, RT!Goto, RT!mapVars, RT!outVars, RT!cancelVars, InStt, ctxVars, live
<1>1. CASE Text
  <2>1. RT!Transcribed("r")  BY <1>1 DEF Text, RT!Transcribed
  <2>2. QED  BY <2>1 DEF RT!Next, RT!TurnStep
<1>2. CASE Silence \/ SttFailed
  <2>1. RT!NotTranscribed("r")  BY <1>2 DEF Silence, SttFailed, RT!NotTranscribed
  <2>2. QED  BY <2>1 DEF RT!Next, RT!TurnStep
<1>3. QED  BY <1>1, <1>2

\* A context that ends, by the deadline or the client, is RelayTurn's CtxEnds;
\* one that stays as it was changes nothing there.
LEMMA CtxIsTurnStep ==
  ASSUME TypeOK, live' => live, UNCHANGED <<place, verdict, session, asked>>
  PROVE  RT!Next \/ UNCHANGED RT!vars
<1> USE DEF RT!mapVars, RT!outVars, RT!cancelVars, RT!turnVars
<1>1. CASE live' <=> live
  BY <1>1 DEF RT!vars
<1>2. CASE live /\ ~live'
  <2>1. RT!CtxEnds("r")
    BY <1>2 DEF RT!CtxEnds, RT!Registered, RT!PC, TypeOK, Places, InStt
  <2>2. QED  BY <2>1 DEF RT!Next, RT!ClientStep
<1>3. QED  BY <1>1, <1>2

\* The steps on the way to the agent and back.
LEMMA PromptIsTurnStep ==
  ASSUME CheckBeforeSession \/ CheckBeforePrompt \/ Send
         \/ (\E out \in Outputs : Reply(out))
         \/ (Fails /\ place \notin InStt)
  PROVE  RT!Next
<1> USE DEF RT!dev, RT!Goto, RT!Stale, RT!mapVars, RT!outVars, RT!cancelVars,
            InStt, ctxVars, live
<1>1. CASE CheckBeforeSession
  <2>1. RT!CheckBeforeSession("r")
    BY <1>1 DEF CheckBeforeSession, RT!CheckBeforeSession
  <2>2. QED  BY <2>1 DEF RT!Next, RT!TurnStep
<1>2. CASE CheckBeforePrompt
  <2>1. RT!CheckBeforePrompt("r")
    BY <1>2 DEF CheckBeforePrompt, RT!CheckBeforePrompt
  <2>2. QED  BY <2>1 DEF RT!Next, RT!TurnStep
<1>3. CASE Send
  <2>1. RT!SendPrompt("r")  BY <1>3 DEF Send, RT!SendPrompt
  <2>2. QED  BY <2>1 DEF RT!Next, RT!TurnStep
<1>4. ASSUME NEW out \in Outputs, Reply(out) PROVE RT!Next
  <2>1. CASE HasReply(out)
    <3>1. RT!PromptReplies("r")  BY <1>4, <2>1 DEF Reply, RT!PromptReplies
    <3>2. QED  BY <3>1 DEF RT!Next, RT!TurnStep
  <2>2. CASE ~HasReply(out)
    <3>1. RT!PromptFails("r")  BY <1>4, <2>2 DEF Reply, RT!PromptFails
    <3>2. QED  BY <3>1 DEF RT!Next, RT!TurnStep
  <2>3. QED  BY <2>1, <2>2
<1>5. CASE Fails /\ place \notin InStt
  <2>1. RT!PromptFails("r")  BY <1>5 DEF Fails, RT!PromptFails
  <2>2. QED  BY <2>1 DEF RT!Next, RT!TurnStep
<1>6. QED  BY <1>1, <1>2, <1>3, <1>4, <1>5

\* So is every step of the calls, or it changes nothing RelayTurn sees.
LEMMA StepIsTurnStep == TypeOK /\ [Next]_vars => [RT!Next]_(RT!vars)
<1> SUFFICES ASSUME TypeOK, [Next]_vars PROVE RT!Next \/ UNCHANGED RT!vars
  OBVIOUS
<1>a. ASSUME place \in InStt, place' \in InStt, UNCHANGED <<verdict, ctxVars, session, asked>>
      PROVE  UNCHANGED RT!vars
  BY <1>a DEF RT!vars, RT!turnVars, RT!mapVars, RT!outVars, RT!cancelVars, ctxVars, live
<1>b. ASSUME NEW h, NEW b, StreamEnds(h, b) PROVE Text \/ Silence \/ SttFailed
  BY <1>b DEF StreamEnds
<1>1. CASE Call
  <2>1. CASE provider = "stub"
    BY <1>1, <2>1, SttEndIsTurnStep DEF Call, InStt, ctxVars
  <2>2. CASE provider # "stub"
    BY <1>1, <2>2, <1>a DEF Call, Driver, InStt, ctxVars
  <2>3. QED  BY <2>1, <2>2
<1>2. CASE HttpAnswer
  BY <1>2, SttEndIsTurnStep DEF HttpAnswer, InStt, ctxVars
<1>3. CASE Dialled \/ Written
  BY <1>3, <1>a DEF Dialled, Written, InStt, ctxVars
<1>4. ASSUME NEW m \in Message, Hear(m) PROVE RT!Next \/ UNCHANGED RT!vars
  <2>1. place = "read" /\ UNCHANGED <<ctxVars, session, asked>>
    BY <1>4 DEF Hear
  <2>2. \/ StreamEnds(heard', best')
        \/ UNCHANGED <<place, verdict>>
    BY <1>4 DEF Hear
  <2>3. CASE StreamEnds(heard', best')
    BY <2>1, <2>3, <1>b, SttEndIsTurnStep DEF InStt
  <2>4. CASE UNCHANGED <<place, verdict>>
    BY <2>1, <2>4, <1>a DEF InStt
  <2>5. QED  BY <2>2, <2>3, <2>4
<1>5. CASE Fails
  <2>1. CASE place \in InStt
    <3>1. Text \/ Silence \/ SttFailed
      BY <1>5, <2>1, <1>b DEF Fails, InStt
    <3>2. UNCHANGED <<ctxVars, session, asked>>
      BY <1>5 DEF Fails, ctxVars
    <3>3. QED  BY <2>1, <3>1, <3>2, SttEndIsTurnStep
  <2>2. CASE place \notin InStt
    BY <1>5, <2>2, PromptIsTurnStep
  <2>3. QED  BY <2>1, <2>2
<1>6. CASE Tick
  BY <1>6, CtxIsTurnStep DEF Tick, live
<1>7. CASE HangUp
  BY <1>7, CtxIsTurnStep DEF HangUp, live, callVars
<1>8. CASE UNCHANGED vars
  BY <1>8, CtxIsTurnStep DEF vars, callVars, ctxVars, live
<1>9. QED
  BY <1>1, <1>2, <1>3, <1>4, <1>5, <1>6, <1>7, <1>8, PromptIsTurnStep
     DEF Next, OwnStep, ServerStep

\* For every driver, limit and stream the calls do to the turn only what
\* RelayTurn allows: each of its steps is one of RelayTurn or leaves what
\* RelayTurn sees alone.
THEOREM CallsAreTurnSteps == Spec => TurnStepsOnly
BY TypeCorrect, StepIsTurnStep, PTL DEF Spec, TurnStepsOnly
=============================================================================
