--------------------------- MODULE MqttSinkProofs ----------------------------
(***************************************************************************)
(* What holds of MqttSink for any number of turns and devices, every script *)
(* of publishes and every size of the queue and of the list of turns.      *)
(***************************************************************************)
EXTENDS MqttSink, SequenceTheorems, TLAPS

USE ScriptAssumption, TurnAssumption, SizeAssumption, NoneAssumption

-----------------------------------------------------------------------------
(* The type of the state.                                                  *)

LEMMA InitType == Init => TypeOK
BY DEF Init, TypeOK, NoVerdicts, Recorded

\* What a turn publishes is a message.
LEMMA PublishedIsMsg ==
  ASSUME TypeOK, NEW t \in Turns, at[t] \in DOMAIN Script
  PROVE  [n |-> offered + 1, body |-> [topic |-> Script[at[t]], dev |-> DeviceOf[t]]] \in Msg
<1>1. Script[at[t]] \in Topics
  OBVIOUS
<1>2. DeviceOf[t] \in Devices /\ offered + 1 \in Nat
  BY DEF TypeOK
<1>3. QED  BY <1>1, <1>2 DEF Msg, Bodies

\* The list of the latest turns stays a list of turns, and short.
LEMMA RecentType ==
  ASSUME TypeOK, NEW t \in Turns
  PROVE  Recent(t) \in Seq(Turns) /\ Len(Recent(t)) <= Recents
<1>1. /\ recent \in Seq(Turns) /\ Len(recent) \in Nat /\ Len(recent) <= Recents
      /\ <<t>> \in Seq(Turns)
  BY DEF TypeOK
<1> DEFINE s == <<t>> \o recent
           k == IF Len(recent) < Recents THEN Len(recent) + 1 ELSE Recents
<1>2. s \in Seq(Turns) /\ Len(s) = Len(recent) + 1
  BY <1>1
<1>3. k \in 1 .. Len(s) /\ k <= Recents
  BY <1>1, <1>2 DEF TypeOK
<1> HIDE DEF s, k
<1>4. SubSeq(s, 1, k) \in Seq(Turns) /\ Len(SubSeq(s, 1, k)) = k
  BY <1>2, <1>3
<1>5. QED  BY <1>3, <1>4 DEF Recent, s, k

\* What reaches the broker is recorded, and retained under its number.
LEMMA ReachesType ==
  ASSUME TypeOK, NEW m \in Msg, Reaches(m)
  PROVE  got' \in Seq(Msg) /\ retained' \in [Devices -> Nat]
<1>1. m.n \in Nat /\ m.body.dev \in Devices
  BY DEF Msg, Bodies
<1>2. QED  BY <1>1 DEF Reaches, TypeOK

\* What is due is in the session.
LEMMA KeptIsMsg ==
  ASSUME TypeOK, due > 0
  PROVE  Sent \in Nat /\ Sent + 1 \in DOMAIN session /\ session[Sent + 1] \in Msg
<1>1. session \in Seq(Msg) /\ Len(session) \in Nat /\ due \in 0 .. Len(session)
  BY DEF TypeOK
<1>2. QED  BY <1>1 DEF Sent

LEMMA NextType == TypeOK /\ [Next]_vars => TypeOK'
<1> SUFFICES ASSUME TypeOK, [Next]_vars PROVE TypeOK'
  OBVIOUS
<1> USE DEF TypeOK, queueVars, recVars, sessionVars
<1>1. CASE Connect  BY <1>1 DEF Connect
<1>2. CASE Take
  <2>1. queue \in Seq(Msg) /\ queue # <<>> /\ Len(queue) <= QueueLen
    BY <1>2 DEF Take
  <2>2. Head(queue) \in Msg /\ Tail(queue) \in Seq(Msg) /\ Len(Tail(queue)) <= QueueLen
    BY <2>1
  <2>3. QED  BY <1>2, <2>2 DEF Take
<1>3. CASE Restart
  <2>1. at' \in [Turns -> 0 .. Recorded]
    BY <1>3 DEF Restart, Recorded
  <2>2. failed' \in [Devices -> BOOLEAN]
    BY <1>3 DEF Restart
  <2>3. verdicts' \in [DOMAIN NoVerdicts -> Nat]
    BY <1>3 DEF Restart, NoVerdicts
  <2>4. QED  BY <1>3, <2>1, <2>2, <2>3 DEF Restart
<1>4. CASE LinkLost \/ LinkBack
  <2>1. Len(session) \in Nat /\ due \in 0 .. Len(session)
    OBVIOUS
  <2>2. /\ session \in Seq(Msg) /\ <<>> \in Seq(Msg) /\ Len(<<>>) = 0
        /\ Len(session) \in 0 .. Len(session) /\ 0 \in 0 .. 0
    BY <2>1
  <2>3. \/ session' = session /\ (due' = due \/ due' = Len(session))
        \/ session' = <<>> /\ due' = 0
    BY <1>4 DEF LinkLost, LinkBack
  <2>5. session' \in Seq(Msg) /\ due' \in 0 .. Len(session')
    BY <2>1, <2>2, <2>3
  <2>6. link' \in BOOLEAN /\ outages' \in Nat
    <3>1. outages \in Nat
      OBVIOUS
    <3>2. outages' = outages + 1 \/ outages' = outages
      BY <1>4 DEF LinkLost, LinkBack
    <3>3. link' \in BOOLEAN
      BY <1>4 DEF LinkLost, LinkBack
    <3>4. QED  BY <3>1, <3>2, <3>3
  <2>4. QED  BY <1>4, <2>5, <2>6 DEF LinkLost, LinkBack
<1>5. ASSUME NEW t \in Turns, Publish(t) PROVE TypeOK'
  <2> DEFINE m == [n |-> offered + 1,
                   body |-> [topic |-> Script[at[t]], dev |-> DeviceOf[t]]]
  <2>1. at[t] \in DOMAIN Script
    BY <1>5 DEF Publish
  <2>2. m \in Msg
    BY <2>1, PublishedIsMsg
  <2>3. at' \in [Turns -> 0 .. Recorded]
    <3>1. at \in [Turns -> 0 .. Recorded]
      OBVIOUS
    <3>2. at' = [at EXCEPT ![t] = @ + 1]
      BY <1>5 DEF Publish
    <3>3. at[t] + 1 \in 0 .. Recorded
      BY <2>1 DEF Recorded
    <3>4. QED  BY <3>1, <3>2, <3>3
  <2>4. queue' \in Seq(Msg) /\ Len(queue') <= QueueLen
    <3>1. CASE Room
      <4>1. queue' = Append(queue, m)  BY <1>5, <3>1 DEF Publish
      <4>2. Len(queue) < QueueLen  BY <3>1 DEF Room
      <4> HIDE DEF m
      <4>3. QED  BY <2>2, <4>1, <4>2
    <3>2. CASE ~Room  BY <1>5, <3>2 DEF Publish
    <3>3. QED  BY <3>1, <3>2
  <2>5. last' \in [Devices -> Nat] /\ failed' \in [Devices -> BOOLEAN] /\ offered' \in Nat
    BY <1>5 DEF Publish
  <2>6. QED  BY <1>5, <2>3, <2>4, <2>5 DEF Publish
<1>6. ASSUME NEW t \in Turns, Record(t) PROVE TypeOK'
  <2>1. recent' \in Seq(Turns) /\ Len(recent') <= Recents
    BY <1>6, RecentType DEF Record
  <2>3. verdicts' \in [DOMAIN NoVerdicts -> Nat]
    <3> DEFINE D == DOMAIN NoVerdicts
               v == VerdictOf[t]
    <3>1. verdicts \in [D -> Nat] /\ v \in D
      BY DEF NoVerdicts
    <3> HIDE DEF D, v
    <3>2. verdicts' = [verdicts EXCEPT ![v] = @ + 1]
      BY <1>6 DEF Record, v
    <3>3. verdicts' \in [D -> Nat]
      BY <3>1, <3>2
    <3>4. QED  BY <3>3 DEF D
  <2>4. at' \in [Turns -> 0 .. Recorded]
    BY <1>6 DEF Record, Recorded
  <2>5. QED  BY <1>6, <2>1, <2>3, <2>4 DEF Record
<1>7. ASSUME NEW arrived \in BOOLEAN, NEW ok \in BOOLEAN, NEW kept \in BOOLEAN,
             SendEnds(arrived, ok, kept)
      PROVE  TypeOK'
  <2>1. sending \in Msg
    BY <1>7 DEF SendEnds
  <2>2. sending.n \in Nat /\ sending.body.dev \in Devices
    BY <2>1 DEF Msg, Bodies
  <2>3. got' \in Seq(Msg) /\ retained' \in [Devices -> Nat]
    BY <1>7, <2>1, <2>2, ReachesType DEF SendEnds
  <2>4. failed' \in [Devices -> BOOLEAN]
    BY <1>7, <2>2 DEF SendEnds
  <2>5. session' \in Seq(Msg) /\ due' \in 0 .. Len(session')
    BY <1>7, <2>1 DEF SendEnds
  <2>6. QED  BY <1>7, <2>3, <2>4, <2>5 DEF SendEnds
<1>10. CASE KeptArrives
  <2>1. due > 0 /\ Reaches(session[Sent + 1]) /\ session[Sent + 1] \in Msg
    BY <1>10, KeptIsMsg DEF KeptArrives
  <2>2. got' \in Seq(Msg) /\ retained' \in [Devices -> Nat]
    BY <2>1, ReachesType
  <2>3. due \in 0 .. Len(session) /\ Len(session) \in Nat
    OBVIOUS
  <2>4. due' = due - 1
    BY <1>10 DEF KeptArrives
  <2>5. due' \in 0 .. Len(session)
    BY <2>1, <2>3, <2>4
  <2>6. QED  BY <1>10, <2>2, <2>5 DEF KeptArrives
<1>11. CASE Acknowledged
  <2>1. Len(session) \in Nat /\ due \in 0 .. Len(session) /\ Len(session) > due /\ session # <<>>
    BY <1>11 DEF Acknowledged, Sent
  <2>2. session' \in Seq(Msg) /\ Len(session') = Len(session) - 1 /\ due' = due
    BY <1>11, <2>1 DEF Acknowledged
  <2>3. due' \in 0 .. Len(session')
    BY <2>1, <2>2
  <2>4. failed' \in [Devices -> BOOLEAN]
    BY <1>11 DEF Acknowledged
  <2>5. QED  BY <1>11, <2>2, <2>3, <2>4 DEF Acknowledged
<1>8. CASE UNCHANGED vars  BY <1>8 DEF vars
<1>9. QED  BY <1>1, <1>2, <1>3, <1>4, <1>5, <1>6, <1>7, <1>8, <1>10, <1>11 DEF Next

\* The queue never holds more than its capacity and the recorder no more turns
\* than it lists, at any size of either.
THEOREM TypeCorrect == Spec => []TypeOK
BY InitType, NextType, PTL DEF Spec

-----------------------------------------------------------------------------
(* The refinement: the client is a lossy feed.                             *)

LEMMA PendingType ==
  ASSUME TypeOK
  PROVE  /\ Pending \in Seq(Msg)
         /\ sending = None => Pending = queue
         /\ sending # None => /\ Pending # <<>>
                              /\ Head(Pending) = sending
                              /\ Tail(Pending) = queue
<1>1. queue \in Seq(Msg) /\ sending \in Msg \cup {None}
  BY DEF TypeOK
<1>2. CASE sending = None
  <2>1. Pending = <<>> \o queue  BY <1>2 DEF Pending
  <2>2. <<>> \o queue = queue  BY <1>1, ConcatEmptySeq
  <2>3. QED  BY <1>1, <1>2, <2>1, <2>2
<1>3. CASE sending # None
  <2>1. Pending = <<sending>> \o queue  BY <1>3 DEF Pending
  <2>2. sending \in Msg  BY <1>1, <1>3
  <2>3. Pending \in Seq(Msg) /\ Len(Pending) = Len(queue) + 1
    BY <1>1, <2>1, <2>2
  <2>4. Pending[1] = sending /\ \A i \in 1 .. Len(queue) : Pending[i + 1] = queue[i]
    BY <1>1, <2>1, <2>2
  <2>5. Pending # <<>> /\ Head(Pending) = sending
    BY <1>1, <2>3, <2>4
  <2>6. /\ Tail(Pending) \in Seq(Msg) /\ Len(Tail(Pending)) = Len(queue)
        /\ \A i \in 1 .. Len(queue) : Tail(Pending)[i] = Pending[i + 1]
    BY <1>1, <2>3, <2>5, HeadTailProperties
  <2>7. Tail(Pending) = queue
    BY <1>1, <2>4, <2>6, SeqEqual
  <2>8. QED  BY <1>3, <2>3, <2>5, <2>7
<1>4. QED  BY <1>2, <1>3

\* The message turn t publishes next.
Published(t) == [n |-> offered + 1, body |-> [topic |-> Script[at[t]], dev |-> DeviceOf[t]]]

\* How each step changes what is under way.
LEMMA PublishPending ==
  ASSUME TypeOK, NEW t \in Turns, Publish(t)
  PROVE  /\ Published(t) \in Msg
         /\ Room => Pending' = Append(Pending, Published(t))
         /\ ~Room => Pending' = Pending
<1> DEFINE m == Published(t)
<1>1. m \in Msg
  BY PublishedIsMsg DEF Publish, Published
<1>2. sending' = sending
  BY DEF Publish
<1>3. CASE ~Room
  <2>1. queue' = queue  BY <1>3 DEF Publish
  <2>2. QED  BY <1>1, <1>2, <1>3, <2>1 DEF Pending
<1>4. CASE Room
  <2>0. queue' = Append(queue, m)  BY <1>4 DEF Publish, Published
  <2> HIDE DEF m
  <2>1. queue \in Seq(Msg) /\ <<m>> \in Seq(Msg)
    BY <1>1 DEF TypeOK
  <2> DEFINE p == IF sending = None THEN <<>> ELSE <<sending>>
  <2>2. p \in Seq(Msg) /\ p' = p
    BY <1>2 DEF TypeOK
  <2>3. Pending = p \o queue /\ Pending' = p \o Append(queue, m)
    BY <1>2, <2>0, <2>2 DEF Pending
  <2> HIDE DEF p
  <2>4. Append(queue, m) = queue \o <<m>>
    BY <1>1, <2>1, AppendIsConcat
  <2>5. p \o (queue \o <<m>>) = (p \o queue) \o <<m>>
    BY <2>1, <2>2, ConcatAssociative
  <2>6. p \o queue \in Seq(Msg)
    BY <2>1, <2>2, ConcatProperties
  <2>7. Append(p \o queue, m) = (p \o queue) \o <<m>>
    BY <1>1, <2>6, AppendIsConcat
  <2>8. Pending' = Append(Pending, m)
    BY <2>3, <2>4, <2>5, <2>7
  <2>9. QED  BY <1>1, <1>4, <2>8 DEF m
<1>5. QED  BY <1>1, <1>3, <1>4

\* What is under way stays the same when the sender takes a message.
LEMMA TakePending == ASSUME TypeOK, Take PROVE Pending' = Pending
<1>1. queue \in Seq(Msg) /\ queue # <<>>
  BY DEF Take, TypeOK
<1>2. Head(queue) \in Msg /\ Tail(queue) \in Seq(Msg) /\ Len(Tail(queue)) = Len(queue) - 1
  BY <1>1
<1>3. Pending' = <<Head(queue)>> \o Tail(queue)
  <2>1. sending' # None
    BY <1>2 DEF Take
  <2>2. QED  BY <2>1 DEF Take, Pending
<1>4. <<Head(queue)>> \o Tail(queue) = queue
  <2>1. \A i \in 1 .. Len(queue) : (<<Head(queue)>> \o Tail(queue))[i] = queue[i]
    BY <1>1, <1>2
  <2>2. /\ <<Head(queue)>> \o Tail(queue) \in Seq(Msg)
        /\ Len(<<Head(queue)>> \o Tail(queue)) = Len(queue)
    BY <1>1, <1>2
  <2>3. QED  BY <1>1, <2>1, <2>2, SeqEqual
<1>5. Pending = queue
  BY PendingType DEF Take
<1>6. QED  BY <1>3, <1>4, <1>5

LEMMA SendPending ==
  ASSUME TypeOK, NEW arrived \in BOOLEAN, NEW ok \in BOOLEAN, NEW kept \in BOOLEAN,
         SendEnds(arrived, ok, kept)
  PROVE  /\ Pending # <<>> /\ Head(Pending) = sending /\ Pending' = Tail(Pending)
         /\ sending \in Msg
<1>1. Pending # <<>> /\ Head(Pending) = sending /\ Tail(Pending) = queue
  BY PendingType DEF SendEnds
<1>2. sending' = None /\ queue' = queue
  BY DEF SendEnds
<1>3. Pending' = <<>> \o queue
  BY <1>2 DEF Pending
<1>4. queue \in Seq(Msg) /\ sending \in Msg
  BY DEF TypeOK, SendEnds
<1>5. QED  BY <1>1, <1>3, <1>4, ConcatEmptySeq

LEMMA RestartPending == ASSUME Restart PROVE Pending' = <<>>
<1>1. sending' = None /\ queue' = <<>>
  BY DEF Restart
<1>2. Pending' = <<>> \o <<>>
  BY <1>1 DEF Pending
<1>3. QED  BY <1>2

\* The other steps leave it alone.
LEMMA OtherPending ==
  ASSUME \/ Connect \/ LinkLost \/ LinkBack \/ KeptArrives \/ Acknowledged
         \/ \E t \in Turns : Record(t)
         \/ UNCHANGED vars
  PROVE  Pending' = Pending /\ UNCHANGED <<offered, last>>
<1>1. sending' = sending /\ queue' = queue /\ UNCHANGED <<offered, last>>
  BY DEF Connect, LinkLost, LinkBack, KeptArrives, Acknowledged, Record, vars, queueVars
<1>2. QED  BY <1>1 DEF Pending

\* These leave alone what is kept and what arrived as well.
LEMMA IdleSteps ==
  ASSUME Connect \/ LinkLost \/ Take \/ (\E t \in Turns : Publish(t) \/ Record(t)) \/ UNCHANGED vars
  PROVE  UNCHANGED <<session, due, got, retained>>
BY DEF Connect, LinkLost, Take, Publish, Record, vars, queueVars, sessionVars

\* A body is published with QoS 1 exactly if it is one of the resent.
LEMMA ResentQos ==
  ASSUME NEW m \in Msg
  PROVE  m.body \in StateBodies <=> Qos(m) = 1
<1>1. m.body \in Bodies
  BY DEF Msg
<1>2. QED  BY <1>1 DEF StateBodies, Qos

LEMMA SendRefines ==
  ASSUME TypeOK, NEW arrived \in BOOLEAN, NEW ok \in BOOLEAN, NEW kept \in BOOLEAN,
         SendEnds(arrived, ok, kept)
  PROVE  Feed!Pass(arrived, kept)
<1>1. Pending # <<>> /\ Head(Pending) = sending /\ Pending' = Tail(Pending) /\ sending \in Msg
  BY SendPending
<1>2. sending.body \in StateBodies <=> Qos(sending) = 1
  BY <1>1, ResentQos
<1>3. kept => Qos(sending) = 1
  BY DEF SendEnds, Qos
<1>4. arrived /\ ~kept /\ Qos(sending) = 1 => session = <<>>
  BY DEF SendEnds, Qos
<1>5. /\ got' = IF arrived THEN Append(got, sending) ELSE got
      /\ session' = IF kept THEN Append(session, sending) ELSE session
      /\ offered' = offered
  BY DEF SendEnds, Reaches
<1>6. QED  BY <1>1, <1>2, <1>3, <1>4, <1>5 DEF Feed!Pass

LEMMA StepRefines == TypeOK /\ [Next]_vars => [Feed!Next]_(Feed!vars)
<1> SUFFICES ASSUME TypeOK, [Next]_vars PROVE [Feed!Next]_(Feed!vars)
  OBVIOUS
<1>1. ASSUME Connect \/ LinkLost \/ (\E t \in Turns : Record(t)) \/ UNCHANGED vars
      PROVE  UNCHANGED Feed!vars
  BY <1>1, OtherPending, IdleSteps DEF Feed!vars
<1>2. CASE Take
  <2>1. UNCHANGED <<offered, session, got>>
    BY <1>2, IdleSteps DEF Take
  <2>2. QED  BY <1>2, <2>1, TakePending DEF Feed!vars
<1>3. ASSUME NEW t \in Turns, Publish(t) PROVE \E b \in Bodies : Feed!Offer(b)
  <2>1. /\ Published(t) \in Msg
        /\ Pending' \in {Pending, Append(Pending, Published(t))}
    BY <1>3, PublishPending
  <2>2. Published(t).body \in Bodies /\ Published(t) = [n |-> offered + 1, body |-> Published(t).body]
    BY <2>1 DEF Msg, Published
  <2>3. offered' = offered + 1 /\ UNCHANGED <<session, got>>
    BY <1>3, IdleSteps DEF Publish
  <2>4. QED  BY <2>1, <2>2, <2>3 DEF Feed!Offer
<1>4. ASSUME NEW arrived \in BOOLEAN, NEW ok \in BOOLEAN, NEW kept \in BOOLEAN,
             SendEnds(arrived, ok, kept)
      PROVE  Feed!Next
  BY <1>4, SendRefines DEF Feed!Next
<1>5. CASE Restart
  <2>1. offered' = offered /\ got' = got /\ session' = <<>>
    BY <1>5 DEF Restart
  <2>2. Feed!LoseAll  BY <1>5, <2>1, RestartPending DEF Feed!LoseAll
  <2>3. QED  BY <2>2 DEF Feed!Next
<1>6. CASE KeptArrives
  <2>1. Sent + 1 \in DOMAIN session
    BY <1>6, KeptIsMsg DEF KeptArrives
  <2>2. got' = Append(got, session[Sent + 1]) /\ session' = session
    BY <1>6 DEF KeptArrives, Reaches
  <2>3. Pending' = Pending /\ offered' = offered
    BY <1>6, OtherPending
  <2>4. Feed!Again  BY <2>1, <2>2, <2>3 DEF Feed!Again
  <2>5. QED  BY <2>4 DEF Feed!Next
<1>7. CASE Acknowledged
  <2>1. session # <<>> /\ session' = Tail(session) /\ got' = got
    BY <1>7 DEF Acknowledged, Sent, TypeOK
  <2>2. Pending' = Pending /\ offered' = offered
    BY <1>7, OtherPending
  <2>3. Feed!Forget  BY <2>1, <2>2 DEF Feed!Forget
  <2>4. QED  BY <2>3 DEF Feed!Next
<1>8. CASE LinkBack
  <2>1. session' \in {session, <<>>} /\ got' = got
    BY <1>8 DEF LinkBack, sessionVars
  <2>2. Pending' = Pending /\ offered' = offered
    BY <1>8, OtherPending
  <2>3. CASE session' = session  BY <2>1, <2>2, <2>3 DEF Feed!vars
  <2>4. CASE session' # session
    <3>1. Feed!Forget  BY <2>1, <2>2, <2>4 DEF Feed!Forget
    <3>2. QED  BY <3>1 DEF Feed!Next
  <2>5. QED  BY <2>3, <2>4
<1>9. CASE Next
  BY <1>1, <1>2, <1>3, <1>4, <1>5, <1>6, <1>7, <1>8, <1>9 DEF Next, Feed!Next
<1>10. QED  BY <1>1, <1>9

\* Overload, failures, a broker that comes and goes, and stops of the relay lose
\* messages and make the library send states again, and nothing worse: the
\* client implements the lossy feed, for any script of publishes.
THEOREM Implements == Spec => IsLossyFeed
<1>1. Init => Feed!Init
  <2>1. ASSUME Init PROVE Pending = <<>>
    BY <2>1, InitType, PendingType DEF Init
  <2>2. QED  BY <2>1 DEF Init, Feed!Init
<1>2. QED
  BY <1>1, InitType, NextType, StepRefines, PTL DEF Spec, IsLossyFeed, Feed!Spec

-----------------------------------------------------------------------------
(* What the lossy feed promises, and so what the client keeps.             *)

FeedType ==
    /\ offered \in Nat
    /\ Pending \in Seq(Feed!Message)
    /\ session \in Seq(Feed!Message)
    /\ got \in Seq(Feed!Message)

\* Whatever got through or is kept is older than whatever is under way, no
\* message was not offered yet, and only the resent are kept.
Ordered ==
    /\ Feed!InOrder
    /\ \A i, j \in DOMAIN Pending : i < j => Pending[i].n < Pending[j].n
    /\ \A i \in DOMAIN got, j \in DOMAIN Pending : got[i].n < Pending[j].n
    /\ \A i \in DOMAIN session, j \in DOMAIN Pending : session[i].n < Pending[j].n
    /\ \A i \in DOMAIN session : session[i].body \in StateBodies
    /\ \A i \in DOMAIN got : got[i].n <= offered
    /\ \A i \in DOMAIN session : session[i].n <= offered
    /\ \A j \in DOMAIN Pending : Pending[j].n <= offered

FeedInv == FeedType /\ Ordered

LEMMA InitFeed == Feed!Init => FeedInv
BY DEF Feed!Init, FeedInv, FeedType, Ordered, Feed!InOrder

LEMMA NumberType ==
  ASSUME NEW s \in Seq(Feed!Message), NEW i \in DOMAIN s
  PROVE  s[i].n \in Nat
<1>1. s[i] \in Feed!Message
  OBVIOUS
<1>2. QED  BY <1>1 DEF Feed!Message

\* What is appended to a sequence of messages stands at its end.
LEMMA AppendedAt ==
  ASSUME NEW s \in Seq(Feed!Message), NEW m \in Feed!Message
  PROVE  /\ Append(s, m) \in Seq(Feed!Message)
         /\ \A j \in DOMAIN Append(s, m) :
              /\ j \in Nat /\ j <= Len(s) + 1
              /\ \/ j \in DOMAIN s /\ Append(s, m)[j] = s[j]
                 \/ j = Len(s) + 1 /\ Append(s, m)[j] = m
OBVIOUS

\* Each step of a lossy feed keeps its numbers in order.
LEMMA OfferFeed == ASSUME NEW b \in Bodies, FeedInv, Feed!Offer(b) PROVE FeedInv'
<1> DEFINE m == [n |-> offered + 1, body |-> b]
<1>1. m \in Feed!Message /\ m.n = offered + 1 /\ offered \in Nat
  BY DEF Feed!Message, FeedInv, FeedType
<1>2. /\ \A i \in DOMAIN got : got[i].n \in Nat /\ got[i].n <= offered
      /\ \A i \in DOMAIN session : session[i].n \in Nat /\ session[i].n <= offered
      /\ \A j \in DOMAIN Pending : Pending[j].n \in Nat /\ Pending[j].n <= offered
  BY NumberType DEF FeedInv, FeedType, Ordered
<1>3. /\ got' = got /\ session' = session /\ offered' = offered + 1 /\ offered' \in Nat
      /\ \A k \in Nat : k <= offered => k < offered' /\ k <= offered'
  BY <1>1 DEF Feed!Offer
<1>4. CASE Pending' = Pending
  BY <1>2, <1>3, <1>4 DEF FeedInv, FeedType, Ordered, Feed!InOrder
<1>5. CASE Pending' = Append(Pending, m)
  <2> HIDE DEF m
  <2>1. /\ Pending' \in Seq(Feed!Message)
        /\ \A j \in DOMAIN Pending' :
              /\ j \in Nat /\ j <= Len(Pending) + 1
              /\ \/ j \in DOMAIN Pending /\ Pending'[j] = Pending[j]
                 \/ j = Len(Pending) + 1 /\ Pending'[j] = m
    BY <1>1, <1>5, AppendedAt DEF FeedInv, FeedType
  <2>2. ASSUME NEW i \in DOMAIN Pending', NEW j \in DOMAIN Pending', i < j
        PROVE  Pending'[i].n < Pending'[j].n
    <3>1. Len(Pending) \in Nat
      BY DEF FeedInv, FeedType
    <3>2. i \in DOMAIN Pending /\ Pending'[i] = Pending[i]
      BY <2>1, <2>2, <3>1
    <3>3. CASE j \in DOMAIN Pending /\ Pending'[j] = Pending[j]
      BY <2>2, <3>2, <3>3 DEF FeedInv, Ordered
    <3>4. CASE Pending'[j] = m
      BY <1>1, <1>2, <3>2, <3>4
    <3>5. QED  BY <2>1, <3>3, <3>4
  <2>3. /\ \A i \in DOMAIN got', j \in DOMAIN Pending' : got'[i].n < Pending'[j].n
        /\ \A i \in DOMAIN session', j \in DOMAIN Pending' : session'[i].n < Pending'[j].n
    BY <1>1, <1>2, <1>3, <2>1 DEF FeedInv, Ordered
  <2>4. /\ \A i \in DOMAIN got' : got'[i].n <= offered'
        /\ \A i \in DOMAIN session' : session'[i].n <= offered'
        /\ \A j \in DOMAIN Pending' : Pending'[j].n <= offered'
    BY <1>1, <1>2, <1>3, <2>1
  <2>5. Feed!InOrder' /\ \A i \in DOMAIN session' : session'[i].body \in StateBodies
    BY <1>3 DEF FeedInv, Ordered, Feed!InOrder, StateBodies, Qos
  <2>6. FeedType'
    BY <1>3, <2>1 DEF FeedInv, FeedType
  <2>7. QED  BY <2>2, <2>3, <2>4, <2>5, <2>6 DEF FeedInv, Ordered
<1>6. QED
  BY <1>4, <1>5 DEF Feed!Offer

\* What arrives goes to the end, either newer than all before it or resent.
LEMMA ArriveFeed ==
  ASSUME FeedInv, NEW m \in Feed!Message, got' = Append(got, m),
         m.body \in StateBodies \/ \A i \in DOMAIN got : got[i].n < m.n
  PROVE  /\ got' \in Seq(Feed!Message)
         /\ \A j \in DOMAIN got' : (\E i \in DOMAIN got : got'[j] = got[i]) \/ got'[j] = m
         /\ Feed!InOrder'
<1>1. /\ got' \in Seq(Feed!Message)
      /\ \A j \in DOMAIN got' :
              /\ j \in Nat /\ j <= Len(got) + 1
              /\ \/ j \in DOMAIN got /\ got'[j] = got[j]
                 \/ j = Len(got) + 1 /\ got'[j] = m
  BY AppendedAt DEF FeedInv, FeedType
<1>2. ASSUME NEW i \in DOMAIN got', NEW j \in DOMAIN got', i < j,
             got'[j].body \notin StateBodies
      PROVE  got'[i].n < got'[j].n
  <2>1. Len(got) \in Nat
    BY DEF FeedInv, FeedType
  <2>2. i \in DOMAIN got /\ got'[i] = got[i]
    BY <1>1, <1>2, <2>1
  <2>3. CASE j \in DOMAIN got /\ got'[j] = got[j]
    BY <1>2, <2>2, <2>3 DEF FeedInv, Ordered, Feed!InOrder
  <2>4. CASE got'[j] = m
    BY <1>2, <2>2, <2>4
  <2>5. QED  BY <1>1, <2>3, <2>4
<1>3. Feed!InOrder'
  BY <1>2 DEF Feed!InOrder, StateBodies, Qos
<1>4. QED  BY <1>1, <1>3

LEMMA PassFeed ==
  ASSUME FeedInv, NEW arrives \in BOOLEAN, NEW keeps \in BOOLEAN, Feed!Pass(arrives, keeps)
  PROVE  FeedInv'
<1> DEFINE m == Head(Pending)
<1>1. Pending \in Seq(Feed!Message) /\ Pending # <<>> /\ Pending' = Tail(Pending)
  BY DEF FeedInv, FeedType, Feed!Pass
<1>2. /\ Pending' \in Seq(Feed!Message)
      /\ \A j \in DOMAIN Pending' :
            j \in Nat /\ 1 < j + 1 /\ j + 1 \in DOMAIN Pending /\ Pending'[j] = Pending[j + 1]
      /\ 1 \in DOMAIN Pending /\ m = Pending[1] /\ m \in Feed!Message
  BY <1>1
<1> HIDE DEF m
<1>3. \A j \in DOMAIN Pending' : m.n < Pending'[j].n /\ Pending'[j].n <= offered
  BY <1>2 DEF FeedInv, Ordered
<1>4. /\ \A i \in DOMAIN got : got[i].n < m.n /\ got[i].n <= offered
      /\ \A i \in DOMAIN session : session[i].n < m.n /\ session[i].n <= offered
      /\ m.n <= offered
  BY <1>2 DEF FeedInv, Ordered
<1>5. /\ offered' = offered
      /\ got' = IF arrives THEN Append(got, m) ELSE got
      /\ session' = IF keeps THEN Append(session, m) ELSE session
      /\ keeps => m.body \in StateBodies
  BY DEF Feed!Pass, m
<1>6. /\ got' \in Seq(Feed!Message)
      /\ \A j \in DOMAIN got' : (\E i \in DOMAIN got : got'[j] = got[i]) \/ got'[j] = m
      /\ Feed!InOrder'
  <2>1. CASE arrives
    BY <1>2, <1>4, <1>5, <2>1, ArriveFeed
  <2>2. CASE ~arrives
    BY <1>5, <2>2 DEF FeedInv, FeedType, Ordered, Feed!InOrder, StateBodies, Qos
  <2>3. QED  BY <2>1, <2>2
<1>7. /\ session' \in Seq(Feed!Message)
      /\ \A j \in DOMAIN session' :
            (\E i \in DOMAIN session : session'[j] = session[i]) \/ (keeps /\ session'[j] = m)
  <2>1. session \in Seq(Feed!Message)
    BY DEF FeedInv, FeedType
  <2>2. CASE keeps
    BY <1>2, <1>5, <2>1, <2>2, AppendedAt
  <2>3. CASE ~keeps
    BY <1>5, <2>1, <2>3
  <2>4. QED  BY <2>2, <2>3
<1>8. ASSUME NEW i \in DOMAIN Pending', NEW j \in DOMAIN Pending', i < j
      PROVE  Pending'[i].n < Pending'[j].n
  <2>1. i + 1 < j + 1
    BY <1>2, <1>8
  <2>2. QED  BY <1>2, <2>1 DEF FeedInv, Ordered
<1>9. /\ \A i \in DOMAIN got : got[i].n \in Nat
      /\ \A i \in DOMAIN session : session[i].n \in Nat
      /\ \A j \in DOMAIN Pending' : Pending'[j].n \in Nat
      /\ m.n \in Nat
  <2>1. m.n \in Nat  BY <1>2 DEF Feed!Message
  <2>2. QED  BY <1>2, <2>1, NumberType DEF FeedInv, FeedType
<1>10. /\ \A i \in DOMAIN got', j \in DOMAIN Pending' : got'[i].n < Pending'[j].n
       /\ \A i \in DOMAIN got' : got'[i].n <= offered'
  <2>1. ASSUME NEW i \in DOMAIN got'
        PROVE  got'[i].n \in Nat /\ got'[i].n <= m.n
    <3>1. CASE \E k \in DOMAIN got : got'[i] = got[k]
      <4>1. PICK k \in DOMAIN got : got'[i] = got[k]
        BY <3>1
      <4>2. got[k].n \in Nat /\ got[k].n < m.n /\ m.n \in Nat
        BY <1>4, <1>9
      <4>3. QED  BY <4>1, <4>2
    <3>2. CASE got'[i] = m
      BY <1>9, <3>2
    <3>3. QED  BY <1>6, <3>1, <3>2
  <2>2. ASSUME NEW i \in DOMAIN got', NEW j \in DOMAIN Pending'
        PROVE  got'[i].n < Pending'[j].n
    <3>1. /\ got'[i].n \in Nat /\ got'[i].n <= m.n
          /\ m.n \in Nat /\ Pending'[j].n \in Nat /\ m.n < Pending'[j].n
      BY <1>3, <1>9, <2>1
    <3>2. QED  BY <3>1
  <2>3. ASSUME NEW i \in DOMAIN got'
        PROVE  got'[i].n <= offered'
    <3>1. /\ got'[i].n \in Nat /\ got'[i].n <= m.n
          /\ m.n \in Nat /\ offered \in Nat /\ m.n <= offered /\ offered' = offered
      BY <1>4, <1>5, <1>9, <2>1 DEF FeedInv, FeedType
    <3>2. QED  BY <3>1
  <2>4. QED  BY <2>2, <2>3
<1>11. /\ \A i \in DOMAIN session', j \in DOMAIN Pending' : session'[i].n < Pending'[j].n
       /\ \A i \in DOMAIN session' : session'[i].n <= offered'
  <2>1. ASSUME NEW i \in DOMAIN session'
        PROVE  session'[i].n \in Nat /\ session'[i].n <= m.n
    <3>1. CASE \E k \in DOMAIN session : session'[i] = session[k]
      <4>1. PICK k \in DOMAIN session : session'[i] = session[k]
        BY <3>1
      <4>2. session[k].n \in Nat /\ session[k].n < m.n /\ m.n \in Nat
        BY <1>4, <1>9
      <4>3. QED  BY <4>1, <4>2
    <3>2. CASE session'[i] = m
      BY <1>9, <3>2
    <3>3. QED  BY <1>7, <3>1, <3>2
  <2>2. ASSUME NEW i \in DOMAIN session', NEW j \in DOMAIN Pending'
        PROVE  session'[i].n < Pending'[j].n
    <3>1. /\ session'[i].n \in Nat /\ session'[i].n <= m.n
          /\ m.n \in Nat /\ Pending'[j].n \in Nat /\ m.n < Pending'[j].n
      BY <1>3, <1>9, <2>1
    <3>2. QED  BY <3>1
  <2>3. ASSUME NEW i \in DOMAIN session'
        PROVE  session'[i].n <= offered'
    <3>1. /\ session'[i].n \in Nat /\ session'[i].n <= m.n
          /\ m.n \in Nat /\ offered \in Nat /\ m.n <= offered /\ offered' = offered
      BY <1>4, <1>5, <1>9, <2>1 DEF FeedInv, FeedType
    <3>2. QED  BY <3>1
  <2>4. QED  BY <2>2, <2>3
<1>12. \A i \in DOMAIN session' : session'[i].body \in StateBodies
  BY <1>5, <1>7 DEF FeedInv, Ordered
<1>13. FeedType'
  BY <1>2, <1>5, <1>6, <1>7 DEF FeedInv, FeedType
<1>14. \A i \in DOMAIN session' : session'[i].body \in StateBodies'
  BY <1>12 DEF StateBodies, Qos
<1>15. QED
  BY <1>3, <1>5, <1>6, <1>8, <1>10, <1>11, <1>13, <1>14 DEF FeedInv, Ordered

LEMMA AgainFeed == ASSUME FeedInv, Feed!Again PROVE FeedInv'
<1>1. PICK k \in DOMAIN session : got' = Append(got, session[k])
  BY DEF Feed!Again
<1>2. UNCHANGED <<offered, Pending, session>>
  BY DEF Feed!Again
<1>3. session[k] \in Feed!Message /\ session[k].body \in StateBodies
  BY DEF FeedInv, FeedType, Ordered
<1> DEFINE m == session[k]
<1>4. m \in Feed!Message /\ m.body \in StateBodies /\ got' = Append(got, m)
  BY <1>1, <1>3
<1>5. m.n <= offered /\ \A j \in DOMAIN Pending : m.n < Pending[j].n
  BY DEF FeedInv, Ordered
<1> HIDE DEF m
<1>6. /\ got' \in Seq(Feed!Message)
      /\ \A j \in DOMAIN got' : (\E i \in DOMAIN got : got'[j] = got[i]) \/ got'[j] = m
      /\ Feed!InOrder'
  BY <1>4, ArriveFeed
<1>7. FeedType'
  BY <1>2, <1>6 DEF FeedInv, FeedType
<1>8. /\ \A i \in DOMAIN got', j \in DOMAIN Pending' : got'[i].n < Pending'[j].n
      /\ \A i \in DOMAIN got' : got'[i].n <= offered'
  BY <1>2, <1>5, <1>6 DEF FeedInv, Ordered
<1>9. QED
  BY <1>2, <1>6, <1>7, <1>8 DEF FeedInv, Ordered, StateBodies, Qos

LEMMA ForgetFeed == ASSUME FeedInv, Feed!Forget PROVE FeedInv'
<1>1. session \in Seq(Feed!Message) /\ session # <<>> /\ session' \in {Tail(session), <<>>}
  BY DEF FeedInv, FeedType, Feed!Forget
<1>2. /\ session' \in Seq(Feed!Message)
      /\ \A j \in DOMAIN session' : \E i \in DOMAIN session : session'[j] = session[i]
  <2>1. CASE session' = Tail(session)
    <3>1. /\ Tail(session) \in Seq(Feed!Message)
          /\ \A j \in DOMAIN Tail(session) :
                j + 1 \in DOMAIN session /\ Tail(session)[j] = session[j + 1]
      BY <1>1
    <3>2. QED  BY <2>1, <3>1
  <2>2. CASE session' = <<>>
    BY <2>2
  <2>3. QED  BY <1>1, <2>1, <2>2
<1>3. UNCHANGED <<offered, Pending, got>>
  BY DEF Feed!Forget
<1>4. QED
  BY <1>2, <1>3 DEF FeedInv, FeedType, Ordered, Feed!InOrder, StateBodies, Qos

LEMMA FeedInOrder == Feed!Spec => []Feed!InOrder
<1>1. FeedInv /\ [Feed!Next]_(Feed!vars) => FeedInv'
  <2> SUFFICES ASSUME FeedInv, [Feed!Next]_(Feed!vars) PROVE FeedInv'
    OBVIOUS
  <2>1. CASE \E b \in Bodies : Feed!Offer(b)  BY <2>1, OfferFeed
  <2>2. CASE \E arrives, keeps \in BOOLEAN : Feed!Pass(arrives, keeps)  BY <2>2, PassFeed
  <2>3. CASE Feed!Again  BY <2>3, AgainFeed
  <2>4. CASE Feed!Forget  BY <2>4, ForgetFeed
  <2>5. CASE Feed!LoseAll
    BY <2>5 DEF Feed!LoseAll, FeedInv, FeedType, Ordered, Feed!InOrder, StateBodies, Qos
  <2>6. CASE UNCHANGED Feed!vars
    BY <2>6 DEF Feed!vars, FeedInv, FeedType, Ordered, Feed!InOrder, StateBodies, Qos
  <2>7. QED  BY <2>1, <2>2, <2>3, <2>4, <2>5, <2>6 DEF Feed!Next
<1>2. FeedInv => Feed!InOrder
  BY DEF FeedInv, Ordered
<1>3. QED  BY <1>1, <1>2, InitFeed, PTL DEF Feed!Spec

\* Across all turns, failures, resends and stops, no prompt, reply or envelope
\* reaches the broker twice or after anything published later; only states do.
THEOREM DeliveredInOrder == Spec => []Feed!InOrder
BY Implements, FeedInOrder DEF IsLossyFeed

-----------------------------------------------------------------------------
(* What the broker retains.                                                *)

\* Numbers are handed out in order and kept in order; the session is older than
\* what is under way.
Numbered ==
    /\ \A i, j \in DOMAIN Pending : i < j => Pending[i].n < Pending[j].n
    /\ \A i, j \in DOMAIN session : i < j => session[i].n < session[j].n
    /\ \A i \in DOMAIN session, j \in DOMAIN Pending : session[i].n < Pending[j].n
    /\ \A i \in DOMAIN Pending : Pending[i].n <= offered
    /\ \A i \in DOMAIN session : session[i].n <= offered
    /\ \A d \in Devices : last[d] <= offered /\ retained[d] <= last[d]

\* The states of a device under way are newer than the one retained and no
\* newer than the last one; under the number of that one there is nothing else.
StatesBetween ==
    \A d \in Devices, i \in DOMAIN Pending :
        /\ IsState(Pending[i], d) => retained[d] < Pending[i].n /\ Pending[i].n <= last[d]
        /\ Pending[i].n = last[d] => IsState(Pending[i], d)

\* So it is with the states in the session, but for the one retained.
StatesKept ==
    \A d \in Devices, i \in DOMAIN session :
        /\ IsState(session[i], d) => session[i].n <= last[d]
        /\ session[i].n = last[d] => IsState(session[i], d)

\* The latest state of a device in the session that is at the broker over this
\* connection is the one it retains.
LatestRetained ==
    \A d \in Devices, i \in DOMAIN session :
        (/\ i <= Sent /\ IsState(session[i], d)
         /\ \A j \in DOMAIN session : i < j /\ j <= Sent => ~IsState(session[j], d))
        => retained[d] = session[i].n

\* Once the last state of a device is acknowledged, no state of it can come again.
NoneKept ==
    \A d \in Devices :
        (~failed[d] /\ \A i \in DOMAIN Pending : Pending[i].n # last[d])
            => \A i \in DOMAIN session : ~IsState(session[i], d)

RetainInv ==
    Numbered /\ StatesBetween /\ StatesKept /\ LatestRetained /\ NoneKept /\ RetainedIsLast

LEMMA InitRetain == Init => RetainInv
<1> SUFFICES ASSUME Init PROVE RetainInv
  OBVIOUS
<1>1. Pending = <<>>
  BY InitType, PendingType DEF Init
<1>2. QED
  BY <1>1 DEF Init, RetainInv, Numbered, StatesBetween, StatesKept, LatestRetained, NoneKept,
              RetainedIsLast

\* A step that leaves alone what is under way and kept, and the histories, keeps it.
LEMMA StillRetain ==
  ASSUME RetainInv, Pending' = Pending, UNCHANGED <<session, due, offered, retained, last, failed>>
  PROVE  RetainInv'
BY DEF RetainInv, Numbered, StatesBetween, StatesKept, LatestRetained, NoneKept, RetainedIsLast,
       Sent, IsState

\* The numbers of what the relay holds are numbers.
LEMMA Naturals ==
  ASSUME TypeOK
  PROVE  /\ offered \in Nat
         /\ \A i \in DOMAIN Pending : i \in Nat /\ Pending[i] \in Msg /\ Pending[i].n \in Nat
         /\ \A i \in DOMAIN session :
               /\ i \in Nat /\ i > 0 /\ i <= Len(session)
               /\ session[i] \in Msg /\ session[i].n \in Nat
         /\ \A d \in Devices : last[d] \in Nat /\ retained[d] \in Nat /\ failed[d] \in BOOLEAN
         /\ Len(session) \in Nat /\ due \in Nat /\ due <= Len(session)
<1>1. /\ Pending \in Seq(Msg) /\ session \in Seq(Msg) /\ offered \in Nat
      /\ due \in 0 .. Len(session)
      /\ last \in [Devices -> Nat] /\ retained \in [Devices -> Nat] /\ failed \in [Devices -> BOOLEAN]
  BY PendingType DEF TypeOK
<1>2. \A m \in Msg : m.n \in Nat
  BY DEF Msg
<1>3. /\ \A i \in DOMAIN Pending : i \in Nat /\ Pending[i] \in Msg
      /\ \A i \in DOMAIN session : i \in Nat /\ i > 0 /\ i <= Len(session) /\ session[i] \in Msg
      /\ Len(session) \in Nat
  BY <1>1
<1>4. QED  BY <1>1, <1>2, <1>3

LEMMA PublishRetain ==
  ASSUME TypeOK, RetainInv, NEW t \in Turns, Publish(t)
  PROVE  RetainInv'
<1> DEFINE m == Published(t)
           e == DeviceOf[t]
           states == Script[at[t]] = "state"
<1>1. /\ offered' = offered + 1 /\ offered \in Nat /\ retained' = retained
      /\ last' = IF states THEN [last EXCEPT ![e] = offered + 1] ELSE last
      /\ failed' = IF states THEN [failed EXCEPT ![e] = ~Room] ELSE failed
      /\ session' = session /\ due' = due
  BY DEF Publish, TypeOK, sessionVars
<1>2. /\ m \in Msg
      /\ Room => Pending' = Append(Pending, m)
      /\ ~Room => Pending' = Pending
  BY PublishPending
<1>3. /\ m.n = offered + 1
      /\ \A d \in Devices : IsState(m, d) <=> states /\ d = e
  BY DEF Published, IsState
<1>4. Pending \in Seq(Msg)
  BY PendingType
<1>5. /\ e \in Devices
      /\ \A d \in Devices : last[d] \in Nat /\ retained[d] \in Nat /\ last[d] <= offered
                            /\ retained[d] <= offered /\ retained[d] <= last[d]
      /\ last \in [Devices -> Nat] /\ failed \in [Devices -> BOOLEAN]
  <2>1. last \in [Devices -> Nat] /\ retained \in [Devices -> Nat] /\ failed \in [Devices -> BOOLEAN]
    BY DEF TypeOK
  <2>2. \A d \in Devices : last[d] <= offered /\ retained[d] <= last[d]
    BY DEF RetainInv, Numbered
  <2>3. QED  BY <1>1, <2>1, <2>2
<1>6. \A i \in DOMAIN Pending : Pending[i].n \in Nat /\ Pending[i].n <= offered
  <2>1. \A i \in DOMAIN Pending : Pending[i] \in Msg
    BY <1>4
  <2>2. QED  BY <2>1 DEF Msg, RetainInv, Numbered
<1>7. \A d \in Devices : last'[d] = IF states /\ d = e THEN offered + 1 ELSE last[d]
  BY <1>1, <1>5
<1>8. \A d \in Devices : failed'[d] = IF states /\ d = e THEN ~Room ELSE failed[d]
  BY <1>1, <1>5
\* What is under way afterwards was before, or is the new message at the end.
<1>9. /\ \A i \in DOMAIN Pending' :
            \/ i \in DOMAIN Pending /\ Pending'[i] = Pending[i]
            \/ i = Len(Pending) + 1 /\ Pending'[i] = m
      /\ \A i \in DOMAIN Pending : i \in DOMAIN Pending' /\ Pending'[i] = Pending[i]
      /\ Room => Len(Pending) + 1 \in DOMAIN Pending' /\ Pending'[Len(Pending) + 1] = m
  <2> HIDE DEF m
  <2> DEFINE p == Pending
             q == Pending'
  <2>1. p \in Seq(Msg) /\ q = IF Room THEN Append(p, m) ELSE p
    BY <1>2, <1>4
  <2> HIDE DEF p, q
  <2>2. CASE Room
    <3>1. q = Append(p, m)  BY <2>1, <2>2
    <3>2. /\ DOMAIN p = 1 .. Len(p) /\ DOMAIN q = 1 .. Len(p) + 1 /\ Len(p) \in Nat
          /\ \A i \in DOMAIN p : q[i] = p[i]
          /\ q[Len(p) + 1] = m
      BY <2>1, <3>1
    <3>3. QED  BY <2>2, <3>2 DEF p, q
  <2>3. CASE ~Room
    <3>1. q = p  BY <2>1, <2>3
    <3>2. QED  BY <2>3, <3>1 DEF p, q
  <2>4. QED  BY <2>2, <2>3
<1>10. \A i \in DOMAIN Pending' : i \in Nat /\ i <= Len(Pending) + 1
  BY <1>4, <1>9
<1> HIDE DEF m, e, states
<1>11. Numbered'
  <2>1. ASSUME NEW i \in DOMAIN Pending', NEW j \in DOMAIN Pending', i < j
        PROVE  Pending'[i].n < Pending'[j].n
    <3>1. i \in DOMAIN Pending /\ Pending'[i] = Pending[i]
      BY <1>9, <1>10, <2>1
    <3>2. CASE j \in DOMAIN Pending /\ Pending'[j] = Pending[j]
      BY <2>1, <3>1, <3>2 DEF RetainInv, Numbered
    <3>3. CASE Pending'[j] = m
      BY <1>1, <1>3, <1>6, <3>1, <3>3
    <3>4. QED  BY <1>9, <3>2, <3>3
  <2>2. \A i \in DOMAIN Pending' : Pending'[i].n <= offered'
    BY <1>1, <1>3, <1>6, <1>9
  <2>5. \A i \in DOMAIN session : session[i].n \in Nat /\ session[i].n <= offered
    BY Naturals DEF RetainInv, Numbered
  <2>6. \A i \in DOMAIN session', j \in DOMAIN Pending' : session'[i].n < Pending'[j].n
    BY <1>1, <1>3, <1>9, <2>5 DEF RetainInv, Numbered
  <2>7. \A i, j \in DOMAIN session' : i < j => session'[i].n < session'[j].n
    BY <1>1 DEF RetainInv, Numbered
  <2>3. \A d \in Devices : last'[d] <= offered' /\ retained'[d] <= last'[d]
    BY <1>1, <1>5, <1>7
  <2>8. \A i \in DOMAIN session' : session'[i].n <= offered'
    BY <1>1, <2>5
  <2>4. QED  BY <2>1, <2>2, <2>3, <2>6, <2>7, <2>8 DEF Numbered
<1>12. StatesBetween'
  <2> SUFFICES ASSUME NEW d \in Devices, NEW i \in DOMAIN Pending'
               PROVE  /\ IsState(Pending'[i], d) =>
                            retained[d] < Pending'[i].n /\ Pending'[i].n <= last'[d]
                      /\ Pending'[i].n = last'[d] => IsState(Pending'[i], d)
    BY <1>1 DEF StatesBetween, IsState
  <2>1. CASE i \in DOMAIN Pending /\ Pending'[i] = Pending[i]
    <3>1. /\ IsState(Pending[i], d) => retained[d] < Pending[i].n /\ Pending[i].n <= last[d]
          /\ Pending[i].n = last[d] => IsState(Pending[i], d)
      BY <2>1 DEF RetainInv, StatesBetween
    <3>2. Pending[i].n \in Nat /\ Pending[i].n <= offered
      BY <1>6, <2>1
    <3>3. last[d] \in Nat /\ last[d] <= offered /\ retained[d] \in Nat
      BY <1>5
    <3>4. QED  BY <1>1, <1>7, <2>1, <3>1, <3>2, <3>3
  <2>2. CASE Pending'[i] = m
    BY <1>1, <1>3, <1>5, <1>7, <2>2
  <2>3. QED  BY <1>9, <2>1, <2>2
<1>13. RetainedIsLast'
  <2> SUFFICES ASSUME NEW d \in Devices
               PROVE  \/ failed'[d]
                      \/ \E i \in DOMAIN Pending' : Pending'[i].n = last'[d]
                      \/ retained'[d] = last'[d]
    BY DEF RetainedIsLast
  <2>1. CASE states /\ d = e
    BY <1>3, <1>7, <1>8, <1>9, <2>1
  <2>2. CASE ~(states /\ d = e)
    BY <1>1, <1>7, <1>8, <1>9, <2>2 DEF RetainInv, RetainedIsLast
  <2>3. QED  BY <2>1, <2>2
<1>14. \A i \in DOMAIN session : session[i].n \in Nat /\ session[i].n <= offered
  BY Naturals DEF RetainInv, Numbered
<1>15. StatesKept'
  <2> SUFFICES ASSUME NEW d \in Devices, NEW i \in DOMAIN session
               PROVE  /\ IsState(session[i], d) => session[i].n <= last'[d]
                      /\ session[i].n = last'[d] => IsState(session[i], d)
    BY <1>1 DEF StatesKept, IsState
  <2>1. /\ IsState(session[i], d) => session[i].n <= last[d]
        /\ session[i].n = last[d] => IsState(session[i], d)
    BY DEF RetainInv, StatesKept
  <2>2. session[i].n \in Nat /\ session[i].n <= offered /\ session[i].n < offered + 1
        /\ session[i].n # offered + 1
    BY <1>1, <1>14
  <2>3. CASE states /\ d = e
    <3>1. last'[d] = offered + 1  BY <1>7, <2>3
    <3>2. QED  BY <1>1, <2>2, <3>1
  <2>4. CASE ~(states /\ d = e)
    <3>1. last'[d] = last[d]  BY <1>7, <2>4
    <3>2. QED  BY <2>1, <3>1
  <2>5. QED  BY <2>3, <2>4
<1>16. LatestRetained'
  BY <1>1 DEF RetainInv, LatestRetained, Sent, IsState
<1>17. NoneKept'
  <2> SUFFICES ASSUME NEW d \in Devices, ~failed'[d],
                      \A i \in DOMAIN Pending' : Pending'[i].n # last'[d]
               PROVE  \A i \in DOMAIN session : ~IsState(session[i], d)
    BY <1>1 DEF NoneKept, IsState
  <2>1. ~(states /\ d = e)
    BY <1>3, <1>7, <1>8, <1>9
  <2>2. last'[d] = last[d] /\ ~failed[d]
    BY <1>7, <1>8, <2>1
  <2>3. \A i \in DOMAIN Pending : Pending[i].n # last[d]
    BY <1>9, <2>2
  <2>4. QED  BY <2>2, <2>3 DEF RetainInv, NoneKept
<1>18. QED  BY <1>11, <1>12, <1>13, <1>15, <1>16, <1>17 DEF RetainInv

LEMMA SendRetain ==
  ASSUME TypeOK, RetainInv, NEW arrived \in BOOLEAN, NEW ok \in BOOLEAN, NEW kept \in BOOLEAN,
         SendEnds(arrived, ok, kept)
  PROVE  RetainInv'
<1> DEFINE e == sending.body.dev
<1>1. Pending \in Seq(Msg) /\ Pending # <<>> /\ Head(Pending) = sending /\ Pending' = Tail(Pending)
  BY PendingType, SendPending
<1>2. /\ 1 \in DOMAIN Pending /\ Pending[1] = sending
      /\ \A i \in DOMAIN Pending' :
            /\ i \in Nat /\ i > 0
            /\ i + 1 \in DOMAIN Pending /\ Pending'[i] = Pending[i + 1]
      /\ \A i \in DOMAIN Pending :
            i = 1 \/ (i - 1 \in DOMAIN Pending' /\ Pending'[i - 1] = Pending[i])
  BY <1>1
<1>3. sending \in Msg
  BY <1>1, <1>2
<1>4. sending.n \in Nat /\ e \in Devices
  BY <1>3 DEF Msg, Bodies
<1>5. /\ offered' = offered /\ last' = last
      /\ retained' = IF arrived /\ IsState(sending, e)
                     THEN [retained EXCEPT ![e] = sending.n] ELSE retained
      /\ failed' = IF ~ok /\ IsState(sending, e) /\ last[e] = sending.n
                   THEN [failed EXCEPT ![e] = TRUE] ELSE failed
      /\ session' = IF kept THEN Append(session, sending) ELSE session
      /\ due' = IF kept /\ ~arrived THEN due + 1 ELSE due
      /\ arrived => due = 0
      /\ \/ Qos(sending) = 0 /\ ~kept
         \/ Qos(sending) = 1 /\ (ok => arrived /\ session = <<>> /\ ~kept) /\ (arrived /\ ~ok => kept)
  BY DEF SendEnds, Reaches
<1>6. /\ last \in [Devices -> Nat] /\ retained \in [Devices -> Nat]
      /\ failed \in [Devices -> BOOLEAN]
  BY DEF TypeOK
<1>7. \A d \in Devices : IsState(sending, d) => d = e
  BY DEF IsState
<1>8. \A d \in Devices : IsState(sending, d) => retained[d] < sending.n /\ sending.n <= last[d]
  BY <1>2 DEF RetainInv, StatesBetween
<1>9. \A d \in Devices : retained'[d] = IF arrived /\ IsState(sending, d) THEN sending.n ELSE retained[d]
  BY <1>4, <1>5, <1>6, <1>7
<1>10. \A i \in DOMAIN Pending' : sending.n < Pending'[i].n
  <2> SUFFICES ASSUME NEW i \in DOMAIN Pending' PROVE Pending[1].n < Pending[i + 1].n
    BY <1>2
  <2>1. 1 < i + 1 /\ i + 1 \in DOMAIN Pending /\ 1 \in DOMAIN Pending
    BY <1>2
  <2>2. QED  BY <2>1 DEF RetainInv, Numbered
<1>15. /\ Len(session) \in Nat /\ DOMAIN session = 1 .. Len(session)
       /\ \A i \in DOMAIN session' :
             /\ i \in Nat
             /\ \/ i \in DOMAIN session /\ i <= Len(session) /\ session'[i] = session[i]
                \/ kept /\ i = Len(session) + 1 /\ session'[i] = sending
       /\ \A i \in DOMAIN session : i \in DOMAIN session' /\ session'[i] = session[i]
       /\ Len(session') = IF kept THEN Len(session) + 1 ELSE Len(session)
  <2>1. session \in Seq(Msg)  BY DEF TypeOK
  <2>2. CASE kept
    <3>1. session' = Append(session, sending)  BY <1>5, <2>2
    <3>2. QED  BY <1>3, <2>1, <2>2, <3>1
  <2>3. CASE ~kept  BY <1>5, <2>1, <2>3
  <2>4. QED  BY <2>2, <2>3
<1>16. \A i \in DOMAIN session : session[i].n \in Nat /\ session[i].n < sending.n
  BY <1>2, Naturals DEF RetainInv, Numbered
<1>17. sending.n <= offered
  BY <1>2 DEF RetainInv, Numbered
<1>18. \A d \in Devices : sending.n = last[d] => IsState(sending, d)
  BY <1>2 DEF RetainInv, StatesBetween
<1>19. \A d \in Devices : failed'[d] = (failed[d] \/ (~ok /\ IsState(sending, d) /\ last[d] = sending.n))
  <2>1. \A d \in Devices : failed[d] \in BOOLEAN
    BY <1>6
  <2>2. QED  BY <1>4, <1>5, <1>6, <1>7, <2>1
<1> HIDE DEF e
<1>11. Numbered'
  <2>1. ASSUME NEW i \in DOMAIN Pending', NEW j \in DOMAIN Pending', i < j
        PROVE  Pending'[i].n < Pending'[j].n
    <3>1. i + 1 < j + 1 /\ i + 1 \in DOMAIN Pending /\ j + 1 \in DOMAIN Pending
      BY <1>2, <2>1
    <3>2. Pending[i + 1].n < Pending[j + 1].n
      BY <3>1 DEF RetainInv, Numbered
    <3>3. QED  BY <1>2, <3>2
  <2>2. \A i \in DOMAIN Pending' : Pending'[i].n <= offered'
    BY <1>2, <1>5 DEF RetainInv, Numbered
  <2>3. \A d \in Devices : last'[d] <= offered' /\ retained'[d] <= last'[d]
    BY <1>5, <1>8, <1>9 DEF RetainInv, Numbered
  <2>4. ASSUME NEW i \in DOMAIN session', NEW j \in DOMAIN session', i < j
        PROVE  session'[i].n < session'[j].n
    <3>1. i \in DOMAIN session /\ session'[i] = session[i]
      BY <1>15, <2>4
    <3>2. CASE j \in DOMAIN session /\ session'[j] = session[j]
      BY <2>4, <3>1, <3>2 DEF RetainInv, Numbered
    <3>3. CASE session'[j] = sending
      BY <1>16, <3>1, <3>3
    <3>4. QED  BY <1>15, <3>2, <3>3
  <2>5. ASSUME NEW i \in DOMAIN session', NEW j \in DOMAIN Pending'
        PROVE  session'[i].n < Pending'[j].n
    <3>1. CASE i \in DOMAIN session /\ session'[i] = session[i]
      BY <1>2, <3>1 DEF RetainInv, Numbered
    <3>2. CASE session'[i] = sending
      BY <1>10, <3>2
    <3>3. QED  BY <1>15, <3>1, <3>2
  <2>6. \A i \in DOMAIN session' : session'[i].n <= offered'
    BY <1>5, <1>15, <1>17 DEF RetainInv, Numbered
  <2>7. QED  BY <2>1, <2>2, <2>3, <2>4, <2>5, <2>6 DEF Numbered
<1>12. StatesBetween'
  <2> SUFFICES ASSUME NEW d \in Devices, NEW i \in DOMAIN Pending'
               PROVE  /\ IsState(Pending'[i], d) =>
                            retained'[d] < Pending'[i].n /\ Pending'[i].n <= last[d]
                      /\ Pending'[i].n = last[d] => IsState(Pending'[i], d)
    BY <1>5 DEF StatesBetween, IsState
  <2>1. /\ IsState(Pending'[i], d) => retained[d] < Pending'[i].n /\ Pending'[i].n <= last[d]
        /\ Pending'[i].n = last[d] => IsState(Pending'[i], d)
    BY <1>2 DEF RetainInv, StatesBetween
  <2>2. QED  BY <1>9, <1>10, <2>1
<1>13. RetainedIsLast'
  <2> SUFFICES ASSUME NEW d \in Devices, ~failed'[d], retained'[d] # last[d]
               PROVE  \E i \in DOMAIN Pending' : Pending'[i].n = last[d]
    BY <1>5 DEF RetainedIsLast
  <2>1. ~failed[d]
    BY <1>19
  <2>2. retained[d] # last[d]
    <3>1. CASE arrived /\ IsState(sending, d)
      <4>1. retained[d] < sending.n /\ sending.n <= last[d]
        BY <1>8, <3>1
      <4>2. QED  BY <1>4, <1>6, <4>1
    <3>2. CASE ~(arrived /\ IsState(sending, d))
      BY <1>9, <3>2
    <3>3. QED  BY <3>1, <3>2
  <2>3. PICK i \in DOMAIN Pending : Pending[i].n = last[d]
    BY <2>1, <2>2 DEF RetainInv, RetainedIsLast
  <2>4. i # 1
    <3> SUFFICES ASSUME i = 1 PROVE FALSE
      OBVIOUS
    <3>1. sending.n = last[d] /\ IsState(sending, d)
      BY <1>2, <2>3 DEF RetainInv, StatesBetween
    <3>2. ~arrived
      BY <1>9, <3>1
    <3>3. Qos(sending) = 1
      BY <3>1 DEF IsState, Qos
    <3>4. ~ok
      BY <1>5, <3>2, <3>3
    <3>5. failed'[d]
      BY <1>19, <3>1, <3>4
    <3>6. QED  BY <3>5
  <2>5. QED  BY <1>2, <2>3, <2>4
<1>20. StatesKept'
  <2> SUFFICES ASSUME NEW d \in Devices, NEW i \in DOMAIN session'
               PROVE  /\ IsState(session'[i], d) => session'[i].n <= last[d]
                      /\ session'[i].n = last[d] => IsState(session'[i], d)
    BY <1>5 DEF StatesKept, IsState
  <2>1. CASE i \in DOMAIN session /\ session'[i] = session[i]
    BY <2>1 DEF RetainInv, StatesKept
  <2>2. CASE session'[i] = sending
    BY <1>8, <1>18, <2>2
  <2>3. QED  BY <1>15, <2>1, <2>2
<1>21. LatestRetained'
  <2> SUFFICES ASSUME NEW d \in Devices, NEW i \in DOMAIN session', i <= Sent', IsState(session'[i], d),
                      \A j \in DOMAIN session' : i < j /\ j <= Sent' => ~IsState(session'[j], d)
               PROVE  retained'[d] = session'[i].n
    BY DEF LatestRetained, IsState
  <2>1. /\ Sent = Len(session) - due /\ Sent' = Len(session') - due'
        /\ due \in Nat /\ due <= Len(session) /\ Len(session) \in Nat
    BY Naturals DEF Sent
  <2>2. Sent' = IF kept /\ arrived THEN Len(session) + 1 ELSE Sent
    <3>1. CASE kept /\ arrived
      <4>1. Len(session') = Len(session) + 1 /\ due' = due /\ due = 0
        BY <1>5, <1>15, <3>1
      <4>2. QED  BY <2>1, <3>1, <4>1
    <3>2. CASE kept /\ ~arrived
      <4>1. Len(session') = Len(session) + 1 /\ due' = due + 1
        BY <1>5, <1>15, <3>2
      <4>2. QED  BY <2>1, <3>2, <4>1
    <3>3. CASE ~kept
      <4>1. Len(session') = Len(session) /\ due' = due
        BY <1>5, <1>15, <3>3
      <4>2. QED  BY <2>1, <3>3, <4>1
    <3>4. QED  BY <3>1, <3>2, <3>3
  <2>3. CASE kept /\ arrived
    <3>1. /\ Len(session) + 1 \in DOMAIN session' /\ session'[Len(session) + 1] = sending
          /\ Sent = Len(session) /\ Sent' = Len(session) + 1
      <4>1. Sent = Len(session)  BY <1>5, <2>1, <2>3
      <4>2. session \in Seq(Msg)  BY DEF TypeOK
      <4>3. session' = Append(session, sending)  BY <1>5, <2>3
      <4>4. Len(session) + 1 \in DOMAIN session' /\ session'[Len(session) + 1] = sending
        BY <1>3, <4>2, <4>3
      <4>5. QED  BY <2>2, <2>3, <4>1, <4>4
    <3>2. CASE session'[i] = sending
      BY <1>9, <2>3, <3>2
    <3>3. CASE i \in DOMAIN session /\ session'[i] = session[i]
      <4>1. i <= Len(session) /\ i < Len(session) + 1
        BY <1>15, <2>1, <3>3
      <4>2. ~IsState(sending, d)
        BY <3>1, <4>1
      <4>3. \A j \in DOMAIN session : i < j /\ j <= Sent => ~IsState(session[j], d)
        BY <1>15, <2>1, <3>1
      <4>4. retained[d] = session[i].n
        BY <3>1, <3>3, <4>1, <4>3 DEF RetainInv, LatestRetained
      <4>5. QED  BY <1>9, <3>3, <4>2, <4>4
    <3>4. QED  BY <1>15, <3>2, <3>3
  <2>4. CASE ~(kept /\ arrived)
    <3>1. Sent' = Sent /\ Sent <= Len(session)
      BY <2>1, <2>2, <2>4
    <3>2. i \in DOMAIN session /\ session'[i] = session[i]
      BY <1>15, <2>1, <3>1
    <3>3. \A j \in DOMAIN session : i < j /\ j <= Sent => ~IsState(session[j], d)
      BY <1>15, <3>1
    <3>4. retained[d] = session[i].n
      BY <3>1, <3>2, <3>3 DEF RetainInv, LatestRetained
    <3>5. ~(arrived /\ IsState(sending, d))
      <4> SUFFICES ASSUME arrived, IsState(sending, d) PROVE FALSE
        OBVIOUS
      <4>1. Qos(sending) = 1  BY DEF IsState, Qos
      <4>2. session = <<>>  BY <1>5, <2>4, <4>1
      <4>3. QED  BY <3>2, <4>2
    <3>6. QED  BY <1>9, <3>2, <3>4, <3>5
  <2>5. QED  BY <2>3, <2>4
<1>22. NoneKept'
  <2> SUFFICES ASSUME NEW d \in Devices, ~failed'[d],
                      \A i \in DOMAIN Pending' : Pending'[i].n # last[d]
               PROVE  \A i \in DOMAIN session' : ~IsState(session'[i], d)
    BY <1>5 DEF NoneKept, IsState
  <2>1. ~failed[d] /\ ~(~ok /\ IsState(sending, d) /\ last[d] = sending.n)
    BY <1>19
  <2>2. CASE sending.n = last[d]
    <3>1. IsState(sending, d)
      BY <1>18, <2>2
    <3>2. Qos(sending) = 1 /\ ok
      BY <2>1, <2>2, <3>1 DEF IsState, Qos
    <3>3. session = <<>> /\ ~kept
      BY <1>5, <3>2
    <3>4. QED  BY <1>5, <3>3
  <2>3. CASE sending.n # last[d]
    <3>1. \A i \in DOMAIN Pending : Pending[i].n # last[d]
      BY <1>2, <2>3
    <3>2. \A i \in DOMAIN session : ~IsState(session[i], d)
      BY <2>1, <3>1 DEF RetainInv, NoneKept
    <3>3. ~IsState(sending, d)
      <4>1. retained[d] = last[d]
        BY <2>1, <3>1 DEF RetainInv, RetainedIsLast
      <4>2. last[d] \in Nat
        BY <1>6
      <4>3. QED  BY <1>4, <1>8, <4>1, <4>2
    <3>4. QED  BY <1>15, <3>2, <3>3
  <2>4. QED  BY <2>2, <2>3
<1>14. QED  BY <1>11, <1>12, <1>13, <1>20, <1>21, <1>22 DEF RetainInv

\* A state that arrives late or again does no harm: the last one of its device is
\* known to have failed, or is still under way.
LEMMA KeptArrivesRetain == ASSUME TypeOK, RetainInv, KeptArrives PROVE RetainInv'
<1> DEFINE k == Sent + 1
           m == session[k]
<1>1. /\ Pending' = Pending /\ UNCHANGED <<session, offered, last, failed>>
      /\ due' = due - 1 /\ due > 0 /\ Reaches(m)
  BY OtherPending DEF KeptArrives
<1>2. k \in DOMAIN session /\ m \in Msg /\ Sent \in Nat
  BY KeptIsMsg DEF KeptArrives
<1>3. /\ Sent = Len(session) - due /\ Sent' = Len(session) - due' /\ Len(session) \in Nat
      /\ due \in Nat
  BY <1>1, Naturals DEF Sent
<1>4. Sent' = k
  BY <1>1, <1>3
<1>5. \A d \in Devices : retained'[d] = IF IsState(m, d) THEN m.n ELSE retained[d]
  <2>1. retained \in [Devices -> Nat] /\ m.body.dev \in Devices
    BY <1>2 DEF TypeOK, Msg, Bodies
  <2>2. \A d \in Devices : IsState(m, d) => d = m.body.dev
    BY DEF IsState
  <2> HIDE DEF m
  <2>3. QED  BY <1>1, <2>1, <2>2 DEF Reaches
<1>6. /\ m.n \in Nat
      /\ \A j \in DOMAIN Pending : m.n < Pending[j].n
      /\ \A d \in Devices : IsState(m, d) => m.n <= last[d]
  BY <1>2, Naturals DEF RetainInv, Numbered, StatesKept
<1>7. Numbered'
  BY <1>1, <1>5, <1>6 DEF RetainInv, Numbered
<1> HIDE DEF m
<1>8. StatesBetween'
  <2> SUFFICES ASSUME NEW d \in Devices, NEW i \in DOMAIN Pending
               PROVE  /\ IsState(Pending[i], d) =>
                            retained'[d] < Pending[i].n /\ Pending[i].n <= last[d]
                      /\ Pending[i].n = last[d] => IsState(Pending[i], d)
    BY <1>1 DEF StatesBetween, IsState
  <2>1. /\ IsState(Pending[i], d) => retained[d] < Pending[i].n /\ Pending[i].n <= last[d]
        /\ Pending[i].n = last[d] => IsState(Pending[i], d)
    BY DEF RetainInv, StatesBetween
  <2>2. QED  BY <1>5, <1>6, <2>1
<1>9. StatesKept'
  BY <1>1 DEF RetainInv, StatesKept, IsState
<1>10. LatestRetained'
  <2> SUFFICES ASSUME NEW d \in Devices, NEW i \in DOMAIN session, i <= k, IsState(session[i], d),
                      \A j \in DOMAIN session : i < j /\ j <= k => ~IsState(session[j], d)
               PROVE  retained'[d] = session[i].n
    BY <1>1, <1>4 DEF LatestRetained, IsState
  <2>1. CASE i = k
    BY <1>5, <2>1 DEF m
  <2>2. CASE i # k
    <3>1. i <= Sent /\ i < k /\ \A j \in DOMAIN session : j <= Sent => j <= k
      <4>1. i \in Nat /\ \A j \in DOMAIN session : j \in Nat
        BY Naturals
      <4>2. QED  BY <1>2, <2>2, <4>1
    <3>2. ~IsState(m, d)
      BY <1>2, <3>1 DEF m
    <3>3. retained[d] = session[i].n
      BY <3>1 DEF RetainInv, LatestRetained
    <3>4. QED  BY <1>5, <3>2, <3>3
  <2>3. QED  BY <2>1, <2>2
<1>11. NoneKept'
  BY <1>1 DEF RetainInv, NoneKept, IsState
<1>12. RetainedIsLast'
  <2> SUFFICES ASSUME NEW d \in Devices, ~failed[d],
                      \A i \in DOMAIN Pending : Pending[i].n # last[d]
               PROVE  retained'[d] = last[d]
    BY <1>1 DEF RetainedIsLast
  <2>1. retained[d] = last[d]
    BY DEF RetainInv, RetainedIsLast
  <2>2. ~IsState(m, d)
    BY <1>2 DEF RetainInv, NoneKept, m
  <2>3. QED  BY <1>5, <2>1, <2>2
<1>13. QED  BY <1>7, <1>8, <1>9, <1>10, <1>11, <1>12 DEF RetainInv

\* An acknowledged state that is the last of its device is the one retained.
LEMMA AcknowledgedRetain == ASSUME TypeOK, RetainInv, Acknowledged PROVE RetainInv'
<1> DEFINE m == Head(session)
           e == m.body.dev
<1>1. /\ Pending' = Pending /\ UNCHANGED <<due, offered, last, retained>>
      /\ session' = Tail(session) /\ Sent > 0
      /\ failed' = IF last[e] = m.n THEN [failed EXCEPT ![e] = FALSE] ELSE failed
  BY OtherPending DEF Acknowledged
<1>2. session \in Seq(Msg) /\ due \in Nat /\ Sent = Len(session) - due /\ Len(session) \in Nat
  BY Naturals DEF TypeOK, Sent
<1>3. session # <<>>
  BY <1>1, <1>2
<1>4. /\ 1 \in DOMAIN session /\ session[1] = m /\ m \in Msg
      /\ Len(session') = Len(session) - 1
      /\ \A i \in DOMAIN session' :
            i \in Nat /\ i > 0 /\ i + 1 \in DOMAIN session /\ session'[i] = session[i + 1]
      /\ \A i \in DOMAIN session :
            i = 1 \/ (i \in Nat /\ i - 1 \in DOMAIN session' /\ session'[i - 1] = session[i])
  BY <1>1, <1>2, <1>3
<1> HIDE DEF m
<1>5. Sent' = Sent - 1 /\ Sent \in Nat /\ 1 <= Sent
  <2>1. Sent' = Len(session') - due'
    BY DEF Sent
  <2>2. QED  BY <1>1, <1>2, <1>4, <2>1, Naturals
<1>6. /\ m.n \in Nat /\ e \in Devices
      /\ \A i \in DOMAIN session' : session'[i].n \in Nat /\ m.n < session'[i].n
  <2>1. m.n \in Nat /\ e \in Devices
    BY <1>4 DEF Msg, Bodies
  <2>2. ASSUME NEW i \in DOMAIN session' PROVE session'[i].n \in Nat /\ m.n < session'[i].n
    <3>1. 1 < i + 1 /\ i + 1 \in DOMAIN session /\ session'[i] = session[i + 1]
      BY <1>4
    <3>2. session[1].n < session[i + 1].n /\ session[i + 1].n \in Nat
      BY <1>4, <3>1, Naturals DEF RetainInv, Numbered
    <3>3. QED  BY <1>4, <3>1, <3>2
  <2>3. QED  BY <2>1, <2>2
<1> HIDE DEF e
<1>7. \A d \in Devices : failed'[d] = (failed[d] /\ ~(d = e /\ last[e] = m.n))
  <2>1. failed \in [Devices -> BOOLEAN]
    BY DEF TypeOK
  <2>2. QED  BY <1>1, <1>6, <2>1
<1>8. Numbered'
  <2>1. ASSUME NEW i \in DOMAIN session', NEW j \in DOMAIN session', i < j
        PROVE  session'[i].n < session'[j].n
    <3>1. i + 1 < j + 1 /\ i + 1 \in DOMAIN session /\ j + 1 \in DOMAIN session
      BY <1>4, <2>1
    <3>2. QED  BY <1>4, <3>1 DEF RetainInv, Numbered
  <2>2. /\ \A i \in DOMAIN session', j \in DOMAIN Pending' : session'[i].n < Pending'[j].n
        /\ \A i \in DOMAIN session' : session'[i].n <= offered'
    BY <1>1, <1>4 DEF RetainInv, Numbered
  <2>3. QED  BY <1>1, <2>1, <2>2 DEF RetainInv, Numbered
<1>9. StatesBetween'
  BY <1>1 DEF RetainInv, StatesBetween, IsState
<1>10. StatesKept'
  <2> SUFFICES ASSUME NEW d \in Devices, NEW i \in DOMAIN session'
               PROVE  /\ IsState(session'[i], d) => session'[i].n <= last[d]
                      /\ session'[i].n = last[d] => IsState(session'[i], d)
    BY <1>1 DEF StatesKept, IsState
  <2>1. i + 1 \in DOMAIN session /\ session'[i] = session[i + 1]
    BY <1>4
  <2>2. QED  BY <2>1 DEF RetainInv, StatesKept
<1>11. LatestRetained'
  <2> SUFFICES ASSUME NEW d \in Devices, NEW i \in DOMAIN session', i <= Sent',
                      IsState(session'[i], d),
                      \A j \in DOMAIN session' : i < j /\ j <= Sent' => ~IsState(session'[j], d)
               PROVE  retained[d] = session'[i].n
    BY <1>1 DEF LatestRetained, IsState
  <2>1. i \in Nat /\ i > 0 /\ i + 1 \in DOMAIN session /\ session'[i] = session[i + 1] /\ i + 1 <= Sent
    BY <1>4, <1>5
  <2>2. ASSUME NEW j \in DOMAIN session, i + 1 < j, j <= Sent PROVE ~IsState(session[j], d)
    <3>1. j # 1
      BY <2>1, <2>2
    <3>2. j \in Nat /\ j - 1 \in DOMAIN session' /\ session'[j - 1] = session[j]
      BY <1>4, <3>1
    <3>3. i < j - 1 /\ j - 1 <= Sent'
      BY <1>5, <2>1, <2>2, <3>2
    <3>4. QED  BY <3>2, <3>3
  <2>3. QED  BY <2>1, <2>2 DEF RetainInv, LatestRetained
\* What this step adds: the last state of its device, acknowledged.
<1>12. ASSUME NEW d \in Devices, d = e, last[e] = m.n
       PROVE  /\ retained[d] = last[d]
              /\ \A i \in DOMAIN session' : ~IsState(session'[i], d)
  <2>1. IsState(m, d)
    BY <1>4, <1>12 DEF RetainInv, StatesKept
  <2>2. \A i \in DOMAIN session' : ~IsState(session'[i], d)
    <3> SUFFICES ASSUME NEW i \in DOMAIN session', IsState(session'[i], d) PROVE FALSE
      OBVIOUS
    <3>1. session'[i].n <= last[d]
      BY <1>1, <1>10 DEF StatesKept
    <3>2. last[d] \in Nat
      BY Naturals
    <3>3. QED  BY <1>6, <1>12, <3>1, <3>2
  <2>3. \A j \in DOMAIN session : 1 < j => ~IsState(session[j], d)
    <3> SUFFICES ASSUME NEW j \in DOMAIN session, 1 < j PROVE ~IsState(session[j], d)
      OBVIOUS
    <3>1. j - 1 \in DOMAIN session' /\ session'[j - 1] = session[j]
      BY <1>4
    <3>2. QED  BY <2>2, <3>1
  <2>4. retained[d] = m.n
    BY <1>4, <1>5, <2>1, <2>3 DEF RetainInv, LatestRetained
  <2>5. QED  BY <1>12, <2>2, <2>4
<1>13. NoneKept'
  <2> SUFFICES ASSUME NEW d \in Devices, ~failed'[d],
                      \A i \in DOMAIN Pending : Pending[i].n # last[d]
               PROVE  \A i \in DOMAIN session' : ~IsState(session'[i], d)
    BY <1>1 DEF NoneKept, IsState
  <2>1. CASE d = e /\ last[e] = m.n
    BY <1>12, <2>1
  <2>2. CASE ~(d = e /\ last[e] = m.n)
    <3>1. ~failed[d]
      BY <1>7, <2>2
    <3>2. \A i \in DOMAIN session : ~IsState(session[i], d)
      BY <3>1 DEF RetainInv, NoneKept
    <3>3. QED  BY <1>4, <3>2
  <2>3. QED  BY <2>1, <2>2
<1>14. RetainedIsLast'
  <2> SUFFICES ASSUME NEW d \in Devices, ~failed'[d],
                      \A i \in DOMAIN Pending : Pending[i].n # last[d]
               PROVE  retained[d] = last[d]
    BY <1>1 DEF RetainedIsLast
  <2>1. CASE d = e /\ last[e] = m.n
    BY <1>12, <2>1
  <2>2. CASE ~(d = e /\ last[e] = m.n)
    <3>1. ~failed[d]
      BY <1>7, <2>2
    <3>2. QED  BY <3>1 DEF RetainInv, RetainedIsLast
  <2>3. QED  BY <2>1, <2>2
<1>15. QED  BY <1>8, <1>9, <1>10, <1>11, <1>13, <1>14 DEF RetainInv

\* A new connection finds everything due again, or nothing left.
LEMMA LinkBackRetain == ASSUME TypeOK, RetainInv, LinkBack PROVE RetainInv'
<1>1. Pending' = Pending /\ UNCHANGED <<offered, last, retained, failed>>
  BY OtherPending DEF LinkBack
<1>2. CASE UNCHANGED sessionVars
  BY <1>1, <1>2, StillRetain DEF sessionVars
<1>3. CASE session' = session /\ due' = Len(session)
  <2>1. Sent' = 0 /\ \A i \in DOMAIN session : i \in Nat /\ i > 0
    BY <1>3, Naturals DEF Sent
  <2>2. LatestRetained'
    BY <1>3, <2>1 DEF LatestRetained
  <2>3. QED
    BY <1>1, <1>3, <2>2
       DEF RetainInv, Numbered, StatesBetween, StatesKept, NoneKept, RetainedIsLast, IsState
<1>4. CASE session' = <<>>
  BY <1>1, <1>4
     DEF RetainInv, Numbered, StatesBetween, StatesKept, LatestRetained, NoneKept, RetainedIsLast,
         IsState
<1>5. QED  BY <1>2, <1>3, <1>4 DEF LinkBack

LEMMA RestartRetain == ASSUME TypeOK, RetainInv, Restart PROVE RetainInv'
<1>1. Pending' = <<>> /\ session' = <<>> /\ UNCHANGED <<offered, retained, last>>
  BY RestartPending DEF Restart
<1>2. \A d \in Devices :
        failed'[d] = (failed[d] \/ \E i \in DOMAIN Pending : Pending[i].n = last[d])
  BY DEF Restart
<1>3. Numbered' /\ StatesBetween' /\ StatesKept' /\ LatestRetained' /\ NoneKept'
  BY <1>1 DEF RetainInv, Numbered, StatesBetween, StatesKept, LatestRetained, NoneKept
<1>4. RetainedIsLast'
  BY <1>1, <1>2 DEF RetainInv, RetainedIsLast
<1>5. QED  BY <1>3, <1>4 DEF RetainInv

\* The state the broker retains is the last one published, or it was dropped or
\* failed without an acknowledgement since, for any number of devices, turns,
\* outages and resends.
THEOREM RetainedTheLast == Spec => []RetainedIsLast
<1>1. TypeOK /\ RetainInv /\ [Next]_vars => RetainInv'
  <2> SUFFICES ASSUME TypeOK, RetainInv, [Next]_vars PROVE RetainInv'
    OBVIOUS
  <2>1. CASE Connect \/ LinkLost \/ (\E t \in Turns : Record(t)) \/ UNCHANGED vars
    <3>1. Pending' = Pending /\ UNCHANGED <<offered, last>>
      BY <2>1, OtherPending
    <3>2. UNCHANGED <<session, due, retained>>
      BY <2>1, IdleSteps
    <3>3. failed' = failed
      BY <2>1 DEF Connect, LinkLost, Record, vars
    <3>4. QED  BY <3>1, <3>2, <3>3, StillRetain
  <2>2. CASE Take
    <3>1. UNCHANGED <<session, due, offered, retained, last, failed>>
      BY <2>2, IdleSteps DEF Take
    <3>2. QED  BY <2>2, <3>1, TakePending, StillRetain
  <2>3. ASSUME NEW t \in Turns, Publish(t) PROVE RetainInv'
    BY <2>3, PublishRetain
  <2>4. ASSUME NEW arrived \in BOOLEAN, NEW ok \in BOOLEAN, NEW kept \in BOOLEAN,
               SendEnds(arrived, ok, kept)
        PROVE  RetainInv'
    BY <2>4, SendRetain
  <2>5. CASE Restart  BY <2>5, RestartRetain
  <2>6. CASE KeptArrives  BY <2>6, KeptArrivesRetain
  <2>7. CASE Acknowledged  BY <2>7, AcknowledgedRetain
  <2>8. CASE LinkBack  BY <2>8, LinkBackRetain
  <2>9. QED  BY <2>1, <2>2, <2>3, <2>4, <2>5, <2>6, <2>7, <2>8 DEF Next
<1>2. RetainInv => RetainedIsLast
  BY DEF RetainInv
<1>3. QED
  BY <1>1, <1>2, InitType, NextType, InitRetain, PTL DEF Spec
=============================================================================
