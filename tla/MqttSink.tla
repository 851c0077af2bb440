------------------------------ MODULE MqttSink ------------------------------
(***************************************************************************)
(* Where the relay's turns leave their traces: the MQTT client with its    *)
(* queue and one sending goroutine (relay/internal/mqtt/mqtt.go), and the  *)
(* recorder in front of it, which keeps the counters and the last turns of *)
(* the status page (relay/internal/status/recorder.go).                    *)
(*                                                                         *)
(* The goroutines of turns publish while the sender is busy with an earlier *)
(* message; a full queue drops what comes.  The relay can be stopped at any *)
(* time, and what is queued then is lost, because main waits for the HTTP  *)
(* server and not for the queue.  The broker is external; the retained     *)
(* message of node/<id>/state is what it keeps.  RelayTurn says which of   *)
(* its publishes a turn makes; here every turn makes those of Script.      *)
(*                                                                         *)
(* The client asks the broker for a session that outlives a connection, and *)
(* publishes states with QoS 1.  The MQTT library, external too, therefore *)
(* keeps a state until it is acknowledged and sends what it keeps again on *)
(* the next connection, in order and before anything new: session.  That a *)
(* call of Publish failed does not take the message back.                  *)
(***************************************************************************)
EXTENDS Integers, Sequences, FiniteSets

CONSTANTS
    Turns,          \* the goroutines of voice turns
    Devices,
    DeviceOf,       \* the device of a turn
    VerdictOf,      \* and its verdict
    Script,         \* the topics a turn publishes to, the envelope last
    QueueLen,       \* the capacity of client.queue (64)
    Recents,        \* Recorder.cap (20)
    MaxStops,       \* bound: how often the relay is stopped
    MaxOutages,     \* bound: how often the broker goes away
    None

Topics == {"state", "prompt", "response", "turns"}

ASSUME ScriptAssumption == Script \in Seq(Topics) /\ Script # <<>>
ASSUME TurnAssumption == DeviceOf \in [Turns -> Devices]
ASSUME SizeAssumption == QueueLen \in Nat \ {0} /\ Recents \in Nat \ {0}

VARIABLES
    link,       \* whether the broker can be reached
    sink,       \* what mqtt.New returned: the client or a LogPublisher
    at,         \* where a turn is: its next publish, then the record; 0 if it
                \* belongs to an earlier process
    queue,      \* client.queue
    sending,    \* the message in cm.Publish
    session,    \* the states the library keeps, unacknowledged
    due,        \* how many of them, the latest, are still to reach the broker
                \* over this connection
    offered,    \* how many messages were published, kept or not
    got,        \* history: what reached the broker
    retained,   \* the number of the state the broker retains for a device
    last,       \* history: the number of the last state published for it
    failed,     \* history: that one was dropped, or its publish failed and it
                \* was not acknowledged since
    verdicts,   \* Recorder.verdicts
    recent,     \* Recorder.recent
    stops,      \* how often the relay was stopped
    outages     \* how often the broker went away

sessionVars == <<session, due>>
queueVars == <<queue, sending, sessionVars, got, retained>>
recVars == <<verdicts, recent>>
vars == <<link, sink, at, queueVars, offered, last, failed, recVars, stops, outages>>

Bodies == [topic : Topics, dev : Devices]
Msg == [n : Nat, body : Bodies]

ASSUME NoneAssumption == None \notin Msg

IsState(m, d) == m.body = [topic |-> "state", dev |-> d]

\* What is accepted and not yet at the broker, in order.
Pending == (IF sending = None THEN <<>> ELSE <<sending>>) \o queue

Recorded == Len(Script) + 2
NoVerdicts == [v \in {VerdictOf[t] : t \in Turns} |-> 0]

-----------------------------------------------------------------------------
Init ==
    /\ link \in BOOLEAN
    /\ sink = "boot"
    /\ at = [t \in Turns |-> 1]
    /\ queue = <<>> /\ sending = None /\ got = <<>>
    /\ session = <<>> /\ due = 0
    /\ offered = 0
    /\ retained = [d \in Devices |-> 0]
    /\ last = [d \in Devices |-> 0]
    /\ failed = [d \in Devices |-> FALSE]
    /\ verdicts = NoVerdicts
    /\ recent = <<>>
    /\ stops = 0 /\ outages = 0

\* mqtt.New, before the server listens: the client, once the broker answers
\* within 5 s; otherwise, or without a usable URL, a LogPublisher for as long
\* as the relay runs.
Connect ==
    /\ sink = "boot"
    /\ sink' \in (IF link THEN {"broker", "log"} ELSE {"log"})
    /\ UNCHANGED <<link, at, queueVars, offered, last, failed, recVars, stops, outages>>

\* Whether pub finds room in the channel.
Room == sink = "broker" /\ Len(queue) < QueueLen

\* A turn's next publish: pub never waits.
Publish(t) ==
    LET d == DeviceOf[t]
        m == [n |-> offered + 1, body |-> [topic |-> Script[at[t]], dev |-> d]]
        states == m.body.topic = "state"
    IN  /\ sink # "boot" /\ at[t] \in DOMAIN Script
        /\ at' = [at EXCEPT ![t] = @ + 1]
        /\ offered' = offered + 1
        /\ queue' = IF Room THEN Append(queue, m) ELSE queue
        /\ last' = IF states THEN [last EXCEPT ![d] = m.n] ELSE last
        /\ failed' = IF states THEN [failed EXCEPT ![d] = ~Room] ELSE failed
        /\ UNCHANGED <<link, sink, sending, sessionVars, got, retained, recVars, stops, outages>>

\* loop takes the next message.
Take ==
    /\ sending = None /\ queue # <<>>
    /\ sending' = Head(queue)
    /\ queue' = Tail(queue)
    /\ UNCHANGED <<link, sink, at, sessionVars, got, retained, offered, last, failed, recVars,
                   stops, outages>>

SlipQosZero(m) == 0

\* The quality of service of a message.
Qos(m) == IF m.body.topic = "state" THEN 1 ELSE 0

\* A message reaches the broker, which retains it if it is a state.
Reaches(m) ==
    /\ got' = Append(got, m)
    /\ retained' = IF IsState(m, m.body.dev)
                   THEN [retained EXCEPT ![m.body.dev] = m.n] ELSE retained

SlipNoDeadline(arrived, ok, kept) ==
    /\ sending # None
    /\ link /\ due = 0 /\ session = <<>> /\ arrived /\ ok /\ ~kept
    /\ sending' = None
    /\ Reaches(sending)
    /\ UNCHANGED <<link, sink, at, queue, sessionVars, offered, last, failed, recVars, stops,
                   outages>>

SlipRetryOnError(arrived, ok, kept) ==
    /\ sending # None
    /\ arrived => link /\ due = 0
    /\ ok => arrived
    /\ ~kept
    /\ sending' = IF ok THEN None ELSE sending
    /\ IF arrived THEN Reaches(sending) ELSE UNCHANGED <<got, retained>>
    /\ UNCHANGED <<link, sink, at, queue, sessionVars, offered, last, failed, recVars, stops,
                   outages>>

\* cm.Publish returns within its 2 s.  The message is at the broker or not; it
\* comes after what was sent before it, and can be there although the call
\* failed.  With QoS 0 the call can succeed although it is not, and nothing is
\* kept.  With QoS 1 success is an acknowledgement, and those come in order; a
\* message that went out without one is kept in the session, and so may be one
\* that did not go out.  loop only logs a failure and goes on.
SendEnds(arrived, ok, kept) ==
    LET d == sending.body.dev
    IN  /\ sending # None
        /\ arrived => link /\ due = 0
        /\ \/ /\ Qos(sending) = 0 /\ ~kept
           \/ /\ Qos(sending) = 1
              /\ ok => arrived /\ session = <<>> /\ ~kept
              /\ arrived /\ ~ok => kept
        /\ sending' = None
        /\ session' = IF kept THEN Append(session, sending) ELSE session
        /\ due' = IF kept /\ ~arrived THEN due + 1 ELSE due
        /\ IF arrived THEN Reaches(sending) ELSE UNCHANGED <<got, retained>>
        /\ failed' = IF ~ok /\ IsState(sending, d) /\ last[d] = sending.n
                     THEN [failed EXCEPT ![d] = TRUE] ELSE failed
        /\ UNCHANGED <<link, sink, at, queue, offered, last, recVars, stops, outages>>

\* How many messages of the session are at the broker over this connection.
Sent == Len(session) - due

\* A message of the session reaches the broker: late, or again.
KeptArrives ==
    /\ link /\ due > 0
    /\ Reaches(session[Sent + 1])
    /\ due' = due - 1
    /\ UNCHANGED <<link, sink, at, queue, sending, session, offered, last, failed, recVars,
                   stops, outages>>

\* Its acknowledgement arrives, and the library forgets it.
Acknowledged ==
    LET m == Head(session)
    IN  /\ link /\ Sent > 0
        /\ session' = Tail(session)
        /\ failed' = IF last[m.body.dev] = m.n THEN [failed EXCEPT ![m.body.dev] = FALSE] ELSE failed
        /\ UNCHANGED <<link, sink, at, queue, sending, due, got, retained, offered, last, recVars,
                       stops, outages>>

\* The turn is put in front and the list cut.
Recent(t) == SubSeq(<<t>> \o recent, 1, IF Len(recent) < Recents THEN Len(recent) + 1 ELSE Recents)

\* Recorder.PublishTurn after its downstream has returned.
Record(t) ==
    /\ at[t] = Len(Script) + 1
    /\ at' = [at EXCEPT ![t] = Recorded]
    /\ verdicts' = [verdicts EXCEPT ![VerdictOf[t]] = @ + 1]
    /\ recent' = Recent(t)
    /\ UNCHANGED <<link, sink, queueVars, offered, last, failed, stops, outages>>

\* The relay is stopped and started again: its turns, its queue, its recorder
\* and the session, which the library keeps in memory, are gone; the broker
\* keeps what it has.
Restart ==
    /\ sink # "boot" /\ stops < MaxStops
    /\ stops' = stops + 1
    /\ sink' = "boot"
    /\ at' = [t \in Turns |-> IF at[t] = 1 THEN 1 ELSE 0]
    /\ queue' = <<>> /\ sending' = None
    /\ session' = <<>> /\ due' = 0
    /\ failed' = [d \in Devices |->
                    failed[d] \/ \E i \in DOMAIN Pending : Pending[i].n = last[d]]
    /\ verdicts' = NoVerdicts /\ recent' = <<>>
    /\ UNCHANGED <<link, got, retained, offered, last, outages>>

\* The broker goes away.
LinkLost ==
    /\ link /\ outages < MaxOutages
    /\ link' = FALSE
    /\ outages' = outages + 1
    /\ UNCHANGED <<sink, at, queueVars, offered, last, failed, recVars, stops>>

\* It is back.  The connection survived, or autopaho connects again by itself:
\* the whole session is due once more, unless the broker no longer knows it, and
\* then the library drops it.
LinkBack ==
    /\ ~link
    /\ link' = TRUE
    /\ \/ UNCHANGED sessionVars
       \/ session' = session /\ due' = Len(session)
       \/ session' = <<>> /\ due' = 0
    /\ UNCHANGED <<sink, at, queue, sending, got, retained, offered, last, failed, recVars,
                   stops, outages>>

-----------------------------------------------------------------------------
Next ==
    \/ Connect \/ Take \/ Restart \/ LinkLost \/ LinkBack
    \/ KeptArrives \/ Acknowledged
    \/ \E t \in Turns : Publish(t) \/ Record(t)
    \/ \E arrived, ok, kept \in BOOLEAN : SendEnds(arrived, ok, kept)

\* The sender goroutine runs, and each of its publishes has a deadline.
Fairness ==
    /\ WF_vars(Take)
    /\ WF_vars(\E arrived, ok, kept \in BOOLEAN : SendEnds(arrived, ok, kept))

Spec == Init /\ [][Next]_vars /\ Fairness

-----------------------------------------------------------------------------
TypeOK ==
    /\ link \in BOOLEAN
    /\ sink \in {"boot", "log", "broker"}
    /\ at \in [Turns -> 0 .. Recorded]
    /\ queue \in Seq(Msg) /\ Len(queue) <= QueueLen
    /\ sending \in Msg \cup {None}
    /\ session \in Seq(Msg) /\ due \in 0 .. Len(session)
    /\ offered \in Nat
    /\ got \in Seq(Msg)
    /\ retained \in [Devices -> Nat]
    /\ last \in [Devices -> Nat]
    /\ failed \in [Devices -> BOOLEAN]
    /\ verdicts \in [DOMAIN NoVerdicts -> Nat]
    /\ recent \in Seq(Turns) /\ Len(recent) <= Recents
    /\ stops \in Nat /\ outages \in Nat

\* Of what the relay publishes, the broker retains for a device the last state,
\* once that one has left the relay, unless it was dropped at a full queue, lost
\* with a stopped relay, or its publish failed and it was not acknowledged since:
\* no state that the library sends again, after however many outages, replaces a
\* newer acknowledged one.  (The device retains its status under the same topic,
\* node_mqtt.c:75-84; what the relay publishes is compared with itself.)
RetainedIsLast ==
    \A d \in Devices :
        \/ failed[d]
        \/ \E i \in DOMAIN Pending : Pending[i].n = last[d]
        \/ retained[d] = last[d]

\* The queue never stays full: whatever the broker does, messages leave it.
QueueDrains == queue # <<>> ~> queue = <<>>

\* The bodies published with QoS 1.
StateBodies == {b \in Bodies : Qos([n |-> 0, body |-> b]) = 1}

Feed == INSTANCE LossyFeed WITH pending <- Pending, kept <- session, Resent <- StateBodies

\* The client implements the lossy feed: overload, failures and stops lose
\* messages and make the library repeat states, but no prompt, reply or envelope
\* reaches the broker twice or after something published later.
IsLossyFeed == Feed!Spec
=============================================================================
