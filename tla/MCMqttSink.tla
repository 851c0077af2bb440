----------------------------- MODULE MCMqttSink -----------------------------
(***************************************************************************)
(* Instances of MqttSink for TLC.                                          *)
(***************************************************************************)
EXTENDS MqttSink, TLC

CONSTANTS t1, t2, d1

OneDevice == [t \in Turns |-> d1]
Outcomes == t1 :> "ok" @@ t2 :> "cancelled"

\* working, the agent's reply, idle
Publishes == <<"state", "response", "state">>
=============================================================================
