---------------------------- MODULE MCRelayConfig ---------------------------
(***************************************************************************)
(* Instances of RelayConfig for TLC.                                       *)
(***************************************************************************)
EXTENDS RelayConfig, TLC

Blank == [k \in Keys |-> ""]
Stub == ("HERMES_BASE_URL" :> "http://h:1") @@ ("HERMES_TIMEOUT_S" :> "0") @@ Blank
Deepgram == ("HERMES_BASE_URL" :> "http://h:1") @@ ("STT_PROVIDER" :> "deepgram")
            @@ ("STT_DEEPGRAM_API_KEY" :> "k") @@ ("PORT" :> "9000") @@ Blank

\* Forms that hold a sign of godotenv's, with what it makes of them: a blank key,
\* a broker URL with a $ in its password, and one that opens with a quote.
Blanked == ("STT_DEEPGRAM_API_KEY" :> " ") @@ Deepgram
Dollar == ("MQTT_BROKER_URL" :> "mqtt://u:a$B@h") @@ Stub
Quoted == ("MQTT_BROKER_URL" :> "'mqtt://h") @@ Deepgram
MCSpecial ==
    (Blanked :> [Blanked EXCEPT !["STT_DEEPGRAM_API_KEY"] = ""])
    @@ (Dollar :> [Dollar EXCEPT !["MQTT_BROKER_URL"] = "mqtt://u:a@h"])
    @@ (Quoted :> NoText)

\* Forms that Save accepts, some of which the relay does not start with, and one
\* it refuses.
MCForms == {
    Stub, Deepgram, Blanked, Dollar, Quoted,
    ("STT_PROVIDER" :> "whisper") @@ ("STT_WHISPER_URL" :> "/") @@ Stub,
    ("STT_DEEPGRAM_API_KEY" :> "") @@ Deepgram}

\* Only a URL and a port; the rest is missing.  The empty file is left out: the
\* relay does not start with it.
MCHandMade == {("HERMES_BASE_URL" :> "http://h:2") @@ ("PORT" :> "7000") @@ NoText, NoText}
              \ {NoText}

MCSize == [t \in MCForms \cup MCHandMade |->
            IF t \in MCHandMade THEN 1 ELSE IF t = Stub THEN 2 ELSE 3]

MCProcEnvs == {
    [keys |-> NoText, relayEnv |-> "unset"],
    [keys |-> ("HERMES_BASE_URL" :> "http://h:1") @@ NoText, relayEnv |-> "unset"],
    [keys |-> NoText, relayEnv |-> ".env"],
    [keys |-> NoText, relayEnv |-> "elsewhere"]}
=============================================================================
