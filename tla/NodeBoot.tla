------------------------------ MODULE NodeBoot ------------------------------
(***************************************************************************)
(* From power-up to an online device: settings in flash and in RAM         *)
(* (node_config.c), provisioning over BLE (node_provision.c), WiFi with    *)
(* its bounded retries (node_wifi.c), MQTT presence (node_mqtt.c), in the  *)
(* order of app_main_run (app_main.c).                                     *)
(*                                                                         *)
(* The main task, the BLE task with the node-cfg endpoint, the event loop  *)
(* and the broker run side by side; power goes and calls fail anywhere,    *)
(* MaxFaults times in all.  A setting's value is where it came from: the   *)
(* build (Default), manufacturing (Made) or a payload of the phone.  NVS,  *)
(* the provisioning manager, the WiFi driver, the MQTT client and the      *)
(* broker are external.                                                    *)
(***************************************************************************)
EXTENDS Naturals

CONSTANTS
    Payloads,     \* node-cfg payloads that name a gateway_url
    WithId,       \* those that name a device_id
    WithToken,    \* those that name a device_token
    LongToken,    \* those whose token is longer than s_device_token
    MaxRetry,     \* MAX_RETRY
    MaxFaults,    \* bound on power losses and failing calls
    Default, Made, Cut, None

Keys == {"device_id", "wifi_ssid", "wifi_pass", "gateway_url", "device_token"}

ASSUME PayloadAssumption ==
    /\ WithId \subseteq Payloads
    /\ LongToken \subseteq WithToken /\ WithToken \subseteq Payloads
    /\ {Default, Made, Cut, None} \cap Payloads = {}
    /\ None \notin {Default, Made, Cut}
ASSUME NumberAssumption == MaxRetry \in Nat /\ MaxFaults \in Nat

VARIABLES
    nvs,      \* the stored settings
    nvsOk,    \* whether nvs_flash_init succeeded
    cache,    \* the RAM copies that the getters return
    main,     \* where app_main_run is
    netOk,    \* its net_ok
    hpc,      \* where the node-cfg endpoint is
    msg,      \* the payload it applies
    torn,     \* whether url and token were left half written
    link,     \* the radio: off, trying, up, or lost (given up)
    retries,  \* the static of on_wifi_event
    fails,    \* disconnects since the last address
    bits,     \* s_events
    mqtt,     \* off (not started), down, up: s_connected
    status,   \* what the broker retains for node/<id>/status
    will,     \* whether it still owes the last will of a lost connection
    faults

settings == <<nvs, nvsOk, cache, torn>>
handler == <<hpc, msg>>
wifi == <<link, retries, fails, bits>>
presence == <<mqtt, status, will>>
vars == <<settings, main, netOk, handler, wifi, presence, faults>>

Values == Payloads \cup {Default, Made, Cut}
Up == {"ready", "broken"}

Init ==
    /\ \E made \in {{}, {"device_id"}, Keys} :      \* docs/provisioning.md
          nvs = [k \in Keys |-> IF k \in made THEN Made ELSE None]
    /\ nvsOk = FALSE
    /\ cache = [k \in Keys |-> Default]
    /\ torn = FALSE
    /\ main = "config" /\ netOk = FALSE
    /\ hpc = "idle" /\ msg = None
    /\ link = "off" /\ retries = 0 /\ fails = 0 /\ bits = {}
    /\ mqtt = "off" /\ status = "offline" /\ will = FALSE
    /\ faults = 0

Fault == faults < MaxFaults /\ faults' = faults + 1

-----------------------------------------------------------------------------
(***************************************************************************)
(* Settings.                                                               *)
(***************************************************************************)
Fits(k, v) == ~(k = "device_token" /\ v \in LongToken)

\* read_str: a value that does not fit is not read.
Loaded == [k \in Keys |-> IF nvs[k] # None /\ Fits(k, nvs[k]) THEN nvs[k] ELSE cache[k]]

\* node_config_init.
LoadConfig ==
    /\ main = "config"
    /\ nvsOk' = TRUE
    /\ cache' = Loaded
    /\ main' = "provision"
    /\ UNCHANGED <<nvs, torn, netOk, handler, wifi, presence, faults>>

\* No free pages or another version: erased and initialised anew.
EraseConfig ==
    /\ main = "config" /\ Fault
    /\ nvs' = [k \in Keys |-> None]
    /\ nvsOk' = TRUE
    /\ torn' = FALSE
    /\ main' = "provision"
    /\ UNCHANGED <<cache, netOk, handler, wifi, presence>>

\* Any other error: app_main_run goes on with the fallbacks.
LoadFails ==
    /\ main = "config" /\ Fault
    /\ main' = "provision"
    /\ UNCHANGED <<settings, netOk, handler, wifi, presence>>

SlipNoCache(k, v) ==
    /\ nvsOk
    /\ nvs' = [nvs EXCEPT ![k] = v]
    /\ UNCHANGED <<cache, nvsOk>>

\* write_field, when every call succeeds.
WriteField(k, v) ==
    /\ nvsOk
    /\ nvs' = [nvs EXCEPT ![k] = v]
    /\ cache' = [cache EXCEPT ![k] = IF Fits(k, v) THEN v ELSE Cut]
    /\ UNCHANGED nvsOk

\* node_config_is_provisioned
Provisioned == nvsOk /\ nvs["wifi_ssid"] # None

-----------------------------------------------------------------------------
(***************************************************************************)
(* Provisioning.                                                           *)
(***************************************************************************)
SkipProvisioning ==
    /\ main = "provision" /\ Provisioned
    /\ main' = "net"
    /\ UNCHANGED <<settings, netOk, handler, wifi, presence, faults>>

\* The first test says no: because there is nothing, or because nvs_open fails.
StartBle ==
    /\ main = "provision"
    /\ (~Provisioned /\ UNCHANGED faults) \/ (Provisioned /\ Fault)
    /\ main' = "ble"
    /\ UNCHANGED <<settings, netOk, handler, wifi, presence>>

\* A call before the service is up fails: boot continues.
BleFails ==
    /\ main = "provision" /\ ~Provisioned /\ Fault
    /\ main' = "net"
    /\ UNCHANGED <<settings, netOk, handler, wifi, presence>>

\* node_cfg_handler and node_provision_apply: the id if there is one, then url
\* and token, each written and committed by itself.
CfgArrives(p) ==
    /\ main \in {"ble", "leaving"} /\ hpc = "idle"
    /\ msg' = p
    /\ hpc' = IF p \in WithId THEN "id" ELSE "url"
    /\ UNCHANGED <<settings, main, netOk, wifi, presence, faults>>

WriteId ==
    /\ hpc = "id"
    /\ WriteField("device_id", msg)
    /\ hpc' = "url"
    /\ UNCHANGED <<torn, main, netOk, msg, wifi, presence, faults>>

WriteUrl ==
    /\ hpc = "url"
    /\ WriteField("gateway_url", msg)
    /\ hpc' = "token"
    /\ UNCHANGED <<torn, main, netOk, msg, wifi, presence, faults>>

SlipKeepToken ==
    /\ hpc = "token"
    /\ IF msg \in WithToken THEN WriteField("device_token", msg)
                            ELSE UNCHANGED <<nvs, nvsOk, cache>>
    /\ torn' = FALSE
    /\ hpc' = "idle" /\ msg' = None
    /\ UNCHANGED <<main, netOk, wifi, presence, faults>>

\* A payload without a token clears the stored one.
WriteToken ==
    /\ hpc = "token"
    /\ WriteField("device_token", msg)
    /\ torn' = FALSE
    /\ hpc' = "idle" /\ msg' = None
    /\ UNCHANGED <<main, netOk, wifi, presence, faults>>

\* A failed write ends the request with "ERR" and leaves its key as it was
\* (what can fail is nvs_set_str); without NVS every write fails.
WriteFails ==
    /\ hpc # "idle"
    /\ (nvsOk /\ Fault) \/ (~nvsOk /\ UNCHANGED faults)
    /\ torn' = IF hpc = "token" THEN TRUE ELSE torn
    /\ hpc' = "idle" /\ msg' = None
    /\ UNCHANGED <<nvs, nvsOk, cache, main, netOk, wifi, presence>>

\* esp_restart and a power loss: RAM holds the initialisers again.
Restart ==
    /\ nvsOk' = FALSE /\ cache' = [k \in Keys |-> Default]
    /\ main' = "config" /\ netOk' = FALSE
    /\ hpc' = "idle" /\ msg' = None
    /\ link' = "off" /\ retries' = 0 /\ fails' = 0 /\ bits' = {}
    /\ mqtt' = "off"
    /\ torn' = IF hpc = "token" THEN TRUE ELSE torn
    /\ will' = IF mqtt = "up" THEN TRUE ELSE will
    /\ UNCHANGED <<nvs, status>>

\* The loop sees the setting it looks for, and waits for the service to end.
BleSees ==
    /\ main = "ble" /\ Provisioned
    /\ main' = "leaving"
    /\ UNCHANGED <<settings, netOk, handler, wifi, presence, faults>>

\* The service ends by itself once the phone has delivered SSID and password.
BleSucceeds == main = "leaving" /\ Restart /\ UNCHANGED faults

SlipNoTimeout ==
    /\ main = "ble" /\ Provisioned
    /\ main' = "net"
    /\ UNCHANGED <<settings, netOk, handler, wifi, presence, faults>>

\* Ten minutes without the setting the loop looks for.  Nothing waits for a
\* request that the endpoint still works on.
BleTimeout ==
    /\ main = "ble" /\ ~Provisioned
    /\ main' = "net"
    /\ UNCHANGED <<settings, netOk, handler, wifi, presence, faults>>

-----------------------------------------------------------------------------
(***************************************************************************)
(* WiFi.                                                                   *)
(***************************************************************************)
StartWifi ==
    /\ main = "net"
    /\ link' = "trying"
    /\ main' = "wait"
    /\ UNCHANGED <<settings, netOk, handler, retries, fails, bits, presence, faults>>

SlipNoReset ==
    /\ link = "trying"
    /\ link' = "up"
    /\ fails' = 0
    /\ bits' = bits \cup {"connected"}
    /\ UNCHANGED <<settings, main, netOk, handler, retries, presence, faults>>

GotIp ==
    /\ link = "trying"
    /\ link' = "up"
    /\ retries' = 0 /\ fails' = 0
    /\ bits' = bits \cup {"connected"}
    /\ UNCHANGED <<settings, main, netOk, handler, presence, faults>>

\* The connection to the broker goes with the link.
Disconnected ==
    /\ link \in {"trying", "up"}
    /\ fails' = fails + 1
    /\ IF retries < MaxRetry
       THEN link' = "trying" /\ retries' = retries + 1 /\ UNCHANGED bits
       ELSE link' = "lost" /\ bits' = bits \cup {"fail"} /\ UNCHANGED retries
    /\ mqtt' = IF mqtt = "up" THEN "down" ELSE mqtt
    /\ will' = IF mqtt = "up" THEN TRUE ELSE will
    /\ UNCHANGED <<settings, main, netOk, handler, status, faults>>

\* node_wifi_wait_connected: a bit, or 15 s.
WaitEnds ==
    /\ main = "wait"
    /\ netOk' = ("connected" \in bits)
    /\ main' = "start"
    /\ UNCHANGED <<settings, handler, wifi, presence, faults>>

\* The rest of app_main_run: MQTT starts whatever the network says; a button
\* that cannot be set up ends in the error screen.
StartApp ==
    /\ main = "start"
    /\ mqtt' = "down"
    /\ (main' = "ready" /\ UNCHANGED faults) \/ (main' = "broken" /\ Fault)
    /\ UNCHANGED <<settings, netOk, handler, wifi, status, will>>

SlipSilent ==
    /\ mqtt = "down" /\ link = "up"
    /\ mqtt' = "up"
    /\ status' = IF will THEN "offline" ELSE status
    /\ will' = FALSE
    /\ UNCHANGED <<settings, main, netOk, handler, wifi, faults>>

-----------------------------------------------------------------------------
(***************************************************************************)
(* MQTT presence.                                                          *)
(***************************************************************************)
\* MQTT_EVENT_CONNECTED.  The broker sends the will of the connection it takes
\* over before that.
MqttConnects ==
    /\ mqtt = "down" /\ link = "up"
    /\ mqtt' = "up"
    /\ status' = "online"
    /\ will' = FALSE
    /\ UNCHANGED <<settings, main, netOk, handler, wifi, faults>>

\* MQTT_EVENT_DISCONNECTED with the link in place.
MqttDrops ==
    /\ mqtt = "up" /\ Fault
    /\ mqtt' = "down"
    /\ will' = TRUE
    /\ UNCHANGED <<settings, main, netOk, handler, wifi, status>>

\* The keep-alive of a lost connection runs out at the broker.
WillSent ==
    /\ will
    /\ status' = "offline"
    /\ will' = FALSE
    /\ UNCHANGED <<settings, main, netOk, handler, wifi, mqtt, faults>>

PowerLoss == Restart /\ Fault

-----------------------------------------------------------------------------
MainTask ==
    \/ LoadConfig \/ EraseConfig \/ LoadFails
    \/ SkipProvisioning \/ StartBle \/ BleFails \/ BleSees \/ BleTimeout
    \/ StartWifi \/ WaitEnds \/ StartApp
Endpoint == WriteId \/ WriteUrl \/ WriteToken \/ WriteFails
Phone == BleSucceeds \/ \E p \in Payloads : CfgArrives(p)
WifiEvent == GotIp \/ Disconnected
Next ==
    \/ MainTask \/ Endpoint \/ Phone \/ WifiEvent
    \/ MqttConnects \/ MqttDrops \/ WillSent \/ PowerLoss

\* Tasks, client and broker go on; phone and access point owe nothing.
Spec ==
    /\ Init /\ [][Next]_vars
    /\ WF_vars(MainTask) /\ WF_vars(Endpoint)
    /\ WF_vars(MqttConnects) /\ WF_vars(WillSent)

-----------------------------------------------------------------------------
(***************************************************************************)
(* Properties.                                                             *)
(***************************************************************************)
\* Types, and a payload only while the endpoint is at work.
SettingsType ==
    /\ nvs \in [Keys -> Values \cup {None}] /\ cache \in [Keys -> Values]
    /\ nvsOk \in BOOLEAN /\ torn \in BOOLEAN
BootType ==
    /\ main \in Up \cup {"config", "provision", "ble", "leaving", "net", "wait", "start"}
    /\ netOk \in BOOLEAN /\ faults \in 0..MaxFaults
HandlerType ==
    /\ hpc \in {"idle", "id", "url", "token"}
    /\ IF hpc = "idle" THEN msg = None ELSE msg \in Payloads
WifiType ==
    /\ link \in {"off", "trying", "up", "lost"}
    /\ retries \in 0..MaxRetry /\ fails \in 0..MaxRetry + 1
    /\ bits \subseteq {"connected", "fail"}
PresenceType ==
    /\ mqtt \in {"off", "down", "up"} /\ status \in {"online", "offline"}
    /\ will \in BOOLEAN
TypeOK == SettingsType /\ BootType /\ HandlerType /\ WifiType /\ PresenceType

\* What the getters return is what a restart would load: no write reaches
\* only one of flash and RAM.  (node_provision.c:170-171: "write_field updates
\* the RAM cache on success, so the getter below goes live")  A token longer
\* than its buffer is the exception, see the README.
CacheIsStored ==
    nvsOk /\ main # "config" =>
        \A k \in Keys : nvs[k] # None /\ Fits(k, nvs[k]) => cache[k] = nvs[k]

\* The device never talks to one gateway with the token of another, unless
\* the power went or a write failed between the two writes.
GatewayAndTokenMatch ==
    ~torn /\ hpc # "token" => nvs["gateway_url"] = nvs["device_token"]

\* The radio gives up only after MaxRetry retries in a row: earlier outages,
\* once overcome, do not count.
GivesUpLate == link = "lost" => fails = MaxRetry + 1

\* Neither an absent network nor an empty flash nor a phone that does not come
\* keeps the device from its main screen.  (W1d: "continuing offline")  The
\* one place it can stay is the wait for the service to end, which has no
\* limit: the loop got there by a failed first look at the flash.
BootEnds == <>[](main \in Up \cup {"leaving"})

\* The retained status settles at the truth, whatever connections were lost
\* and wills were sent before.  (W7: "LWT covers death")
PresenceSettles ==
    /\ <>[](mqtt = "up") => <>[](status = "online")
    /\ <>[](mqtt # "up") => <>[](status = "offline")

-----------------------------------------------------------------------------
(* What a document says, and the code does not do: TLC finds a             *)
(* counterexample when it is added to MCNodeBoot.cfg.                      *)

\* W9: "Reboots into normal boot on success": once the phone has delivered a
\* payload the device leaves provisioning by a restart, not by its timeout.
ProvisioningReboots ==
    [][main = "ble" /\ hpc = "idle" /\ main' = "net" => cache["gateway_url"] \notin Payloads]_vars
=============================================================================
