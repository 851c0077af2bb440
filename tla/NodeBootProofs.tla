--------------------------- MODULE NodeBootProofs ---------------------------
(***************************************************************************)
(* Proofs about NodeBoot for every set of payloads, every number of        *)
(* retries and every number of faults.                                     *)
(*                                                                         *)
(* The argument: a payload is at work only after the settings have been    *)
(* loaded (BootHolds), so every write finds RAM and flash in agreement;    *)
(* between the two writes of a payload the stored gateway is its own       *)
(* (UrlWritten); and the retries counted are the disconnects since the     *)
(* last address (RetriesCount).                                            *)
(***************************************************************************)
EXTENDS NodeBoot, TLAPS

USE PayloadAssumption, NumberAssumption DEF PayloadAssumption, NumberAssumption

\* Before node_config_init has run, nothing is loaded and nothing at work.
BootHolds ==
    /\ main = "config" => ~nvsOk /\ hpc = "idle"
    /\ main \in {"config", "provision", "ble", "leaving", "net"} => link = "off"
    /\ main \notin Up => mqtt = "off"

UrlWritten == hpc = "token" => nvs["gateway_url"] = msg

RetriesCount ==
    /\ link \in {"off", "trying", "up"} => fails = retries
    /\ link = "lost" => fails = MaxRetry + 1

\* The broker tells the truth about the device unless it owes a will.
StatusTold == ~will => (status = "online" <=> mqtt = "up")
WillOwed == mqtt = "up" => ~will

IInv ==
    /\ TypeOK /\ BootHolds /\ UrlWritten /\ RetriesCount
    /\ StatusTold /\ WillOwed /\ CacheIsStored /\ GatewayAndTokenMatch

LEMMA InitIInv == Init => IInv
<1> SUFFICES ASSUME Init PROVE IInv
  OBVIOUS
<1> USE DEF Init
<1>1. SettingsType
  BY DEF SettingsType, Values
<1>2. BootType /\ HandlerType /\ WifiType /\ PresenceType
  <2>1. BootType
    <3>1. faults \in 0..MaxFaults  OBVIOUS
    <3>2. main = "config" /\ netOk = FALSE  OBVIOUS
    <3>3. QED  BY <3>1, <3>2 DEF BootType
  <2>2. HandlerType  BY DEF HandlerType
  <2>3. WifiType  BY DEF WifiType
  <2>4. PresenceType  BY DEF PresenceType
  <2>5. QED  BY <2>1, <2>2, <2>3, <2>4
<1>3. BootHolds /\ UrlWritten /\ RetriesCount
  BY DEF BootHolds, UrlWritten, RetriesCount
<1>4. StatusTold /\ WillOwed
  BY DEF StatusTold, WillOwed
<1>5. CacheIsStored
  BY DEF CacheIsStored
<1>6. GatewayAndTokenMatch
  BY DEF GatewayAndTokenMatch, Keys
<1>7. QED
  BY <1>1, <1>2, <1>3, <1>4, <1>5, <1>6 DEF IInv, TypeOK

LEMMA StutterIInv == IInv /\ UNCHANGED vars => IInv'
<1> SUFFICES ASSUME IInv, UNCHANGED vars PROVE IInv'
  OBVIOUS
<1>0. UNCHANGED <<settings, handler, wifi, presence>> /\ UNCHANGED <<main, netOk, faults>>
  BY DEF vars
<1>1. TypeOK'
  BY <1>0 DEF IInv, TypeOK, SettingsType, BootType, HandlerType, WifiType, PresenceType,
              settings, handler, wifi, presence
<1>2. (BootHolds /\ UrlWritten /\ RetriesCount)'
  BY <1>0 DEF IInv, BootHolds, UrlWritten, RetriesCount, settings, handler, wifi, presence
<1>3. (StatusTold /\ WillOwed)'
  BY <1>0 DEF IInv, StatusTold, WillOwed, presence
<1>4. (CacheIsStored /\ GatewayAndTokenMatch)'
  BY <1>0 DEF IInv, CacheIsStored, GatewayAndTokenMatch, Fits, settings, handler
<1>5. QED
  BY <1>1, <1>2, <1>3, <1>4 DEF IInv

\* Settings: loads, erasure, writes and restarts.
LEMMA NextSettingsType == SettingsType /\ HandlerType /\ Next => SettingsType'
<1> SUFFICES ASSUME SettingsType /\ HandlerType, Next PROVE SettingsType'
  OBVIOUS
<1> USE DEF SettingsType, HandlerType, Values
<1>1. CASE LoadConfig
  BY <1>1 DEF LoadConfig, Loaded
<1>2. CASE EraseConfig
  BY <1>2 DEF EraseConfig, Fault
<1>3. CASE WriteId
  BY <1>3 DEF WriteId, WriteField
<1>4. CASE WriteUrl
  BY <1>4 DEF WriteUrl, WriteField
<1>5. CASE WriteToken
  BY <1>5 DEF WriteToken, WriteField
<1>6. CASE WriteFails
  BY <1>6 DEF WriteFails, Fault
<1>7. CASE BleSucceeds
  BY <1>7 DEF BleSucceeds, Restart
<1>8. CASE PowerLoss
  BY <1>8 DEF PowerLoss, Restart, Fault
<1>9. CASE LoadFails \/ SkipProvisioning \/ StartBle \/ BleFails \/ BleSees \/
            BleTimeout \/ StartWifi \/ WaitEnds \/ StartApp \/
            (\E p \in Payloads : CfgArrives(p)) \/ GotIp \/ Disconnected \/
            MqttConnects \/ MqttDrops \/ WillSent
  <2>1. UNCHANGED settings
    BY <1>9 DEF settings, handler, wifi, presence, LoadFails, SkipProvisioning,
         StartBle, BleFails, BleSees, BleTimeout, StartWifi, WaitEnds, StartApp,
         CfgArrives, GotIp, Disconnected, MqttConnects, MqttDrops, WillSent
  <2>2. QED  BY <2>1 DEF settings
<1>10. QED
  BY <1>1, <1>2, <1>3, <1>4, <1>5, <1>6, <1>7, <1>8, <1>9
     DEF Next, MainTask, Endpoint, Phone, WifiEvent

\* The main task and the count of faults.
LEMMA NextBootType == BootType /\ Next => BootType'
<1> SUFFICES ASSUME BootType, Next PROVE BootType'
  OBVIOUS
<1> USE DEF BootType, Up
<1>1. CASE LoadConfig
  BY <1>1 DEF LoadConfig, Loaded
<1>2. CASE EraseConfig
  BY <1>2 DEF EraseConfig, Fault
<1>3. CASE LoadFails
  BY <1>3 DEF LoadFails, Fault
<1>4. CASE SkipProvisioning
  BY <1>4 DEF SkipProvisioning
<1>5. CASE StartBle
  BY <1>5 DEF StartBle, Fault
<1>6. CASE BleFails
  BY <1>6 DEF BleFails, Fault
<1>7. CASE BleSees
  BY <1>7 DEF BleSees
<1>8. CASE BleTimeout
  BY <1>8 DEF BleTimeout
<1>9. CASE StartWifi
  BY <1>9 DEF StartWifi
<1>10. CASE WaitEnds
  BY <1>10 DEF WaitEnds
<1>11. CASE StartApp
  BY <1>11 DEF StartApp, Fault
<1>12. CASE WriteFails
  BY <1>12 DEF WriteFails, Fault
<1>13. CASE BleSucceeds
  BY <1>13 DEF BleSucceeds, Restart
<1>14. CASE PowerLoss
  <2>1. faults' \in 0..MaxFaults
    BY <1>14 DEF PowerLoss, Fault
  <2>2. main' = "config" /\ netOk' = FALSE
    BY <1>14 DEF PowerLoss, Restart
  <2>3. QED  BY <2>1, <2>2
<1>15. CASE MqttDrops
  BY <1>15 DEF MqttDrops, Fault
<1>16. CASE WriteId \/ WriteUrl \/ WriteToken \/
            (\E p \in Payloads : CfgArrives(p)) \/ GotIp \/ Disconnected \/
            MqttConnects \/ WillSent
  BY <1>16 DEF settings, handler, wifi, presence, WriteId, WriteUrl, WriteToken,
         CfgArrives, GotIp, Disconnected, MqttConnects, WillSent
<1>17. QED
  BY <1>1, <1>2, <1>3, <1>4, <1>5, <1>6, <1>7, <1>8, <1>9, <1>10, <1>11, <1>12,
     <1>13, <1>14, <1>15, <1>16
     DEF Next, MainTask, Endpoint, Phone, WifiEvent

\* The endpoint.
LEMMA NextHandlerType == HandlerType /\ Next => HandlerType'
<1> SUFFICES ASSUME HandlerType, Next PROVE HandlerType'
  OBVIOUS
<1> USE DEF HandlerType
<1>1. CASE WriteId
  BY <1>1 DEF WriteId, WriteField
<1>2. CASE WriteUrl
  BY <1>2 DEF WriteUrl, WriteField
<1>3. CASE WriteToken
  BY <1>3 DEF WriteToken, WriteField
<1>4. CASE WriteFails
  BY <1>4 DEF WriteFails, Fault
<1>5. CASE \E p \in Payloads : CfgArrives(p)
  BY <1>5 DEF CfgArrives
<1>6. CASE BleSucceeds
  BY <1>6 DEF BleSucceeds, Restart
<1>7. CASE PowerLoss
  BY <1>7 DEF PowerLoss, Restart, Fault
<1>8. CASE LoadConfig \/ EraseConfig \/ LoadFails \/ SkipProvisioning \/
            StartBle \/ BleFails \/ BleSees \/ BleTimeout \/ StartWifi \/
            WaitEnds \/ StartApp \/ GotIp \/ Disconnected \/ MqttConnects \/
            MqttDrops \/ WillSent
  <2>1. UNCHANGED handler
    BY <1>8 DEF settings, handler, wifi, presence, LoadConfig, EraseConfig,
         LoadFails, SkipProvisioning, StartBle, BleFails, BleSees, BleTimeout,
         StartWifi, WaitEnds, StartApp, GotIp, Disconnected, MqttConnects,
         MqttDrops, WillSent
  <2>2. QED  BY <2>1 DEF handler
<1>9. QED
  BY <1>1, <1>2, <1>3, <1>4, <1>5, <1>6, <1>7, <1>8
     DEF Next, MainTask, Endpoint, Phone, WifiEvent

\* The radio: its types and the count of retries.
LEMMA NextWifi == WifiType /\ RetriesCount /\ BootHolds /\ Next => (WifiType /\ RetriesCount)'
<1> SUFFICES ASSUME WifiType /\ RetriesCount /\ BootHolds, Next PROVE (WifiType /\ RetriesCount)'
  OBVIOUS
<1> USE DEF WifiType, RetriesCount, BootHolds
<1>1. CASE BleSucceeds
  BY <1>1 DEF BleSucceeds, Restart
<1>2. CASE PowerLoss
  BY <1>2 DEF PowerLoss, Restart, Fault
<1>3. CASE StartWifi
  BY <1>3 DEF StartWifi
<1>4. CASE GotIp
  BY <1>4 DEF GotIp
<1>5. CASE Disconnected
  <2>1. WifiType'
    <3>1. link' \in {"trying", "lost"} /\ bits' \subseteq {"connected", "fail"}
      BY <1>5 DEF Disconnected
    <3>2. retries' \in 0..MaxRetry
      BY <1>5 DEF Disconnected
    <3>3. fails' \in 0..MaxRetry + 1
      BY <1>5 DEF Disconnected
    <3>4. QED  BY <3>1, <3>2, <3>3
  <2>2. RetriesCount'
    <3>1. CASE retries < MaxRetry
      BY <1>5, <3>1 DEF Disconnected
    <3>2. CASE retries = MaxRetry
      BY <1>5, <3>2 DEF Disconnected
    <3>3. QED  BY <3>1, <3>2
  <2>3. QED  BY <2>1, <2>2
<1>6. CASE LoadConfig \/ EraseConfig \/ LoadFails \/ SkipProvisioning \/
            StartBle \/ BleFails \/ BleSees \/ BleTimeout \/ WaitEnds \/
            StartApp \/ WriteId \/ WriteUrl \/ WriteToken \/ WriteFails \/
            (\E p \in Payloads : CfgArrives(p)) \/ MqttConnects \/ MqttDrops \/
            WillSent
  <2>1. UNCHANGED wifi
    BY <1>6 DEF settings, handler, wifi, presence, LoadConfig, EraseConfig,
         LoadFails, SkipProvisioning, StartBle, BleFails, BleSees, BleTimeout,
         WaitEnds, StartApp, WriteId, WriteUrl, WriteToken, WriteFails, CfgArrives,
         MqttConnects, MqttDrops, WillSent
  <2>2. QED  BY <2>1 DEF wifi
<1>7. QED
  BY <1>1, <1>2, <1>3, <1>4, <1>5, <1>6
     DEF Next, MainTask, Endpoint, Phone, WifiEvent

\* Presence: its types, and a broker that owes a will or tells the truth.
LEMMA NextPresence == PresenceType /\ StatusTold /\ WillOwed /\ BootHolds /\ WifiType /\ Next => (PresenceType /\ StatusTold /\ WillOwed)'
<1> SUFFICES ASSUME PresenceType /\ StatusTold /\ WillOwed /\ BootHolds /\ WifiType, Next PROVE (PresenceType /\ StatusTold /\ WillOwed)'
  OBVIOUS
<1> USE DEF PresenceType, StatusTold, WillOwed, BootHolds, WifiType, Up
<1>1. CASE BleSucceeds
  BY <1>1 DEF BleSucceeds, Restart
<1>2. CASE PowerLoss
  BY <1>2 DEF PowerLoss, Restart, Fault
<1>3. CASE StartApp
  BY <1>3 DEF StartApp, Fault
<1>4. CASE Disconnected
  BY <1>4 DEF Disconnected
<1>5. CASE MqttConnects
  BY <1>5 DEF MqttConnects
<1>6. CASE MqttDrops
  BY <1>6 DEF MqttDrops, Fault
<1>7. CASE WillSent
  BY <1>7 DEF WillSent
<1>8. CASE LoadConfig \/ EraseConfig \/ LoadFails \/ SkipProvisioning \/
            StartBle \/ BleFails \/ BleSees \/ BleTimeout \/ StartWifi \/
            WaitEnds \/ WriteId \/ WriteUrl \/ WriteToken \/ WriteFails \/
            (\E p \in Payloads : CfgArrives(p)) \/ GotIp
  <2>1. UNCHANGED presence
    BY <1>8 DEF settings, handler, wifi, presence, LoadConfig, EraseConfig,
         LoadFails, SkipProvisioning, StartBle, BleFails, BleSees, BleTimeout,
         StartWifi, WaitEnds, WriteId, WriteUrl, WriteToken, WriteFails,
         CfgArrives, GotIp
  <2>2. QED  BY <2>1 DEF presence
<1>9. QED
  BY <1>1, <1>2, <1>3, <1>4, <1>5, <1>6, <1>7, <1>8
     DEF Next, MainTask, Endpoint, Phone, WifiEvent

\* Nothing is loaded or at work before node_config_init.
LEMMA NextBootHolds == BootHolds /\ HandlerType /\ Next => BootHolds'
<1> SUFFICES ASSUME BootHolds /\ HandlerType, Next PROVE BootHolds'
  OBVIOUS
<1> USE DEF BootHolds, HandlerType, Up, settings, handler, wifi, presence
<1>1. CASE LoadConfig
  BY <1>1 DEF LoadConfig, Loaded
<1>2. CASE EraseConfig
  BY <1>2 DEF EraseConfig, Fault
<1>3. CASE LoadFails
  BY <1>3 DEF LoadFails, Fault
<1>4. CASE SkipProvisioning
  BY <1>4 DEF SkipProvisioning
<1>5. CASE StartBle
  BY <1>5 DEF StartBle, Fault
<1>6. CASE BleFails
  BY <1>6 DEF BleFails, Fault
<1>7. CASE BleSees
  BY <1>7 DEF BleSees
<1>8. CASE BleTimeout
  BY <1>8 DEF BleTimeout
<1>9. CASE StartWifi
  BY <1>9 DEF StartWifi
<1>10. CASE WaitEnds
  BY <1>10 DEF WaitEnds
<1>11. CASE StartApp
  BY <1>11 DEF StartApp, Fault
<1>12. CASE WriteId
  BY <1>12 DEF WriteId, WriteField
<1>13. CASE WriteUrl
  BY <1>13 DEF WriteUrl, WriteField
<1>14. CASE WriteToken
  BY <1>14 DEF WriteToken, WriteField
<1>15. CASE WriteFails
  BY <1>15 DEF WriteFails, Fault
<1>16. CASE \E p \in Payloads : CfgArrives(p)
  BY <1>16 DEF CfgArrives
<1>17. CASE BleSucceeds
  BY <1>17 DEF BleSucceeds, Restart
<1>18. CASE PowerLoss
  BY <1>18 DEF PowerLoss, Restart, Fault
<1>19. CASE GotIp
  BY <1>19 DEF GotIp
<1>20. CASE Disconnected
  BY <1>20 DEF Disconnected
<1>21. CASE MqttConnects
  BY <1>21 DEF MqttConnects
<1>22. CASE MqttDrops
  BY <1>22 DEF MqttDrops, Fault
<1>23. CASE WillSent
  BY <1>23 DEF WillSent
<1>24. QED
  BY <1>1, <1>2, <1>3, <1>4, <1>5, <1>6, <1>7, <1>8, <1>9, <1>10, <1>11, <1>12,
     <1>13, <1>14, <1>15, <1>16, <1>17, <1>18, <1>19, <1>20, <1>21, <1>22, <1>23
     DEF Next, MainTask, Endpoint, Phone, WifiEvent

\* The three keys of a gateway are among the settings.
LEMMA GatewayKeys == {"device_id", "gateway_url", "device_token"} \subseteq Keys
  BY DEF Keys

\* RAM and flash, and the two halves of a gateway.
LEMMA NextStored == IInv /\ Next => (UrlWritten /\ CacheIsStored /\ GatewayAndTokenMatch)'
<1> SUFFICES ASSUME IInv, Next PROVE (UrlWritten /\ CacheIsStored /\ GatewayAndTokenMatch)'
  OBVIOUS
<1> USE DEF IInv, TypeOK, SettingsType, HandlerType, BootHolds, UrlWritten,
            CacheIsStored, GatewayAndTokenMatch, settings, handler
<1>1. CASE LoadConfig
  BY <1>1, GatewayKeys DEF LoadConfig, Loaded, Fits
<1>2. CASE EraseConfig
  BY <1>2, GatewayKeys DEF EraseConfig, Fault, Fits
<1>3. CASE LoadFails
  BY <1>3, GatewayKeys DEF LoadFails, Fault, Fits
<1>4. CASE SkipProvisioning
  BY <1>4, GatewayKeys DEF SkipProvisioning, Fits
<1>5. CASE StartBle
  BY <1>5, GatewayKeys DEF StartBle, Fault, Fits
<1>6. CASE BleFails
  BY <1>6, GatewayKeys DEF BleFails, Fault, Fits
<1>7. CASE BleSees
  BY <1>7, GatewayKeys DEF BleSees, Fits
<1>8. CASE BleTimeout
  BY <1>8, GatewayKeys DEF BleTimeout, Fits
<1>9. CASE StartWifi
  BY <1>9, GatewayKeys DEF StartWifi, Fits
<1>10. CASE WaitEnds
  BY <1>10, GatewayKeys DEF WaitEnds, Fits
<1>11. CASE StartApp
  BY <1>11, GatewayKeys DEF StartApp, Fault, Fits
<1>12. CASE WriteId
  BY <1>12, GatewayKeys DEF WriteId, WriteField, Fits
<1>13. CASE WriteUrl
  BY <1>13, GatewayKeys DEF WriteUrl, WriteField, Fits
<1>14. CASE WriteToken
  BY <1>14, GatewayKeys DEF WriteToken, WriteField, Fits
<1>15. CASE WriteFails
  BY <1>15, GatewayKeys DEF WriteFails, Fault, Fits
<1>16. CASE \E p \in Payloads : CfgArrives(p)
  BY <1>16, GatewayKeys DEF CfgArrives, Fits
<1>17. CASE BleSucceeds
  <2>1. main' = "config" /\ nvsOk' = FALSE /\ hpc' = "idle" /\ nvs' = nvs
    BY <1>17 DEF BleSucceeds, Restart
  <2>2. ~torn' => ~torn /\ hpc # "token"
    BY <1>17 DEF BleSucceeds, Restart
  <2>3. QED  BY <2>1, <2>2
<1>18. CASE PowerLoss
  <2>1. main' = "config" /\ nvsOk' = FALSE /\ hpc' = "idle" /\ nvs' = nvs
    BY <1>18 DEF PowerLoss, Restart
  <2>2. ~torn' => ~torn /\ hpc # "token"
    BY <1>18 DEF PowerLoss, Restart
  <2>3. QED  BY <2>1, <2>2
<1>19. CASE GotIp
  BY <1>19, GatewayKeys DEF GotIp, Fits
<1>20. CASE Disconnected
  BY <1>20, GatewayKeys DEF Disconnected, Fits
<1>21. CASE MqttConnects
  BY <1>21, GatewayKeys DEF MqttConnects, Fits
<1>22. CASE MqttDrops
  BY <1>22, GatewayKeys DEF MqttDrops, Fault, Fits
<1>23. CASE WillSent
  BY <1>23, GatewayKeys DEF WillSent, Fits
<1>24. QED
  BY <1>1, <1>2, <1>3, <1>4, <1>5, <1>6, <1>7, <1>8, <1>9, <1>10, <1>11, <1>12,
     <1>13, <1>14, <1>15, <1>16, <1>17, <1>18, <1>19, <1>20, <1>21, <1>22, <1>23
     DEF Next, MainTask, Endpoint, Phone, WifiEvent

\* The inductive invariant holds in every behaviour of the device.
THEOREM Inductive == Spec => []IInv
<1>1. IInv /\ [Next]_vars => IInv'
  BY StutterIInv, NextSettingsType, NextBootType, NextHandlerType, NextWifi,
     NextPresence, NextBootHolds, NextStored DEF IInv, TypeOK
<1>2. QED  BY InitIInv, <1>1, PTL DEF Spec

\* Settings, boot, radio and presence are well typed, and the endpoint holds
\* a payload exactly while it applies one.
THEOREM TypeCorrect == Spec => []TypeOK
<1>1. IInv => TypeOK  BY DEF IInv
<1>2. QED  BY Inductive, <1>1, PTL

\* node_config.c: whatever writes fail and whenever power goes, the getters
\* return what a restart would load.
THEOREM FlashAndRamAgree == Spec => []CacheIsStored
<1>1. IInv => CacheIsStored  BY DEF IInv
<1>2. QED  BY Inductive, <1>1, PTL

\* node_provision_apply: only a write that fails or loses power between url
\* and token separates them.
THEOREM GatewayKeepsToken == Spec => []GatewayAndTokenMatch
<1>1. IInv => GatewayAndTokenMatch  BY DEF IInv
<1>2. QED  BY Inductive, <1>1, PTL

\* on_wifi_event: the radio is given up after MAX_RETRY retries in a row and
\* not before.
THEOREM RetriesInARow == Spec => []GivesUpLate
<1>1. IInv => GivesUpLate  BY DEF IInv, RetriesCount, GivesUpLate
<1>2. QED  BY Inductive, <1>1, PTL

\* node_mqtt.c: unless the broker still owes a will, the retained status says
\* whether the device is connected.
THEOREM StatusIsTrue == Spec => []StatusTold
<1>1. IInv => StatusTold  BY DEF IInv
<1>2. QED  BY Inductive, <1>1, PTL
=============================================================================
