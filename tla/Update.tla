------------------------------- MODULE Update -------------------------------
(***************************************************************************)
(* A firmware update from the operator's upload to the slot the device     *)
(* runs: the relay's image store (relay/internal/firmware, fwui), the      *)
(* requests it answers (server.go), and one device that polls it on every  *)
(* telemetry tick (node_health.c, node_ota.c).                             *)
(*                                                                         *)
(* Publishing renames two files one after the other, with other publishes, *)
(* polls, downloads and the end of the relay in between.  The device reads *)
(* the manifest in one request and the image in a later one, writes it to  *)
(* the slot it does not run, and may lose power at any point.  The         *)
(* bootloader, the OTA library and net/http are external and follow from   *)
(* the way node_ota.c and store.go use them.                               *)
(*                                                                         *)
(* An image stands for its content and so for its SHA-256.                 *)
(***************************************************************************)
EXTENDS Naturals

CONSTANTS
    Devices,      \* the ids an allowlist can name
    Node,         \* the device of this model
    Versions,     \* version strings
    Typed,        \* those that operators publish under
    Images,       \* contents of published files
    Factory,      \* the image flashed over USB
    Kind,         \* what becomes of an image on the device, see Kinds
    Embedded,     \* the version compiled into an image (esp_app_desc)
    AllowLists,   \* the allowlists operators use
    LongLists,    \* those that make the answer to a poll longer than net/http buffers
    Checks,       \* how node_ota.c may read fetch_headers, see HeadersPass
    MaxPublishes, \* bound on POST /firmware/publish requests
    MaxFaults,    \* bound on power losses and failed requests
    Page,         \* the text of a 401 or 404 answer
    Blank,        \* a slot that is erased or partly written
    None          \* no file, no manifest

Kinds == {"good",      \* reaches node_ota_init
          "panics",    \* a bootable image that never gets there
          "garbage",   \* not an image: esp_ota_end refuses it
          "large"}     \* larger than a slot: esp_ota_begin refuses it

ASSUME NameAssumption ==
    /\ Node \in Devices /\ AllowLists \subseteq SUBSET Devices /\ Typed \subseteq Versions
    /\ Checks \subseteq {"written", "meant"}
ASSUME ImageAssumption ==
    /\ Kind \in [Images -> Kinds]
    /\ Embedded \in [Images -> Versions]
    /\ Factory \in Images /\ Kind[Factory] = "good"
    /\ Page \notin Images /\ Blank \notin Images /\ None \notin Images
    /\ Page # Blank /\ Page # None
ASSUME BoundAssumption == MaxFaults \in Nat /\ MaxPublishes \in Nat

VARIABLES
    bin,         \* voice-node-<version>.bin in Store.dir
    manifest,    \* manifest.json
    pub,         \* publishes that have renamed the image, not yet the manifest
    published,   \* publishes so far, numbered as they rename their images
    hand,        \* whether manifest.json may still be written by hand
    offered,     \* the images that were ever offered to Node
    tokens,      \* whether Config.DeviceTokens is set
    rollbackOn,  \* CONFIG_BOOTLOADER_APP_ROLLBACK_ENABLE
    check,       \* how the device's firmware reads fetch_headers
    slots,       \* app0 and app1: content and state
    boot,        \* the slot otadata names
    run,         \* the slot that runs
    main,        \* the main task: off, booting, or past node_ota_init
    tpc,         \* where the timer task is in node_ota_poll
    got,         \* the manifest the poll has read
    file,        \* what the answer to the download holds
    faults

storeVars == <<bin, manifest, pub, published, hand, offered>>
flashVars == <<slots, boot>>
pollVars == <<tpc, got, file>>
deviceVars == <<flashVars, run, main, pollVars, faults>>
vars == <<storeVars, tokens, rollbackOn, check, deviceVars>>

Publishers == 1..MaxPublishes
Manifests == [version : Typed, sha : Images, devices : AllowLists,
              withId : BOOLEAN]     \* the url carries ?device_id=<Node>
SlotStates == {"undefined", "new", "pending", "valid", "aborted"}

Init ==
    /\ bin = [v \in Typed |-> None]
    /\ manifest = None
    /\ pub = [p \in Publishers |-> None]
    /\ published = 0
    /\ hand = TRUE
    /\ offered = {}
    /\ tokens \in BOOLEAN
    /\ rollbackOn \in BOOLEAN
    /\ check \in Checks
    /\ slots = [s \in {0, 1} |->
                  [img |-> IF s = 0 THEN Factory ELSE Blank, st |-> "undefined"]]
    /\ boot = 0 /\ run = 0
    /\ main = "off"
    /\ tpc = "idle" /\ got = None /\ file = None
    /\ faults = 0

-----------------------------------------------------------------------------
(***************************************************************************)
(* The relay.                                                              *)
(***************************************************************************)
Eligible(m, d) == m.devices = {} \/ d \in m.devices

\* Renaming the new manifest over the old one.
SetManifest(m) ==
    /\ manifest' = m
    /\ offered' = IF Eligible(m, Node) THEN offered \cup {m.sha} ELSE offered

\* The form: the version, the image and the allowlist that are asked for.  The
\* url names the file and no device.
Form(v, i, D) == [version |-> v, sha |-> i, devices |-> D, withId |-> FALSE]

\* Publish up to its first rename.  Before it, everything happens in a
\* temporary file of its own, and refusals leave nothing behind.
PublishImage(p, v, i, D) ==
    /\ p = published + 1
    /\ published' = p
    /\ bin' = [bin EXCEPT ![v] = i]
    /\ pub' = [pub EXCEPT ![p] = Form(v, i, D)]
    /\ UNCHANGED <<manifest, hand, offered, tokens, rollbackOn, check, deviceVars>>

\* The second rename.
PublishManifest(p) ==
    /\ pub[p] # None
    /\ SetManifest(pub[p])
    /\ pub' = [pub EXCEPT ![p] = None]
    /\ UNCHANGED <<bin, published, hand, tokens, rollbackOn, check, deviceVars>>

\* The manifest's temporary file cannot be written, or the relay ends.
PublishFails(p) ==
    /\ pub[p] # None
    /\ pub' = [pub EXCEPT ![p] = None]
    /\ UNCHANGED <<bin, manifest, published, hand, offered, tokens, rollbackOn, check, deviceVars>>

\* The operator writes manifest.json with an editor (manifest.go: "hand- or
\* UI-written") and puts the device's id into the url.
WriteByHand(m) ==
    /\ hand /\ m.withId
    /\ hand' = FALSE
    /\ SetManifest(m)
    /\ UNCHANGED <<bin, pub, published, tokens, rollbackOn, check, deviceVars>>

\* Server.authorized: a device id, and its token if tokens are set.
Authorized(id, token) == id /\ (tokens => token)

\* handleFirmwareVersion: the poll names its device and sends the token.
OfferedBy(m) == Authorized(TRUE, TRUE) /\ m # None /\ Eligible(m, Node)

\* handleFirmwareBinary: the device sends neither X-Device-ID nor a token with
\* the download, so only the url can name it.
DownloadAuthorized(m) == Authorized(m.withId, FALSE)

\* What the download of m's url is answered with; the file is opened once.
Answer(m) == IF DownloadAuthorized(m) /\ bin[m.version] # None
             THEN bin[m.version] ELSE Page

\* net/http states the length of an answer that fits its buffer, and of a file.
StatesLength(m) == m.devices \notin LongLists

-----------------------------------------------------------------------------
(***************************************************************************)
(* The timer task: node_ota_poll.  Answers that end the poll at once (no   *)
(* manifest, 204, a field that does not fit, a failed request) change      *)
(* nothing.                                                                *)
(***************************************************************************)
\* esp_http_client_fetch_headers returns the length that the answer states, 0 if
\* it states none, and a negative number on failure.  As written, node_ota.c
\* takes every result but ESP_OK, which is 0, for a failure; as meant, it would
\* test for a negative one.  What follows is checked for both, since as written
\* nothing of it is reached.
HeadersPass(stated) == check = "meant" \/ ~stated

Newer(have, want) == have # want

\* The health timer runs from the start of app_main_run on, and its callback
\* polls.
Tick == main # "off" /\ tpc = "idle"

\* The request, and the answer of the relay.
PollAsks ==
    /\ Tick
    /\ OfferedBy(manifest)
    /\ got' = manifest
    /\ tpc' = "headers"
    /\ UNCHANGED <<storeVars, tokens, rollbackOn, check, flashVars, run, main, file, faults>>

\* The headers, the manifest and its version.
PollReads ==
    /\ tpc = "headers"
    /\ IF HeadersPass(StatesLength(got)) /\ Newer(Embedded[slots[run].img], got.version)
       THEN tpc' = "begin" /\ UNCHANGED got
       ELSE tpc' = "idle" /\ got' = None
    /\ UNCHANGED <<storeVars, tokens, rollbackOn, check, flashVars, run, main, file, faults>>

SlipTarget == run

\* esp_ota_get_next_update_partition
Target == 1 - run

\* esp_ota_begin: too large an image is refused, and any while the running one
\* is not confirmed.
BeginAccepts(c) ==
    /\ ~(c \in Images /\ Kind[c] = "large")
    /\ slots[run].st # "pending"

\* node_ota_start_sha up to esp_ota_begin, which erases the slot.  A file states
\* its length, and so does the text of a refusal; an answer that stated none would
\* be refused for that.
Begin ==
    /\ tpc = "begin"
    /\ IF HeadersPass(TRUE) /\ BeginAccepts(Answer(got))
       THEN /\ tpc' = "write"
            /\ file' = Answer(got)
            /\ slots' = [slots EXCEPT ![Target] = [img |-> Blank, st |-> "undefined"]]
            /\ UNCHANGED got
       ELSE tpc' = "idle" /\ got' = None /\ UNCHANGED <<file, slots>>
    /\ UNCHANGED <<storeVars, tokens, rollbackOn, check, boot, run, main, faults>>

\* The loop over esp_http_client_read has written and hashed it all.
Streamed ==
    /\ tpc = "write"
    /\ slots' = [slots EXCEPT ![Target].img = file]
    /\ tpc' = "verify"
    /\ UNCHANGED <<storeVars, tokens, rollbackOn, check, boot, run, main, got, file, faults>>

SlipMatches == TRUE

Matches == file = got.sha

\* The comparison with the manifest's hash, and esp_ota_end.
Verify ==
    /\ tpc = "verify"
    /\ file' = None
    /\ IF Matches /\ file \in Images /\ Kind[file] # "garbage"
       THEN tpc' = "install" /\ UNCHANGED got
       ELSE tpc' = "idle" /\ got' = None
    /\ UNCHANGED <<storeVars, tokens, rollbackOn, check, flashVars, run, main, faults>>

\* esp_ota_set_boot_partition and esp_restart.
Install ==
    /\ tpc = "install"
    /\ boot' = Target
    /\ slots' = [slots EXCEPT ![Target].st = IF rollbackOn THEN "new" ELSE "undefined"]
    /\ main' = "off"
    /\ tpc' = "idle" /\ got' = None
    /\ UNCHANGED <<storeVars, tokens, rollbackOn, check, run, file, faults>>

\* A call fails: node_ota_start_sha cleans up and returns -1.
GiveUp ==
    /\ tpc # "idle" /\ faults < MaxFaults
    /\ tpc' = "idle" /\ got' = None /\ file' = None
    /\ faults' = faults + 1
    /\ UNCHANGED <<storeVars, tokens, rollbackOn, check, flashVars, run, main>>

-----------------------------------------------------------------------------
(***************************************************************************)
(* Bootloader, main task and power.                                        *)
(***************************************************************************)
Bootable(s) ==
    /\ slots[s].img \in Images
    /\ Kind[slots[s].img] \in {"good", "panics"}
    /\ slots[s].st # "aborted"

\* A slot that is started a second time without having been confirmed, or
\* does not hold an image, gives way to the other one.
NextBoot == IF Bootable(boot) /\ slots[boot].st # "pending" THEN boot ELSE 1 - boot

BootUp ==
    /\ main = "off" /\ Bootable(NextBoot)
    /\ boot' = NextBoot /\ run' = NextBoot
    /\ slots' = [s \in {0, 1} |->
         [slots[s] EXCEPT !.st = CASE @ = "pending" -> "aborted"
                                   [] @ = "new" /\ s = NextBoot -> "pending"
                                   [] OTHER -> @]]
    /\ main' = "booting"
    /\ UNCHANGED <<storeVars, tokens, rollbackOn, check, pollVars, faults>>

Panicking == Kind[slots[run].img] = "panics"
Confirmed == [slots EXCEPT ![run].st = IF @ = "pending" THEN "valid" ELSE @]

SlipConfirmFirst ==
    /\ main = "booting"
    /\ slots' = Confirmed
    /\ main' = IF Panicking THEN main ELSE "ready"
    /\ UNCHANGED <<storeVars, tokens, rollbackOn, check, boot, run, pollVars, faults>>

SlipNoConfirm ==
    /\ main = "booting" /\ ~Panicking
    /\ main' = "ready"
    /\ UNCHANGED <<storeVars, tokens, rollbackOn, check, flashVars, run, pollVars, faults>>

\* app_main_run reaches node_ota_init.  The health timer is running already.
OtaInit ==
    /\ main = "booting" /\ ~Panicking
    /\ slots' = Confirmed
    /\ main' = "ready"
    /\ UNCHANGED <<storeVars, tokens, rollbackOn, check, boot, run, pollVars, faults>>

PowerOff ==
    /\ main' = "off"
    /\ tpc' = "idle" /\ got' = None /\ file' = None
    /\ UNCHANGED <<storeVars, tokens, rollbackOn, check, flashVars, run>>

Panic == main = "booting" /\ Panicking /\ PowerOff /\ UNCHANGED faults

PowerLoss == main # "off" /\ faults < MaxFaults /\ PowerOff /\ faults' = faults + 1

-----------------------------------------------------------------------------
Relay ==
    \/ \E p \in Publishers, v \in Typed, i \in Images, D \in AllowLists :
          PublishImage(p, v, i, D)
    \/ \E p \in Publishers : PublishManifest(p) \/ PublishFails(p)
    \/ \E m \in Manifests : WriteByHand(m)
TimerTask == PollAsks \/ PollReads \/ Begin \/ Streamed \/ Verify \/ Install
MainTask == BootUp \/ OtaInit \/ Panic
Next == Relay \/ TimerTask \/ GiveUp \/ MainTask \/ PowerLoss

Spec == Init /\ [][Next]_vars

\* The device's two tasks run, power and network fail finitely often.
FairSpec == Spec /\ WF_vars(TimerTask) /\ WF_vars(MainTask)
-----------------------------------------------------------------------------
(***************************************************************************)
(* Properties.                                                             *)
(***************************************************************************)
\* Types; and a poll that is over holds neither a manifest nor a connection.
TypeOK ==
    /\ bin \in [Typed -> Images \cup {None}]
    /\ manifest \in Manifests \cup {None}
    /\ pub \in [Publishers -> Manifests \cup {None}]
    /\ published \in 0..MaxPublishes
    /\ offered \subseteq Images
    /\ hand \in BOOLEAN /\ tokens \in BOOLEAN /\ rollbackOn \in BOOLEAN
    /\ slots \in [{0, 1} -> [img : Images \cup {Page, Blank}, st : SlotStates]]
    /\ boot \in {0, 1} /\ run \in {0, 1}
    /\ main \in {"off", "booting", "ready"}
    /\ check \in Checks
    /\ tpc \in {"idle", "headers", "begin", "write", "verify", "install"}
    /\ IF tpc = "idle" THEN got = None ELSE got \in Manifests
    /\ IF tpc \in {"write", "verify"} THEN file \in Images \cup {Page} ELSE file = None
    /\ faults \in 0..MaxFaults

\* Whenever the power goes, the bootloader finds an image it can start: no
\* partial download, wrong file or unconfirmed update costs the device its
\* last bootable slot.  (docs/architecture.md, "corrupt-flash bricks")
NeverBricked == Bootable(NextBoot)

\* What is next to run was flashed over USB or offered to this very device by
\* some manifest: neither a publish between poll and download, under the same
\* version and for other devices, nor two publishes at once slip an image in.
OnlyOfferedBoots == slots[boot].img \in offered \cup {Factory}

\* A device that got past node_ota_init comes back in the same slot after a
\* power loss.
ReadyStays ==
    main = "ready" => boot = run /\ NextBoot = run

\* With rollback built in, no image locks the device up: again and again it gets
\* past node_ota_init, or, the health timer being faster, installs the next.
ComesBack == rollbackOn => []<>(main = "ready" \/ tpc = "install")

\* The published image can be installed and says of itself what the operator
\* typed.
Installable ==
    /\ manifest # None
    /\ Eligible(manifest, Node)
    /\ bin[manifest.version] = manifest.sha
    /\ Kind[manifest.sha] = "good"
    /\ Embedded[manifest.sha] = manifest.version

UpToDate ==
    manifest # None /\ main = "ready" /\ Embedded[slots[run].img] = manifest.version

\* As the documents have it: a published eligible image arrives.  Two places of
\* the code are in the way, each of them enough: the reading of the headers in
\* node_ota.c, and a download that names no device.
PublishedArrives == (rollbackOn /\ <>[]Installable) => <>[]UpToDate

\* As written, no poll gets past the headers of a download: the slots stay what
\* they were when the device was flashed over USB.
NothingInstalled ==
    check = "written" =>
        /\ tpc \in {"idle", "headers", "begin"}
        /\ slots[0].img = Factory /\ slots[1].img = Blank
        /\ boot = 0 /\ run = 0
=============================================================================
