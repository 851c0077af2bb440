# HermesVoice: specifications and proofs

HermesVoice is a push-to-talk voice terminal: an ESP32 device (`src/firmware`, C)
records speech and uploads it to a relay (`src/relay`, Go), which has it
transcribed, asks a Hermes agent, and answers with text for the device's
display. This directory holds TLA+ models of the parts whose correctness
depends on the order of things, TLC instances that check them, and TLAPS proofs
of their main invariants for every size of the system.

    tlc -workers 2 -config MCRelayTurn.cfg MCRelayTurn     check a run
    tlapm RelayTurnProofs.tla                              check the proofs

## 1. Inventory

### Relay

| Component | State | Operations | Hard part | Correct when |
|---|---|---|---|---|
| Chunked uploads (`server/chunks.go` 19-202) | `chunkStore.sessions`: device, chunks by number, total, lastSeen; one mutex | start, append, assemble, dropDevice, sweep; three handlers | retries, duplicates and late requests in any order, janitor goroutine, byte cap | each upload becomes at most one turn, made of exactly the acknowledged bodies; devices are isolated; memory is bounded and freed |
| Voice turn (`server/chunks.go` 217-332, `server/server.go` 180-198) | `cancels`, `cancelGen`, `sessions` under `Server.mu`; locals of the goroutine | register, five tests of the generation, STT, prompt, publishes, deferred clean-up | a newer turn or a cancel between any two steps; timeouts; five ways out | the newest turn can be cancelled; each turn publishes what it answers, once; the retained state settles; nothing of a cancelled turn has an effect |
| Cancel (`server/server.go` 200-238) | the same maps | take the function, next generation, trim maps, drop uploads, call the function | races with the turn it cancels and with those of other devices | as above |
| MQTT client (`mqtt/mqtt.go`) | a channel of 64 messages, one sender goroutine; the sink chosen at boot | New, pub (drops when full), loop | overload, broker away, states sent again by the library, a stop with messages queued | voice is never blocked; nothing but a kept state is repeated or reordered; the retained state is the last one published |
| Status recorder (`status/recorder.go`) | counters, last N turns, one mutex | PublishTurn, Snapshot | concurrent turns | the list keeps to its limit |
| Firmware store (`firmware/store.go`, `manifest.go`, `fwui/handler.go`) | image files and `manifest.json` | Publish (two renames), HandleVersion, HandleBinary | concurrent publishes, a crash between the renames, files that change between poll and download | what a device is offered is meant for it, and what it downloads is what was offered |
| Setup store (`setup/store.go`, `setup/handler.go`) | `.env` | Load, Save over one temporary name | concurrent saves, a crash | the file is always the last one saved; a relay started after a save runs with it |
| Configuration and start-up (`config/config.go`, `cmd/hermes-voice/main.go`) | two `.env` files, the process environment | Load, envPath, start, stop | which of several sources counts; values that are accepted and stop the next start | as above |
| STT drivers (`stt/*.go`), Hermes client (`hermes/hermes.go`) | what was heard of a stream so far; one deadline | stt.New, Transcribe of four drivers, CreateSession, Prompt | timeouts, errors, streams that break or end in any order | no interim replaces a final, no speech is lost; the agent has its time; a call ends |
| Admin pages | none over time | rendering, probes | - | not modelled |
| Bench device (`cmd/virt/main.go`) | a clip and an upload | the device's requests, with a chunk left out or a cancel in between | as the device's relay client | its verdict is the one its requests deserve |

### Device

| Component | State | Operations | Hard part | Correct when |
|---|---|---|---|---|
| Capture buffer (`node_audio.c`) | two halves, fill and drain index, overrun flag; no lock | reset, push, take, mark empty, seal | written by the reader task, drained by the worker task, reset by the timer task | an upload holds the recording, in order, and says so if part is missing |
| Button to reply (`app_main.c`, `page.c`, `errors.c`) | job queue of two, `s_press_us`, `s_overrun_noted`, page count, state on LED, display and MQTT | on_press, on_release, worker, report_result | three tasks; presses during uploads; taps; double presses | every recording is reported, the state shown is the true one, a cancel cancels |
| Relay client (`node_voice.c`) | a connection, a chunk buffer | start, chunk with one retry, finish, cancel | lost answers, limits that differ from the relay's | what the relay transcribes is what was recorded |
| Button (`node_ptt.c`, `on_press`) | reported level, stable time, time of the press | poll, fold | bounces; polls that are late because another callback holds the timer task up | what is held is reported; a double press is one the user made |
| Update (`node_ota.c`, tick in `node_health.c`) | slots, boot partition | poll, start, init (confirm) | partial download, bad image, reboot at any point | only a verified image boots; a bad one rolls back; an update arrives |
| Settings, provisioning (`node_config.c`, `node_provision.c`) | NVS keys and caches | set, init, endpoint, provision loop | two copies of each setting, failure or restart between two keys, the phone's requests beside the main task | flash and RAM agree, settings belong together, provisioning ends |
| WiFi (`node_wifi.c`) | retry counter, event bits | connect, bounded retries, wait | outages over a long life | it gives up only after the stated retries in a row; the boot does not wait for it |
| MQTT presence (`node_mqtt.c`) | `s_connected`, the retained status at the broker | connect, disconnect, last will | wills that come late | the status settles at the truth |
| Display, LED, log | pixels | draw | - | see section 6 |

### Interactions

The device's worker task calls the relay over HTTP (`/v1/chunks/start`,
`/v1/chunks/{id}?seq=`, `/v1/chunks/{id}/finish`); its timer task calls
`/v1/cancel` on a double press. In the relay each request is a goroutine.
`handleChunkFinish` takes the PCM out of the store and runs the turn,
`handleCancel` touches both the turn maps and the store. Both sides publish a
state to the same retained topic `node/<id>/state`.

## 2. Modules

| Module | Models | Used by |
|---|---|---|
| `ChunkStore` | the upload store and its handlers | `MCChunkStore`, `Uploader`, `UploadProofs` |
| `VoiceTurn` | abstract: one voice turn as device, agent and readers of the topics see it | `RelayTurn`, `RelayTurnProofs` |
| `RelayTurn` | turns and cancels of all devices; implements `VoiceTurn` | `MCRelayTurn`, `TurnCalls`, `RelayTurnProofs`; `ChunkStore` is its upstream: an upload that can be finished is a member of `uploads` |
| `NodeAudio` | the operations on the two halves, as functions from one value of the static variables to the next | `NodeApp` |
| `NodeApp` | timer, reader and worker task of the device over `NodeAudio` | `MCNodeApp`, `ButtonProofs` |
| `Update` | relay's firmware store, polling device, bootloader | `MCUpdate`, `UpdateProofs` |
| `NodeBoot` | boot, settings, provisioning, WiFi, MQTT presence | `MCNodeBoot`, `NodeBootProofs` |
| `Uploader` | a client of the upload, device or bench program; EXTENDS `ChunkStore` | `MCUploader`, `UploadProofs` |
| `TurnCalls` | the two outside calls of a turn; its steps are shown to be steps of `RelayTurn` | `MCTurnCalls`, `TurnCallsProofs` |
| `LossyFeed` | abstract: a channel that may lose messages, and repeats those of one kind only | `MqttSink`, `MqttSinkProofs` |
| `MqttSink` | MQTT client and recorder; implements `LossyFeed` | `MCMqttSink`, `MqttSinkProofs` |
| `Ptt` | button, poll and fold in the timer task | `MCPtt`, `ButtonProofs` |
| `RelayConfig` | `.env` files, saves, start of the relay | `MCRelayConfig`, `RelayConfigProofs` |
| `UploadProofs`, `ButtonProofs`, `RelayTurnProofs`, `UpdateProofs`, `NodeBootProofs`, `TurnCallsProofs`, `MqttSinkProofs`, `RelayConfigProofs` | theorems | |

Operators named `Slip...` are deliberate mistakes of the kind a change to the
code could make. No specification uses them. Each stands before the definition
it would replace, and replacing it makes TLC report the property it is listed
with in `PROJECT.json`: that shows the property can fail.

### ChunkStore

Every operation of `chunkStore` holds its mutex throughout, so each is one
action. `sessions` maps every id to a session or `NoSession`; a session's
`chunks` is the Go map with `Absent` for missing keys. `lastSeen` is kept as the
time since then, which may stop one unit beyond the TTL because `sweep` compares
it with nothing else. Requests are unconstrained: any authorised device, any id
ever issued, any number from -1 to `MaxCount`, any body, any time. Bodies are
model values with a length. Ids are drawn without repetition (`newUploadID` has
64 random bits). `acked` and `handed` are history variables. The publishes of
the handlers belong to `RelayTurn`. The 401 answer, the parse of `seq` and the
empty or oversized body are refusals that read and change nothing, and are left
out.

### VoiceTurn and RelayTurn

`VoiceTurn` is what the relay promises of a turn, without generations, maps and
goroutines: the agent is asked at most once, and not for a turn whose context has
ended; a reply is published only of what was asked; the envelope comes at most
once, with the answer, after everything else, and its verdict is true of how far
the turn got (`Truthful`): `ok` if and only if the reply was published,
`hermes_timeout` only of a turn that was asked or whose time was up, the others
only of turns that were never asked. A turn without an envelope has published no
reply. `RelayTurn` implements it (`IsVoiceTurn`); only `ctx` needs a mapping, the
other variables are the same.

In `RelayTurn` a request walks through `pc`; the labels are the places where
another goroutine can get in. One action is one critical section, one publish or
the end of one call. Three merges keep the state small, and hide no interleaving
that a property could see:

- `Arrive` is `assemble` (or reading the body) and `PublishState("working")`.
  Nothing between them reads what the other writes.
- `StartUpload` is the publish of `uploading` and the new session.
- `CheckBeforeSTT` includes the beginning of the STT call, which has no effect
  on the relay.

`Register` is the critical section at the head of `transcribeAndPrompt`; `own`
is its local `gen`. `Stale` is the closure `stale()`. `ctx` says whether the
turn's context has ended: by the deadline or the client (`CtxEnds`), by a cancel
(`CancelStop`), or by a cancel that empties an overgrown map (`CancelLock`).
`Transcribed` may follow an ended context, because a provider can return its
text just before it looks; `SendPrompt` may not, because `http.Client.Do` looks
first. `Recheck` and `PublishIdle` are the test and the publish of
`if !stale() { PublishState(...) }`, which other goroutines can separate. A
failed `Prompt` takes the way through `check4`, where the code looks at `stale()`
before `err`. `state[d]`, `emitted`, `responded` are what was enqueued for MQTT.
`handleCancel` is three steps: its critical section, `dropDevice`, and the call
of the function it took.

### NodeAudio and NodeApp

The unit of audio is one `i2s_channel_read` (4096 bytes); `HalfUnits` of them
fill a half (four; two in TLC). A block is `<<recording, number>>`, so an upload
shows which audio it holds and in what order. `Push`, `MarkEmpty` and `Seal`
are the C functions over the static variables. They are taken as atomic with
respect to each other. `upload_feed` is not: looking and copying (`FeedTake`) and
giving back (`FeedMark`) are two steps, and the copy may hold any mixture of the
block that was there and the one the recorder has put there since (`Copies`).

The timer task runs `on_press` and `on_release` to their end before it polls
again: `tpc` says where it is in a callback that blocks. `CancelPress` is the
blocking request, `CancelDrain` what follows it. `Release` sets the stop flag
and the three `Release...` actions go on when the reader has ended. The reader
may end by itself on a read error. `mic` is the outcome of `node_audio_init`.
`window` is the time since the last recording press being under 400 ms; while it
is, less than one half of audio can have been captured, which `Capture`
takes as a guard. `Audible` is the part of the peak test that the model can
tell: halves without data have peak 0; otherwise both outcomes are possible.

The worker's `wpc` follows `run_upload` and `node_voice_post_chunked`. Whether a
request succeeds is open at each one, so the model covers every relay.
`alone` (nothing was waiting or running when the recording started) and
`undone` (a cancel drained the queue during this press) are history variables;
`job` carries the recording it was made for, where the code has a length and a
peak that nothing reads.

### Update

An image stands for its content and its hash. `PublishImage` and
`PublishManifest` are the two renames of `Publish`; any number of publishes can
be between them (`pub`), and `PublishFails` is one that gets no further.
`WriteByHand` is the operator's editor, which `manifest.go` allows. The tick of
`node_health.c` starts `PollAsks`, and from there one action is one call that
can fail (`GiveUp`) or meet a change at the relay: `PollReads` takes the headers,
the manifest and its version, `Begin` sends the second request and erases the
slot, `Streamed` writes what came, `Verify` compares hash and image, `Install`
sets the boot partition and restarts. A poll that is offered nothing changes
nothing and is left out. `Answer` is what the relay serves: the image, or the
text of a 401 or 404 (`Page`), which the device does not tell apart by its
status.

`esp_http_client_fetch_headers` returns the content length that an answer
states, 0 if it states none, a negative number on failure. `node_ota.c` goes on
only if the result is `ESP_OK`, which is 0, in the poll (229-234) and in the
download (64-69). net/http states the length of every answer that fits its
buffer (2048 bytes), and of every file; `LongLists` are the allowlists that make
a manifest longer than that. So as written the poll of an eligible device ends
at its headers, and where it does not, the download ends at its own, before
anything is erased. `check` says which reading is modelled, `HeadersPass` what it
lets through: `"written"` is the code, `"meant"` a test for a negative result.
Both are in the run `update`, because everything behind the comparison, erasing,
writing, verifying, installing, confirming, is reached only with the second; the
safety properties and their proofs cover both. What the code as written amounts
to is the run `update_never_arrives` and the theorem `NeverInstalls`.

The bootloader is external. `NextBoot` is its rule: a slot that was started and
not confirmed, or does not hold an image, gives way to the other. `rollbackOn`
and `tokens` are configurations, chosen at the start. `OtaInit` confirms.
`Kind` says what becomes of an image on this device; `Embedded` is the version
compiled into it, which is what the poll compares, while the manifest holds
what the operator typed. `offered` is a history variable.

### NodeBoot

`main` is the place of `app_main_run`; each call that can wait or fail is an
action. A setting's value is where it came from: the build, manufacturing, or a
payload; `Cut` is a token longer than the cache. `mqtt_uri` and `telemetry_s`
are left out: they are loaded as the others are and written by nobody. The
`node-cfg` endpoint runs in the BLE task (`hpc`), one action per
`write_field`, each of which writes flash and then RAM under no other writer.
`torn` (history) marks that a write failed or the power went between URL and
token. `fails` (history) counts the disconnects since the last address, beside
the code's `retries`.

`WiFi` is the event handler of `node_wifi.c`: `Disconnected` may happen in
any order with everything else. Losing the link loses the broker's connection;
the broker then owes a will (`will`), which it sends at some time, at the latest
when the device is back (`MqttConnects` takes the connection over, and publishes
`online` after it). The topic's device id is taken as one name. `Restart` is
`esp_restart` and a power loss: everything in RAM starts anew.

What the code calls without looking at the result is taken to succeed, the calls
that set up the provisioning service included.

### Uploader

The client's requests are the actions of `ChunkStore` with the client's own
arguments: `ChunkPosted` is `AppendOK` or `AppendRefused` together with what
the client makes of the answer. A request can be lost before the relay, after
it (the answer), or be carried out after the client has given up on it (`late`);
`MaxFaults` bounds these. `job` says whether the client is the device
(`node_voice_post_chunked`: one retry per chunk, a limit of its own) or the
bench program (no retry, `-drop-seq`, `-cancel-mid`). Everybody else does to the
store what `ChunkStore` lets any device do, and the janitor runs. `swept`
(history) marks an upload that time alone could have removed. The body of a late
post is the client's chunk, which it never changes (`LateBody`).

### TurnCalls

`RelayTurn` has the transcription and the prompt as one step each. Here the
driver is one of four: the stub, the two over HTTP, which have a client timeout
of `SttTimeout`, and the streaming one, which reads messages (`Hear`) until one
says that nothing follows, the connection breaks, or its 10 s are over, which it
looks at only between messages. A transcript is its length. `left` is what
remains of the context's deadline, `SttTimeout + HermesTimeout`; a unit passes in
any call that waits. Transport errors, bad status and undecodable answers are
`Fails`, possible at any moment. `RT` is `RelayTurn` for one registered turn
whose places are those of the calls.

### LossyFeed and MqttSink

Messages are numbered as they are published. `Publish` is `pub`: the message is
queued or dropped, and the turn goes on. The sender takes one message at a time
(`Take`) and `SendEnds` is the return of `cm.Publish`; whether the message
arrived, whether the call succeeded and whether the library keeps the message
are separate. `Script` stands for the publishes of a turn; which of them a turn
really makes is `RelayTurn`'s matter. `failed`, `last` and `got` are history
variables. `Connect` is `mqtt.New`, which chooses the sink for the life of the
process.

States go out with QoS 1, and the client asks for a session that outlives a
connection (mqtt.go:80-81, 119-127). The library is external; as it is used here
it keeps a state until its acknowledgement comes, also when the call of
`Publish` has failed (`session`), and sends all it keeps again, in order, on the
next connection (`LinkBack`, `due`, `KeptArrives`), before anything new arrives.
`Acknowledged` forgets the oldest. A stop loses the session, which is in memory.
So a state may reach the broker twice, or after a newer one's call has failed.
`failed` is cleared when the last state is acknowledged after all.

Under `LossyFeed` the client's `pending` is the message being sent followed by
the queue, and `kept` is the session: a message of the kind `Resent`, here the
states, may come again or late for as long as it is kept; no other is repeated
or arrives after a newer one.

### Ptt

Time is relative: `lag` is how far the next poll is behind its alarm, `since` how
long ago `s_press_us` was set, up to the window. `Poll` is `poll` with
`node_ptt_fold` and the first lines of `on_press`; what `on_press` and
`on_release` do otherwise is `NodeApp`'s, which takes presses and the window as
they come and so covers more than `Ptt` allows. A callback may wait (`held`):
`on_release` for the reader, a cancel for its answer, `node_health` for an update
check. `esp_timer` then runs all overdue polls in a row, because the timer is
made without `skip_unhandled_events`. `pressLag`, `differs`, `span`, `spanLag` and
`steady` are history variables. `ButtonProofs` extends `Ptt` and `NodeApp`, so what
both have is named `PttInit`, `PttNext`, `PttSpec` and so on here.

### RelayConfig

Names and files are kept apart: a save opens the temporary name (which empties
the file), writes to the file it has open, and renames the name
(`SaveOpens`, `SaveWrites`, `SaveRenames`). Two saves share the temporary name.
A shorter text written over a longer one leaves the end of the longer one;
`Readings` is what godotenv can make of such a mixture. `Save` writes the values
as they are filled in, and godotenv gives some signs in unquoted values a
meaning: `$NAME` is replaced, ` #` begins a comment, quotes and the blanks at the
ends go, a quote that is closed on a later line swallows the lines between, and
one that is never closed has the whole file refused, an error that `Load`
ignores. `Special` gives for each text with such a sign what becomes of it,
whatever that is, `Parsed` is every text as the relay reads it. `Config` is
`config.Load` on the values that two `godotenv.Load` calls leave in the
environment (`Value`: the process's own, then `.env`, then `relay/.env`), `Starts`
what `main` needs to get to listening, `EnvPath` the file the setup page edits.
Values are the strings themselves, from small sets; `GoodUrls`, `Positive` and
`FreePorts` say what the libraries make of them. `overlap` (history) marks that
two saves overlapped, `last` what was last acknowledged or edited.

## 3. Runs

| Run | Instance | Shows |
|---|---|---|
| `chunk_store` | 2 devices, 2 uploads, bodies of 1 and 2 units, `MaxCount` 3, `MaxBytes` 4, TTL 1 | everything about the store |
| `relay_turn` | 1 device, a chunked and a direct turn, 1 cancel | everything about turns, with liveness, and that they are a `VoiceTurn` |
| `node_app` | 2 recordings of up to 5 blocks, halves of 2, queue of 1 | device, with overruns, and liveness |
| `update` | 1 version to publish under, 4 images and 2 allowlists (see `MCUpdate`), 2 publishes, 1 fault, one manifest written by hand, every configuration, both readings of the headers | store, poll, download, installation, boot, and that the device comes back |
| `node_boot` | 2 payloads (one with id and long token, one with neither), `MaxRetry` 2, 3 faults | boot, settings, radio and presence, and liveness |
| `turn_calls` | 4 drivers, STT 1, agent 2, stream 1 unit(s) of time, streams of 3 messages with transcripts of 0 to 2 | drivers and deadline, liveness, and that the calls are steps of `RelayTurn` |
| `mqtt_sink` | 2 turns of 1 device, 3 publishes each, a queue of 2, a list of 1, 1 stop, 1 outage | queue, sender and session, liveness, and that they are a `LossyFeed` |
| `uploader` | 2 devices, 2 uploads, 4 clips, `MaxCount` 2, `MaxBytes` 3, `DeviceMax` 2, TTL 1, 2 faults | device and bench program against the store |
| `ptt` | period 1, debounce 4, window 8, lateness 1, held up for 6 | button and timer task, and liveness |
| `relay_config` | 2 savers, 7 forms (3 with a sign of godotenv's: a blank key, a `$` in a password, an open quote), 1 hand-made file, 4 process environments, 3 saves, 2 edits | saves, stops and starts |

Why the bounds are enough. `chunk_store`: two bodies of two units fill the byte
cap exactly and a third exceeds it; three numbers give a hole with something
after it, and both ends are posted to; with TTL 1 an idle upload expires and a
posted one does not. `relay_turn`: all accesses to the
maps are per device, and the interplay is between a turn, a newer one, and a
cancel; that more turns add nothing is what the proofs of section 4 show.
The map of cancels cannot outgrow `MapLimit` with one device; the safety
properties are proved for every number of devices and every limit.
`node_app`: five blocks are both
halves and one more, the smallest overrun; a queue of one is full when one job
waits behind the running one. `MaxSeq` is 2, so a long upload can hit it.

`update`: two publishes under one version are the least that can change a file
between poll and download, and one fault can fall into every window of a
download or a boot; an image too large for a slot is left to the proofs.
Its two allowlists leave the device out and include it in an answer without a
length; a fleet-wide image is offered alike, its poll ends at the headers as
written, and `update_never_arrives` runs it.
`node_boot`: two payloads are needed to overwrite a token
with none; two retries tell a counter that is reset from one that is not; three
faults are a failed write, a lost connection and a restart in one behaviour.

`turn_calls`: three messages are the least in which a final can come after
interims and before another final, and two lengths tell a longer interim from a
shorter; the agent's time is larger than the other two, so what the
transcription takes too much of it shows. `mqtt_sink`: six messages, four of
them states, into a queue of two, with one in the sender's hand, are dropped and
delayed in every pattern; one outage is what it takes for kept states to be sent
again among newer ones, and one may follow on a stop; a list of one is cut at the
second turn. `uploader`: two
faults are the least that cost the device a chunk, and a late post with a
retry that crosses it; the clips are one chunk, the most that the limits allow,
one too long by a byte, and one by two chunks. `relay_config`: two saves
overlap and a third meets what they left; the hand-made file is shorter than
both lengths of the forms, so every write over a rest happens. `ptt`: the
proportions are the code's (50, 200 and 400 ms), and six periods are enough to
make up four samples at once.
The proofs of section 4 have none of these bounds.

`CHECK_DEADLOCK FALSE` is set where the clients are finite: when all requests
are answered, or the user has made all recordings, the system rests.

The other runs are expected to fail; each shows a disagreement between the code
and what a document or comment says of it (section 5).

### What the properties say

- `HandedIsAcked`, `HandedAtMostOnce`, `NoResurrection`: retries and late
  requests never corrupt, duplicate or revive an upload.
- `TotalIsSum`, `AbandonedIsSwept`: memory is accounted for and given back.
- `Isolation`: an action property over all requests of a device.
- `CancelMapSound`: the map, the generations and the places of all goroutines
  agree, so that a cancel finds the turn it is for.
- `EnvelopeOnce`, `SettledNotWorking`: what observers see at the end of a turn,
  whatever overtaken turns still do.
- `VictimNeverPrompted`: an action property relating an acknowledged cancel to
  the agent.
- `IsVoiceTurn`: the refinement: in whatever order goroutines run, prompt, reply,
  envelope and answer of a turn come in the order and with the meaning that
  `VoiceTurn` gives them.
- `SoloUploadExact`, `PartTagHonest`: data integrity across reader, timer and
  worker task. They are claimed for recordings made at rest and not followed by
  another press, because the code does not keep them otherwise
  (`node_foreign_audio`).
- `EveryTurnEnds`, `EveryJobReported`, `UploadingShownEnds`: nobody waits for
  ever.
- `NeverBricked`, `ReadyStays`, `ComesBack`: wherever the power goes, the device
  boots; what came up once is started again; a device with rollback recovers
  from an image that does not come up.
- `OnlyOfferedBoots`: it starts nothing that some manifest did not offer it,
  however publishes, edits and downloads interleave.
- `CacheIsStored`, `GatewayAndTokenMatch`: the copies and halves of settings
  agree, except where the text of the property says.
- `GivesUpLate`, `BootEnds`, `PresenceSettles`: outages neither add up nor keep
  the device from its main screen nor leave a false status behind.
- `StreamPicks`: in whatever order finals, interims and blanks come, and wherever
  the stream breaks, no interim takes the place of a final, and no speech is
  reported as silence. Which of several finals counts is left open, because the
  driver's comment and its code disagree (`LastFinalWins`, section 5).
- `AgentHasItsTime`: two calls share one deadline, and still the first cannot
  take the second's time.
- `CallsEnd`, `TurnStepsOnly`: whatever the services do or leave undone, the
  calls end, and do to the turn only what `RelayTurn` (and so its proofs) allow.
- `RetainedIsLast`: of the relay's own states the last one published is retained,
  or there was a drop, a stop or a failed publish of it to blame; no repeat of an
  older one takes the place of an acknowledged one. An older state may stay
  retained where the newer one's publish failed. What the device retains under
  the same topic (node_mqtt.c:75-84) is not in it.
- `QueueDrains`, `IsLossyFeed`: the queue never stays full; overload, failures and
  stops lose messages and have states repeated, but no prompt, reply or envelope
  is repeated or reordered.
- `TurnIsRecording`: end to end, what becomes a turn is the recording, whatever
  was lost, repeated or late.
- `VerdictDeserved`: a client is told what its requests deserve; one lost post
  does not cost the device its turn, and its own limit is never the one that
  bites.
- `DoublePressNeedsDelay`, `QuickReportNeedsDelay`: what the time limits of the
  button amount to: without a late timer task there is no double press and no
  short count.
- `HeldIsReported`: a button that is left alone is reported as it is.
- `FileIsLastSaved`: no stop, and no rest of a stopped save, damages the file.
- `SavedApplies`: where the file the page edits is the one that counts, the relay
  starts with what godotenv makes of the form, which is what was filled in if no
  value has a sign of godotenv's. The page promises more (`SavedIsApplied`,
  section 5).

The type invariants are proved, the byte cap of `ChunkStore` and the limits of
`MqttSink` with them; that of `NodeApp` is an invariant of its run. What the
recorder keeps has no property of its own beyond the bound on its list.

### Fairness

- Turns and cancels: weak fairness of the steps of each goroutine. The Go
  scheduler runs every goroutine, the mutex is never held over a call, and the
  two outside calls are bounded by the context's deadline. Nothing is assumed of
  clients, nor that calls succeed.
- Store: weak fairness of the clock and of the janitor's ticker.
- `Update`: weak fairness of the timer task's poll and of boot and main task;
  faults are bounded by `MaxFaults`, so they end. Operators owe nothing.
- `NodeBoot`: weak fairness of the main task (its waits are bounded by 10 min
  and 15 s), of the endpoint once it has a payload, of the MQTT client's
  reconnect and of the broker's will. Phone and access point owe nothing, nor
  does the link stay up.
- `TurnCalls`: weak fairness of the turn's goroutine, of time, and of the return
  of a call whose time is up (`http.Client` and the contexts see to that). The
  services owe nothing.
- `MqttSink`: weak fairness of the sender goroutine and of the end of a publish,
  which has a deadline of 2 s. The broker owes nothing.
- `Ptt`: weak fairness of time and of the return of callbacks (each wait has a
  limit), strong fairness of the poll: `esp_timer` takes alarms in the order of
  their times, so the poll comes again and again. The user owes nothing.
- `Uploader` and `RelayConfig` claim no liveness.
- Device: weak fairness of each task. FreeRTOS runs all of them, requests have a
  timeout, and the reader looks at the stop flag at least every 100 ms. The user
  owes nothing.

## 4. Proofs

TLAPS checks the theorems for all values of the constants; assumptions are only
those named in the modules, which TLC evaluates on every run: that limits are
positive numbers, that markers such as `None` are not values, that a request has
a device. `RelayConfigProofs` needs of forms that every field has a text and that
hand-made files miss one (`FormAssumption`); of godotenv it needs nothing.

`UploadProofs`, the store. `TypeOK` and `HandedIsAcked` are not inductive alone.
The invariant adds that ids in use were issued, that the chunks of a live session
are exactly the acknowledged bodies, and that an upload handed on is no longer
live. Then a finish hands on what was acknowledged (`CompletePCM`) and afterwards
nothing can touch `acked`, because an append needs a live session. Theorems:
`TypeCorrect`, `OneTurnPerUpload`, `TranscribedIsAcked`, `GoneStaysGone`,
`OthersUntouched`, which needs only the types, and `TotalIsHeld`. That one speaks
of a sum over a set, which the library computes by recursion. The library's
induction theorems cannot be used here, as they take a predicate; `SetInduction`
and `SubsetInduction` say the same of sets, and follow from its fact that `<` is
well-founded on `Nat`. With them the recursion has a solution (`SumExists`), the
elements may be taken in any order (`SumRemove`), and a chunk stored or
overwritten changes the sum by the difference of the two lengths (`SumReplace`).

`UploadProofs`, the client. `ClientUsesStore` shows every step of the client to be
one of the store or none, so the store's invariant holds while it uploads.
`TurnIsTheRecording` rests on `ClientInv`: the upload belongs to the client, it
holds nothing but chunks of the clip and all of those before the current one
(`UplIsClip`), and nothing is handed over before the finish (`Progress`); the
finish then hands over the clip, or what `-drop-seq` leaves of it
(`CompleteIsSent`). `VerdictIsDeserved` adds `VerdictInv`: an undisturbed client
keeps its upload until it finishes or cancels it, and posts a chunk again only
after something was lost. Chunks of a clip that is within the limits are within
them too (`PartIsNoMore`), so the relay has no reason to refuse one (`Fitting`).
The theorem has the hypothesis `DeviceMax >= MaxCount`: the device's last number
is 120, which is the relay's limit as shipped, but the relay's can be configured;
with a larger one the device would say `too_long` itself.

`ButtonProofs`, the app. `AppInv` gives the types and what the tasks owe each
other: the reader runs only while its button is down, a double press only ever
cancels less than a half. `SoloExact` and `PartHonest` rest on `AloneInv`. While a
recording that started with the worker at rest is made, the halves hold its
blocks in order, and the first block that finds no room is noted (`Clean`,
`PushClean`). From its release on there is a number of halves given back, none,
one or two, that says what was sent, what is being posted and what is left
(`At`); after an overrun only that all this fits in two halves (`Fits`). A second
job for the same recording comes only from a double press, and then the
recording is shorter than a half and there is nothing left to send (`First`,
`Queued`).

`RelayTurnProofs`. The centre is `GenerationsDistinct`: registered turns of a
device have different generations, none above the device's. Hence the newest
turn is unique, `Register` makes all others stale, and the clean-up's test is
right. On top of it `CancelMapSound` is inductive as it stands; `EnvelopeOnce`
needs that what was emitted is what was answered at each place
(`EnvelopeWithAnswer`); `SettledNotWorking` needs to be said for every place
after the state was set back (`NewestSettled`); and `VictimNeverPrompted` needs
that the victim of an acknowledged cancel has an ended context
(`VictimStopped`). The refinement of `VoiceTurn` (`TurnIsVoiceTurn`) needs of
every place what the turn has shown by then and what the verdict it holds has to
say of that (`ToldSoFar`); then each step that can be seen outside is one action
of `VoiceTurn` and the others are none (`StepIsVoiceTurn`). What follows in the
abstract specification from its few actions then holds of the relay: an answer
`ok` and a published reply go together, and an envelope says what the answer
says (`AnswersAgree`). `CallsStartClean` is the other end: a turn gets to its
calls in the state `TurnCalls` begins with. Theorems: `TypeCorrect`,
`CancelFindsNewest`, `OneEnvelopePerTurn`, `WorkingEndsWithTurn`,
`CancelKeepsAgentQuiet`, `TurnIsVoiceTurn`, `AnswersAgree`, `CallsStartClean`.

`UpdateProofs`. A slot is erased only when it is not running and the running one
needs no fallback (`EraseSafe`: `esp_ota_begin` refuses while the image is not
confirmed); what lies in it when the boot partition is set is the image the
manifest named (`PollHolds`); a boot slot that is not confirmed has a confirmed
one beside it (`BootSlot`); and a manifest that makes Node eligible is among
what was offered (`ManifestOffered`). Together with `TypeOK` and `Running` they
are inductive, for both readings of the headers. For the one that is written,
`Untouched` is inductive with `TypeOK` alone: no step gets past `Begin`, so the
second slot stays blank and the first never has to be confirmed. Theorems:
`TypeCorrect`, `AlwaysBootable`, `BootsOnlyOffered`, `ConfirmedStays`,
`NeverInstalls`.

`NodeBootProofs`. A payload is at work only after the settings have been loaded
and before the next restart (`BootHolds`), so every write finds flash and RAM in
agreement; between its two writes the stored URL is the payload's
(`UrlWritten`); retries and disconnects count together (`RetriesCount`). The
invariant is checked group by group of variables, steps that leave a group alone
being one case. Theorems: `TypeCorrect`, `FlashAndRamAgree`,
`GatewayKeepsToken`, `RetriesInARow`, and `StatusIsTrue`, the safety part of
`PresenceSettles`.

`TurnCallsProofs`. Until the agent is asked, what a driver with a client timeout
has spent and what is left add up (`TimeInv`), so the agent's part remains:
`EnoughForTheAgent`. For `StreamPicksRight` the loop's two variables are
related to the whole of what was heard (`PickInv`), and one more message keeps
them so (`HearPick`). `CallsAreTurnSteps` names for every step of the calls the
step of `RelayTurn` it is: `Transcribed` or `NotTranscribed` for each way a
transcription ends (`SttEndIsTurnStep`), `CtxEnds` for time that runs out
(`CtxIsTurnStep`), and the actions around the prompt (`PromptIsTurnStep`). That a
turn gets to its calls in the state assumed there is `CallsStartClean` of
`RelayTurnProofs`, except that `TurnCalls` is about a turn nothing has overtaken
yet; what an overtaken one does, `RelayTurn` has.

`MqttSinkProofs`. `Implements` is the refinement: every step of the client is one
of `LossyFeed` or leaves it alone, because taking a message from the queue into
the sender's hand does not change `Pending`, and the library keeps states only.
A lossy feed delivers what is not resent once and after everything older that
comes before it, because what is under way is numbered above all that arrived or
is kept; through the refinement the client does too (`DeliveredInOrder`).
`RetainedTheLast` needs the numbers of all kept and pending messages to be
increasing and at most `offered` (`Numbered`), that of the kept states the
latest one sent over this connection is the one retained (`LatestRetained`), and
that once the last state is acknowledged none of the device is kept any more
(`NoneKept`): nothing older can come after it.

`RelayConfigProofs`. `WholeFile` needs, whatever overlaps, that no file has two
names (`NoLinks`), and, as long as saves have not overlapped, that at most one
is busy (`Alone`), that it holds the file under the temporary name (`Holds`),
and that each path's file is what was last put there (`InPlace`).
`SavesComeTrue` adds that the form last saved was checked (`Checked`) and that a
relay that runs with no change since its start runs with what godotenv makes of
it (`Applied`), if godotenv has a value for every line (`Whole`); a start finds
that and nothing else (`FoundIsSaved`), and a form that was checked lets the
relay start (`ValidStarts`). `Special` is any function: the theorem holds
whatever godotenv makes of such values.

`ButtonProofs`, the button. Alarms are a period apart, however late the polls are; so the time
since an earlier poll, its lag and the present lag make up all periods between
(`PressSpan`, `SampleSpan`). With `WindowAssumption`, which the code's 200 and
400 ms meet exactly, `DoublePressIsLate` follows, and `QuickReportIsLate`
likewise.

Each of these modules also has a `TypeCorrect`.

Only model-checked: the liveness properties, which are out of the prover's reach
together with everything that has ENABLED. Of `PresenceSettles` the safety part
is proved (`StatusIsTrue`). Every safety property the runs check is also a
theorem.

## 5. Disagreements found

| Run | The code | The text |
|---|---|---|
| `node_foreign_audio` | a press resets the halves under a running upload | node_audio.c:16 "Exactly one writer per half at any time" |
| `update_never_arrives` | the length that `fetch_headers` returns is compared with `ESP_OK`, so the answer that offers an image ends the poll, on every tick (node_ota.c:229-234); a download would end the same way (64-69) | device-workflows.md W8 "OTA update (closed loop)" |

Seven more are stated as properties that no run lists. Adding one to the cfg
named makes TLC show the counterexample:

| Property, cfg | The code | The text |
|---|---|---|
| `EveryTurnEmits`, `MCRelayTurn.cfg` | a turn overtaken after its first test answers 409 without an envelope (chunks.go:278-307) | architecture.md:56 "Every failure emits a turn with its verdict" |
| `CancelledReplyDropped`, `MCRelayTurn.cfg` | the last test (chunks.go:304) and the publish (319) can be separated by a cancel | hermes.go:142 "Callers already drop stale results locally via the generation guard" |
| `CancelQueuesNothing`, `MCNodeOwnAudio.cfg` | the release of a double press queues the old recording again (app_main.c:205) | device-workflows.md W3 "drain queue -> ready, no message" |
| `ProvisioningReboots`, `MCNodeBoot.cfg` | the loop and the restart ask for `wifi_ssid` in NVS, which nothing in the firmware writes (node_provision.c:175, 186; node_config.c:97), so a payload that was applied in full ends provisioning by its timeout | device-workflows.md:122 "Reboots into normal boot on success" |
| `PressReportedInTime`, `MCPtt.cfg` | the update check of `node_health.c` waits up to 15 s for the relay in the task that polls the button (with `CONFIG_NODE_AUTO_UPDATE`) | node_health.c:51 "Voice path unaffected by check failures" |
| `LastFinalWins`, `MCTurnCalls.cfg` | the streaming driver keeps the first final with text and ignores every later one (deepgram_stream.go:104) | deepgram_stream.go:23 "last message with is_final=true wins" |
| `SavedIsApplied`, `MCRelayConfig.cfg` | values are written without quotes (setup/store.go:61-62) and read by godotenv: a `$NAME` in a password is replaced, an open quote loses the whole file | setup/handler.go:50 "saved - restart relay to apply" |

Seen on the way, and not given a run:

- Two overlapping saves of the setup page can install an empty file or a mixture
  of both texts, or report an error although the file is in place
  (setup/store.go:65-68 against store.go:9 "reads/writes the .env file
  atomically"). `FileIsLastSaved` without `~overlap` shows it.
- Save accepts settings the relay does not start with: a whisper URL of `/`, a
  Deepgram key of blanks, a port that cannot be listened on, any value with an
  open quote. `log.Fatalf` then
  takes the setup page down with the relay (`Unbootable`).
- `.env` is read before `relay/.env` (config.go:63-64), while the page edits
  `relay/.env` when there is one (main.go:94-104); a key in the former is never
  overridden by a save. `RELAY_ENV` (the comment at main.go:92 calls it
  REPLAY_ENV) decides what is edited and not what is loaded. In both cases "saved
  - restart relay to apply" (handler.go:50) does not come true, and
  architecture.md:41 "`relay/.env` is the one and only store" does not hold.
  `SavedApplies` says so in `Governs`.
- No `STT_TIMEOUT_S` bounds the streaming driver, so it can use up the agent's
  time (`AgentHasItsTime` excepts it).
- A state whose acknowledgement was lost is sent again after a reconnect
  (mqtt.go:80-81, 121), and shows at a subscriber as a change back to an older
  state. If the newer state's publish failed meanwhile, the older one stays
  retained.
- Behind the reading of the headers there is a second reason why no update
  arrives: the download carries neither an X-Device-ID header nor a token
  (node_ota.c:55-59, 268-272), and Publish writes a url without a device_id, so
  `handleFirmwareBinary` answers 401 (server.go:273-283, 151-155). With
  `Checks = {"meant"}` in `MCUpdateArrives.cfg` the run shows that text streamed
  into the slot and refused for its hash, on every tick.
- The envelope is published with QoS 0 (mqtt.go:119-122, 163 against mqtt.go:23
  "QoS 1 retained=false").
- A relay that does not reach its broker within 5 s of its start logs instead of
  publishing for as long as it runs (mqtt.go:100).
- The device never says `too_long` (`VerdictDeserved`): the relay refuses number
  120 first, and the device calls that `upload_gap` (against device-workflows.md
  W4g "Over 120 chunks (~2 min) to `too_long`").
- A double press exists only by accident. Two reported presses are 400 ms apart
  at least, and the window (app_main.c:118) is less than 400 ms: the first of the
  two must have been reported later than its poll was due
  (`DoublePressNeedsDelay`; against device-workflows.md W3 "press <400 ms after
  last"). The host test calls `on_press` directly, past the debounce.
- After a callback that waited, the overdue polls sample the contact at one
  instant, so the 200 ms of device-workflows.md:34 do not filter a bounce then.
- `virt -drop-seq` of the last chunk does not give the `upload_gap` of its help
  text (virt/main.go:211): the relay cannot see a hole at the end, and a shorter
  turn results. `TurnIsRecording` says so in `Sent`.
- After an overrun the drain index points at the newest half, so the halves go
  out newest first (node_audio.c:112 against node_audio.h:40 "take oldest FULL
  half"). Nothing drains during a recording, so more than both halves always
  overruns, whatever the network does.
- A tap with a page in memory leaves LED and retained state at recording
  (app_main.c:213, 217 against device-workflows.md W4c "back to ready, silent").
- After a cancel the relay publishes no state: `working` stays retained until
  the next turn.
- `version_newer` is inequality: were images installed, a rejected one would be
  installed again at the next tick, and one that does not say of itself what was
  typed on every tick.
- `CONFIG_BOOTLOADER_APP_ROLLBACK_ENABLE`, on which architecture.md:68
  "Rollback (built)" rests, is set in no sdkconfig of the repository; `Update`
  has both cases.
- A device token of 128 to 159 characters is stored, cut in RAM, and not read
  back after a restart (node_provision.c:26, node_config.c:27, 42).
- The wait for the provisioning service (node_provision.c:184) has no limit when
  the loop ended because the settings were found: `BootEnds` says so.
- `CfgArrives` and the timeout are not coordinated: a request can still be
  writing when the main task goes on. No checked property minds.

## 6. Not modelled, and why

Formatting, pages and pixels; the admin pages, which render and probe and keep
nothing; the contract generator and the development scripts; authentication as a
computation (a request is authorised or refused) and the parsing of
`DEVICE_TOKENS`; log levels; what the transcription and agent services do; what
godotenv computes of a value, beyond the cases an instance gives; Go's and
FreeRTOS's schedulers. `drop(id)` in `chunks.go` has no caller. The sim and test variants
of the firmware are not the firmware. Temporary files that a crash of the relay
leaves behind, and the truncation of an image beyond 4 MB, are not modelled.
`nvs_commit` is taken to succeed when `nvs_set_str` did. Atomicity of the single
ring operations is assumed, though the two cores of an ESP32 could interleave
them too.

## 7. Plan

In order of weight:

1. `System`: `NodeApp`'s worker and cancel against `RelayTurn`: the cancel that
   comes before the turn registers, the state after a cancel, the device that
   gives up at 15 s while the turn goes on.
2. A bounded queue as an abstract specification (implemented by `NodeAudio`
   without overrun).

Done: `ChunkStore`, `RelayTurn` (implementing `VoiceTurn`), `NodeAudio`, `NodeApp`, `Update` (firmware
store and update), `NodeBoot` (settings, provisioning, WiFi, presence),
`Uploader` (the device's client with `ChunkStore`), `TurnCalls` (the calls under
`RelayTurn`), `MqttSink` (queue, session and recorder, implementing `LossyFeed`),
`RelayConfig` (setup store and configuration), `Ptt` (the button), and the
proofs of every safety property.
