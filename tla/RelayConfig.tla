---------------------------- MODULE RelayConfig -----------------------------
(***************************************************************************)
(* The relay's configuration: the .env files, the setup page that edits     *)
(* one of them (relay/internal/setup), what the relay makes of them when it *)
(* starts (relay/internal/config) and which of them the page edits          *)
(* (envPath of relay/cmd/hermes-voice/main.go).                             *)
(*                                                                         *)
(* A save is three steps of the file system, and every request runs in a    *)
(* goroutine of its own: two saves can overlap, and they share the name of  *)
(* the temporary file.  Names and files are kept apart, as the file system  *)
(* does: a rename moves a name, and a writer that has a file open goes on   *)
(* writing to it under its new name.  The relay may stop at any step.       *)
(***************************************************************************)
EXTENDS Integers, Sequences, FiniteSets

CONSTANTS
    Savers,     \* the requests to save that can be in progress
    Forms,      \* what the operator can fill in: functions from Keys to values
    HandMade,   \* files written with an editor: a key can be missing
    ProcEnvs,   \* the environments the relay can be started in
    Special,    \* the texts with a sign of godotenv's own in a value (a $, a #, a
                \* quote, a blank at an end), each with what it makes of them
    Size,       \* the length of the text of a form or of a hand-made file
    GoodUrls,   \* the values url.ParseRequestURI accepts
    Positive,   \* the values strconv.Atoi reads as a number above 0
    FreePorts,  \* the values of PORT that can be listened on
    MaxSaves,   \* bound: saves begun
    MaxEdits,   \* bound: files written with an editor
    Missing     \* stands for a key that is not there

\* The lines of the file, in order; the fields without a role of their own
\* here (API key, locale, model, tokens) are left out.
Fields == <<"HERMES_BASE_URL", "HERMES_TIMEOUT_S", "STT_PROVIDER", "STT_TIMEOUT_S",
            "STT_DEEPGRAM_API_KEY", "STT_WHISPER_URL", "PORT", "MQTT_BROKER_URL",
            "CHUNK_MAX_COUNT", "CHUNK_TTL_S">>
Keys == {Fields[i] : i \in DOMAIN Fields}

\* The two files config.Load reads, relative to the working directory, in the
\* order in which it reads them, and one that only RELAY_ENV can name.
LoadOrder == <<".env", "relay/.env">>
Paths == {".env", "relay/.env", "elsewhere"}

\* A name is a path, or a path with .tmp put behind it.
Names == Paths \X {"path", "tmp"}
Env(p) == <<p, "path">>

SlipNoTmp(p) == Env(p)

\* The name a save writes to before it renames.
Tmp(p) == <<p, "tmp">>

NoFile == 0
Files == 1 .. MaxSaves + MaxEdits

ASSUME EnvAssumption == \A e \in ProcEnvs : e.relayEnv \in Paths \cup {"unset"}
\* A form has a text for every field; a file made by hand misses some, and so
\* is told from a saved one.
ASSUME FormAssumption ==
    /\ \A f \in Forms : f = [k \in Keys |-> f[k]] /\ \A k \in Keys : f[k] # Missing
    /\ Forms \cap HandMade = {}
ASSUME SpecialAssumption == DOMAIN Special \subseteq Forms \cup HandMade
ASSUME BoundAssumption == MaxSaves \in Nat /\ MaxEdits \in Nat

VARIABLES
    procEnv,    \* [keys, relayEnv]: the process environment, the same at every start
    hasDir,     \* the working directory has a directory relay in it
    names,      \* what each name refers to
    data,       \* the text of each file: <<>>, <<t>>, or <<t, u>> when the end
                \* of a longer u sticks out behind t
    up, running, \* the relay is up, with this configuration
    ui,         \* the path its setup page edits
    save,       \* each request to save: where it is, its form, the file it has open
    last,       \* history: the text last saved or hand-made under each path
    fresh,      \* history: no file changed since the relay started
    overlap,    \* history: two saves overlapped
    saves, edits \* the bounds' counters

vars == <<procEnv, hasDir, names, data, up, running, ui, save, last, fresh,
          overlap, saves, edits>>

NoText == [k \in Keys |-> Missing]
Exists(n) == names[n] # NoFile
Idle == [at |-> "idle"]
Busy == {s \in Savers : save[s].at # "idle"}

\* The files nothing refers to, and the one that is created next.  Files is large
\* enough for every save and every edit to create one.
Free == {f \in Files : /\ \A n \in Names : names[n] # f
                       /\ \A s \in Busy : save[s].file # f
                       /\ data[f] = <<>>}
Unused == CHOOSE f \in Free : TRUE

-----------------------------------------------------------------------------
\* What godotenv makes of a text.  Save writes the values as they are, and a sign
\* that means something to godotenv does so here: $ and a name stand for a key,
\* " #" begins a comment, quotes and the blanks at the ends go, a quote closed on
\* a later line swallows the lines between, and one that is not closed has the
\* whole file refused, an error that Load ignores.
Parsed(t) == [k \in Keys |-> IF t \in DOMAIN Special THEN Special[t][k] ELSE t[k]]

\* What it can make of a file.  Of a mixture it makes nothing at all if the line
\* where the two texts meet cannot be parsed; otherwise the keys behind that line
\* have the values of the longer text, the last line for a key counting.
Mixture(t, u, i) ==
    [k \in Keys |-> IF k \in {Fields[j] : j \in i .. Len(Fields)} THEN u[k] ELSE t[k]]
Readings(text) ==
    IF text = <<>> THEN {NoText}
    ELSE IF Len(text) = 1 THEN {Parsed(text[1])}
    ELSE {NoText} \cup
         {Mixture(Parsed(text[1]), Parsed(text[2]), i) : i \in 1 .. Len(Fields) + 1}
ReadingsOf(p) == IF Exists(Env(p)) THEN Readings(data[names[Env(p)]]) ELSE {NoText}

\* The value of k after both files are loaded: the process environment comes
\* first, then .env, then relay/.env.  A key that is there counts, blank or not.
SlipRelayFirst(k, own, first, second) ==
    IF own[k] # Missing THEN own[k]
    ELSE IF second[k] # Missing THEN second[k]
    ELSE IF first[k] # Missing THEN first[k] ELSE ""
Value(k, own, first, second) ==
    IF own[k] # Missing THEN own[k]
    ELSE IF first[k] # Missing THEN first[k]
    ELSE IF second[k] # Missing THEN second[k] ELSE ""
Resolved(own, first, second) == [k \in Keys |-> Value(k, own, first, second)]

\* strings.TrimSuffix(v, "/"), for the one value of which nothing is left.
NoSlash(v) == IF v = "/" THEN "" ELSE v

\* getenv(k, def), and the numbers that must be above 0.
Or(v, def) == IF v = "" THEN def ELSE v
Number(v, def) == IF v \in Positive THEN v ELSE def

Providers == {"deepgram", "deepgram-stream", "whisper", "stub"}
Deepgrams == {"deepgram", "deepgram-stream"}

\* The Config that Load makes of the values v.
Config(v) ==
    LET provider == Or(v["STT_PROVIDER"], "stub") IN
    [k \in Keys |->
        CASE k = "HERMES_BASE_URL" -> NoSlash(v[k])
          [] k = "HERMES_TIMEOUT_S" -> Number(v[k], "300")
          [] k = "STT_PROVIDER" -> provider
          [] k = "STT_TIMEOUT_S" -> Number(v[k], "15")
          [] k = "STT_DEEPGRAM_API_KEY" -> IF provider \in Deepgrams THEN v[k] ELSE ""
          [] k = "STT_WHISPER_URL" -> IF provider = "whisper" THEN NoSlash(v[k]) ELSE ""
          [] k = "PORT" -> Or(v[k], "8081")
          [] k = "MQTT_BROKER_URL" -> v[k]
          [] k = "CHUNK_MAX_COUNT" -> Number(v[k], "120")
          [] k = "CHUNK_TTL_S" -> Number(v[k], "300")]

\* Load and stt.New return no error, and the relay can listen on its port.
Starts(v) ==
    LET c == Config(v) IN
    /\ c["HERMES_BASE_URL"] \in GoodUrls
    /\ c["STT_PROVIDER"] \in Providers
    /\ c["STT_PROVIDER"] \in Deepgrams => c["STT_DEEPGRAM_API_KEY"] # ""
    /\ c["STT_PROVIDER"] = "whisper" => c["STT_WHISPER_URL"] # ""
    /\ c["PORT"] \in FreePorts

\* The path of the file the setup page edits.
EnvPath ==
    IF procEnv.relayEnv # "unset" THEN procEnv.relayEnv
    ELSE IF Exists(Env("relay/.env")) THEN "relay/.env"
    ELSE IF Exists(Env(".env")) THEN ".env" ELSE "relay/.env"

-----------------------------------------------------------------------------
\* Before anything is configured; the operator makes the first file by hand.
Init ==
    /\ procEnv \in ProcEnvs
    /\ hasDir \in BOOLEAN
    /\ names = [n \in Names |-> NoFile]
    /\ data = [f \in Files |-> <<>>]
    /\ last = [p \in Paths |-> <<>>]
    /\ up = FALSE /\ running = NoText /\ ui = "relay/.env"
    /\ save = [s \in Savers |-> Idle]
    /\ fresh = FALSE /\ overlap = FALSE /\ saves = 0 /\ edits = 0

\* What config.Load can find in the environment once both files are loaded.
Environments ==
    {Resolved(procEnv.keys, first, second) :
        first \in ReadingsOf(LoadOrder[1]), second \in ReadingsOf(LoadOrder[2])}

\* main: load, build, listen; any error is log.Fatalf.
Boot ==
    /\ ~up
    /\ \E v \in Environments : Starts(v) /\ running' = Config(v)
    /\ up' = TRUE /\ ui' = EnvPath /\ fresh' = TRUE
    /\ UNCHANGED <<procEnv, hasDir, names, data, save, last, overlap, saves, edits>>

\* The relay stops, by a signal or a crash: shutting down waits for the device
\* requests, not for those of the setup page.
Stop ==
    /\ up
    /\ up' = FALSE /\ running' = NoText /\ save' = [s \in Savers |-> Idle] /\ fresh' = FALSE
    /\ UNCHANGED <<procEnv, hasDir, names, data, ui, last, overlap, saves, edits>>

\* The operator writes a file with an editor, which puts a new file in place.
HandEdit(p, t) ==
    /\ edits < MaxEdits /\ Free # {}
    /\ p = "relay/.env" => hasDir
    /\ names' = [names EXCEPT ![Env(p)] = Unused]
    /\ data' = [data EXCEPT ![Unused] = <<t>>]
    /\ last' = [last EXCEPT ![p] = <<t>>]
    /\ fresh' = FALSE /\ edits' = edits + 1
    /\ UNCHANGED <<procEnv, hasDir, up, running, ui, save, overlap, saves>>

-----------------------------------------------------------------------------
\* What Save checks before it touches a file.
Valid(f) ==
    /\ NoSlash(f["HERMES_BASE_URL"]) \in GoodUrls
    /\ f["STT_PROVIDER"] \in Providers \cup {""}
    /\ f["STT_PROVIDER"] \in Deepgrams => f["STT_DEEPGRAM_API_KEY"] # ""
    /\ f["STT_PROVIDER"] = "whisper" => f["STT_WHISPER_URL"] # ""

\* The directory of the file is there.
CanCreate == ui = "relay/.env" => hasDir

\* POST /setup/save: os.WriteFile opens the temporary file, which empties it.
SaveOpens(s, f) ==
    /\ up /\ s \notin Busy /\ saves < MaxSaves
    /\ Valid(f) /\ CanCreate /\ Free # {}
    /\ LET i == IF Exists(Tmp(ui)) THEN names[Tmp(ui)] ELSE Unused IN
        /\ names' = [names EXCEPT ![Tmp(ui)] = i]
        /\ data' = [data EXCEPT ![i] = <<>>]
        /\ save' = [save EXCEPT ![s] = [at |-> "open", form |-> f, file |-> i]]
    /\ overlap' = (overlap \/ Busy # {}) /\ saves' = saves + 1
    /\ UNCHANGED <<procEnv, hasDir, up, running, ui, last, fresh, edits>>

\* The text t written from the start of a file over what is there.
Over(text, t) ==
    IF text = <<>> \/ Size[t] >= Size[text[Len(text)]] THEN <<t>> ELSE <<t, text[Len(text)]>>

SaveWrites(s) ==
    /\ save[s].at = "open"
    /\ data' = [data EXCEPT ![save[s].file] = Over(@, save[s].form)]
    /\ save' = [save EXCEPT ![s].at = "written"]
    /\ UNCHANGED <<procEnv, hasDir, names, up, running, ui, last, fresh, overlap, saves, edits>>

\* os.Rename, and "saved - restart relay to apply".
SaveRenames(s) ==
    /\ save[s].at = "written" /\ Exists(Tmp(ui))
    /\ names' = [n \in Names |-> IF n = Env(ui) THEN names[Tmp(ui)]
                                 ELSE IF n = Tmp(ui) THEN NoFile ELSE names[n]]
    /\ last' = [last EXCEPT ![ui] = <<save[s].form>>]
    /\ save' = [save EXCEPT ![s] = Idle]
    /\ fresh' = FALSE
    /\ UNCHANGED <<procEnv, hasDir, data, up, running, ui, overlap, saves, edits>>

\* The other save has taken the temporary file away: an error is shown.
SaveFails(s) ==
    /\ save[s].at = "written" /\ ~Exists(Tmp(ui))
    /\ save' = [save EXCEPT ![s] = Idle]
    /\ UNCHANGED <<procEnv, hasDir, names, data, up, running, ui, last, fresh,
                   overlap, saves, edits>>

Next ==
    \/ Boot \/ Stop
    \/ \E p \in Paths, t \in HandMade : HandEdit(p, t)
    \/ \E s \in Savers : \/ \E f \in Forms : SaveOpens(s, f)
                         \/ SaveWrites(s) \/ SaveRenames(s) \/ SaveFails(s)

Spec == Init /\ [][Next]_vars

-----------------------------------------------------------------------------
\* The type of the state.
Text == Seq(Forms \cup HandMade)
Saving == [at : {"open", "written"}, form : Forms, file : Files]

TypeOK ==
    /\ procEnv \in ProcEnvs /\ hasDir \in BOOLEAN
    /\ names \in [Names -> Files \cup {NoFile}]
    /\ data \in [Files -> Text] /\ last \in [Paths -> Text]
    /\ up \in BOOLEAN /\ ui \in Paths
    /\ save \in [Savers -> Saving \cup {Idle}]
    /\ fresh \in BOOLEAN /\ overlap \in BOOLEAN
    /\ saves \in 0 .. MaxSaves /\ edits \in 0 .. MaxEdits

\* "A crashed write cannot halve the config": wherever a save is interrupted,
\* and whatever an interrupted one left behind, the file in place is the whole
\* text that was last acknowledged or hand-made, unless two saves overlapped.
FileIsLastSaved ==
    ~overlap => \A p \in Paths :
        last[p] = IF Exists(Env(p)) THEN data[names[Env(p)]] ELSE <<>>

\* Nothing but the file the setup page edits has a say: no key is set in the
\* process environment, and no file that is read before it is there.
Governs ==
    /\ procEnv.keys = NoText
    /\ ui = ".env" \/ (ui = "relay/.env" /\ ~Exists(Env(".env")))

\* godotenv gives a value for every line of the form.
Whole(f) == \A k \in Keys : Parsed(f)[k] # Missing

\* The forms that are accepted and that the relay does not start with.
Unbootable(f) ==
    \/ f \in DOMAIN Special /\ ~(Whole(f) /\ Starts(Parsed(f)))
    \/ f["STT_PROVIDER"] = "whisper" /\ f["STT_WHISPER_URL"] = "/"
    \/ Or(f["PORT"], "8081") \notin FreePorts

\* "Saved - restart relay to apply": when the file the page edits is the one
\* that counts, a relay started after a save runs with what godotenv makes of the
\* form, which is what was filled in where no value has a sign of godotenv's; and
\* it does start, but for the forms Save should have refused.
SavedApplies ==
    LET f == last[ui][1] IN
    Governs /\ ~overlap /\ last[ui] # <<>> /\ f \in Forms =>
        /\ up /\ fresh /\ Whole(f) => running = Config(Parsed(f))
        /\ up /\ fresh /\ f \notin DOMAIN Special => running = Config(f)
        /\ ~up /\ ~Unbootable(f) => \A v \in Environments : Starts(v)

\* The same of the page's message alone: whatever the operator fills in, the
\* restarted relay runs with it.  Save does not quote what it writes, so a $ in
\* the password of a broker URL is enough to break it.
SavedIsApplied ==
    LET f == last[ui][1] IN
    Governs /\ ~overlap /\ last[ui] # <<>> /\ f \in Forms /\ up /\ fresh =>
        running = Config(f)
=============================================================================
