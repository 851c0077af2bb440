-------------------------- MODULE RelayConfigProofs --------------------------
(***************************************************************************)
(* What holds of RelayConfig for any number of requests, forms, hand-made   *)
(* files, saves and edits.                                                 *)
(***************************************************************************)
EXTENDS RelayConfig, TLAPS

USE BoundAssumption DEF BoundAssumption

-----------------------------------------------------------------------------
(* Facts about names and files.                                            *)

LEMMA FileFacts == NoFile \notin Files /\ Files \subseteq Nat
BY DEF NoFile, Files

LEMMA NameFacts ==
  /\ \A p \in Paths : Env(p) \in Names /\ Tmp(p) \in Names
  /\ \A p, q \in Paths : Env(p) # Tmp(q) /\ (Env(p) = Env(q) => p = q) /\ (Tmp(p) = Tmp(q) => p = q)
BY DEF Env, Tmp, Names

\* The file a save takes is a free one, if there is any.
LEMMA UnusedIsFree == ASSUME Free # {} PROVE Unused \in Free
BY DEF Unused

\* A free file is empty, has no name and belongs to no save in progress.
LEMMA FreeFacts ==
  ASSUME NEW f \in Free
  PROVE  /\ f \in Files /\ data[f] = <<>>
         /\ \A n \in Names : names[n] # f
         /\ \A s \in Busy : save[s].file # f
BY DEF Free

-----------------------------------------------------------------------------
(* The type of the state.                                                  *)

LEMMA InitType == Init => TypeOK
<1> SUFFICES ASSUME Init PROVE TypeOK
  OBVIOUS
<1>1. names \in [Names -> Files \cup {NoFile}] /\ data \in [Files -> Text]
      /\ last \in [Paths -> Text]
  BY DEF Init, Text
<1>2. ui \in Paths
  BY DEF Init, Paths
<1>3. save \in [Savers -> Saving \cup {Idle}]
  BY DEF Init
<1>4. procEnv \in ProcEnvs /\ hasDir \in BOOLEAN /\ up \in BOOLEAN
  BY Zenon DEF Init
<1>5. fresh \in BOOLEAN /\ overlap \in BOOLEAN
  BY Zenon DEF Init
<1>6. saves \in 0 .. MaxSaves /\ edits \in 0 .. MaxEdits
  <2>1. saves = 0 /\ edits = 0
    BY DEF Init
  <2>2. QED  BY <2>1
<1>7. QED  BY <1>1, <1>2, <1>3, <1>4, <1>5, <1>6 DEF TypeOK

LEMMA OverType ==
  ASSUME NEW text \in Text, NEW t \in Forms
  PROVE  Over(text, t) \in Text /\ (text = <<>> => Over(text, t) = <<t>>)
<1>1. CASE text = <<>>
  <2>1. <<t>> \in Text
    BY DEF Text
  <2>2. Over(text, t) = <<t>>
    BY <1>1 DEF Over
  <2>3. QED  BY <2>1, <2>2
<1>2. CASE text # <<>>
  <2>1. text[Len(text)] \in Forms \cup HandMade
    BY <1>2 DEF Text
  <2>2. <<t>> \in Text /\ <<t, text[Len(text)]>> \in Text
    BY <2>1 DEF Text
  <2>3. Over(text, t) \in {<<t>>, <<t, text[Len(text)]>>}
    BY DEF Over
  <2>4. QED  BY <1>2, <2>2, <2>3
<1>3. QED  BY <1>1, <1>2

LEMMA NextType == TypeOK /\ [Next]_vars => TypeOK'
<1> SUFFICES ASSUME TypeOK, [Next]_vars PROVE TypeOK'
  OBVIOUS
<1> USE DEF TypeOK
<1>1. CASE Boot
  <2>1. EnvPath \in Paths
    BY EnvAssumption DEF EnvAssumption, EnvPath, Paths
  <2>2. QED  BY <1>1, <2>1 DEF Boot
<1>2. CASE Stop  BY <1>2 DEF Stop
<1>3. ASSUME NEW p \in Paths, NEW t \in HandMade, HandEdit(p, t) PROVE TypeOK'
  <2>1. Unused \in Files
    BY <1>3, UnusedIsFree, FreeFacts DEF HandEdit
  <2>2. <<t>> \in Text
    BY DEF Text
  <2>3. names' \in [Names -> Files \cup {NoFile}]
    BY <1>3, <2>1 DEF HandEdit
  <2>4. data' \in [Files -> Text] /\ last' \in [Paths -> Text]
    BY <1>3, <2>2 DEF HandEdit
  <2>5. edits' \in 0 .. MaxEdits
    BY <1>3 DEF HandEdit
  <2>6. QED  BY <1>3, <2>3, <2>4, <2>5 DEF HandEdit
<1>4. ASSUME NEW s \in Savers, NEW f \in Forms, SaveOpens(s, f) PROVE TypeOK'
  <2> DEFINE i == IF Exists(Tmp(ui)) THEN names[Tmp(ui)] ELSE Unused
  <2>1. i \in Files
    BY <1>4, UnusedIsFree, FreeFacts, NameFacts DEF SaveOpens, Exists
  <2>2. /\ names' = [names EXCEPT ![Tmp(ui)] = i]
        /\ data' = [data EXCEPT ![i] = <<>>]
        /\ save' = [save EXCEPT ![s] = [at |-> "open", form |-> f, file |-> i]]
    BY <1>4 DEF SaveOpens
  <2> HIDE DEF i
  <2>3. names' \in [Names -> Files \cup {NoFile}]
    BY <2>1, <2>2
  <2>4. data' \in [Files -> Text]
    <3>1. <<>> \in Text
      BY DEF Text
    <3>2. QED  BY <2>2, <3>1
  <2>5. save' \in [Savers -> Saving \cup {Idle}]
    BY <2>1, <2>2 DEF Saving
  <2>6. saves' \in 0 .. MaxSaves /\ overlap' \in BOOLEAN
    BY <1>4 DEF SaveOpens
  <2>7. QED  BY <1>4, <2>3, <2>4, <2>5, <2>6 DEF SaveOpens
<1>5. ASSUME NEW s \in Savers, SaveWrites(s) PROVE TypeOK'
  <2>1. save[s] \in Saving
    BY <1>5 DEF SaveWrites, Idle
  <2>2. save[s].form \in Forms /\ save[s].file \in Files
    BY <2>1 DEF Saving
  <2>3. data' \in [Files -> Text]
    BY <1>5, <2>2, OverType DEF SaveWrites
  <2>4. save' \in [Savers -> Saving \cup {Idle}]
    <3>1. [save[s] EXCEPT !.at = "written"] \in Saving
      BY <2>1 DEF Saving
    <3>2. QED  BY <1>5, <3>1 DEF SaveWrites
  <2>5. QED  BY <1>5, <2>3, <2>4 DEF SaveWrites
<1>6. ASSUME NEW s \in Savers, SaveRenames(s) PROVE TypeOK'
  <2>1. save[s] \in Saving
    BY <1>6 DEF SaveRenames, Idle
  <2>2. <<save[s].form>> \in Text
    BY <2>1 DEF Saving, Text
  <2>3. last' \in [Paths -> Text]
    BY <1>6, <2>2 DEF SaveRenames
  <2>4. names' \in [Names -> Files \cup {NoFile}]
    BY <1>6, NameFacts DEF SaveRenames
  <2>5. QED  BY <1>6, <2>3, <2>4 DEF SaveRenames
<1>7. ASSUME NEW s \in Savers, SaveFails(s) PROVE TypeOK'
  BY <1>7 DEF SaveFails
<1>8. CASE UNCHANGED vars  BY <1>8 DEF vars
<1>9. QED
  BY <1>1, <1>2, <1>3, <1>4, <1>5, <1>6, <1>7, <1>8 DEF Next

\* Whatever is saved, edited and interrupted, the state is well typed: no save
\* has a file open that does not exist, and the page edits one of the paths.
THEOREM TypeCorrect == Spec => []TypeOK
<1>1. QED  BY InitType, NextType, PTL DEF Spec

-----------------------------------------------------------------------------
(* Unless two saves overlapped: one save at most is in progress, it holds   *)
(* the file the temporary name stands for, and that file is as far as the   *)
(* save is.  Never do two names stand for one file.                        *)

Alone == \A s, r \in Busy : s = r
Holds(s) == /\ up
            /\ names[Tmp(ui)] = save[s].file
            /\ data[save[s].file] = IF save[s].at = "open" THEN <<>> ELSE <<save[s].form>>
NoLinks == \A n, m \in Names : names[n] = names[m] /\ names[n] # NoFile => n = m

InPlace(p) == last[p] = IF Exists(Env(p)) THEN data[names[Env(p)]] ELSE <<>>

Inv == /\ NoLinks
       /\ ~overlap => /\ Alone
                      /\ \A s \in Busy : Holds(s)
                      /\ \A p \in Paths : InPlace(p)

LEMMA InitInv == Init => Inv
BY NameFacts DEF Init, Inv, NoLinks, Alone, Holds, InPlace, Busy, Idle, Exists

\* A saver that is busy is a saver and has a record of its save.
LEMMA BusyType == ASSUME TypeOK, NEW s \in Busy PROVE s \in Savers /\ save[s] \in Saving
                        /\ save[s].at \in {"open", "written"} /\ save[s].form \in Forms /\ save[s].file \in Files
<1>1. save[s] \in Saving /\ s \in Savers
  BY DEF TypeOK, Busy, Idle
<1>2. QED  BY <1>1 DEF Saving

LEMMA NextInv == TypeOK /\ Inv /\ [Next]_vars => Inv'
<1> SUFFICES ASSUME TypeOK, Inv, [Next]_vars PROVE Inv'
  OBVIOUS
<1>1. CASE Boot
  <2>1. ~overlap => Busy = {}
    BY <1>1 DEF Boot, Inv, Holds
  <2>2. NoLinks'
    BY <1>1 DEF Boot, Inv, NoLinks
  <2>3. (~overlap)' => Busy' = {}
    BY <1>1, <2>1 DEF Boot, Busy
  <2>4. (~overlap)' => \A p \in Paths : InPlace(p)'
    BY <1>1 DEF Boot, Inv, InPlace, Exists
  <2>5. QED  BY <2>2, <2>3, <2>4 DEF Inv, Alone
<1>2. CASE Stop
  <2>1. NoLinks'
    BY <1>2 DEF Stop, Inv, NoLinks
  <2>2. Busy' = {}
    BY <1>2 DEF Stop, Busy, Idle
  <2>3. (~overlap)' => \A p \in Paths : InPlace(p)'
    BY <1>2 DEF Stop, Inv, InPlace, Exists
  <2>4. QED  BY <2>1, <2>2, <2>3 DEF Inv, Alone
<1>3. ASSUME NEW p \in Paths, NEW t \in HandMade, HandEdit(p, t) PROVE Inv'
  <2>1. /\ Unused \in Files /\ \A n \in Names : names[n] # Unused
        /\ \A s \in Busy : save[s].file # Unused
    BY <1>3, UnusedIsFree, FreeFacts DEF HandEdit
  <2>2. /\ names' = [names EXCEPT ![Env(p)] = Unused]
        /\ data' = [data EXCEPT ![Unused] = <<t>>]
        /\ last' = [last EXCEPT ![p] = <<t>>]
        /\ overlap' = overlap /\ up' = up /\ ui' = ui /\ save' = save
    BY <1>3 DEF HandEdit
  <2>3. names \in [Names -> Files \cup {NoFile}] /\ data \in [Files -> Text] /\ last \in [Paths -> Text]
    BY DEF TypeOK
  <2>4. NoLinks'
    BY <2>1, <2>2, <2>3 DEF Inv, NoLinks
  <2>5. Busy' = Busy
    BY <2>2 DEF Busy
  <2>6. ASSUME ~overlap, NEW s \in Busy PROVE Holds(s)'
    <3>1. Holds(s) /\ save[s].file \in Files /\ ui \in Paths
      BY <2>6, BusyType DEF Inv, TypeOK
    <3>2. names'[Tmp(ui)] = names[Tmp(ui)]
      BY <2>2, <2>3, <3>1, NameFacts
    <3>3. data'[save[s].file] = data[save[s].file]
      BY <2>1, <2>2, <2>3, <3>1
    <3>4. QED  BY <2>2, <3>1, <3>2, <3>3 DEF Holds
  <2>7. ASSUME ~overlap, NEW q \in Paths PROVE InPlace(q)'
    <3>1. InPlace(q) /\ Env(q) \in Names
      BY <2>7, NameFacts DEF Inv
    <3>2. CASE q = p
      BY <2>1, <2>2, <2>3, <3>1, <3>2, FileFacts DEF InPlace, Exists
    <3>3. CASE q # p
      <4>1. names'[Env(q)] = names[Env(q)] /\ last'[q] = last[q]
        BY <2>2, <2>3, <3>1, <3>3, NameFacts
      <4>2. Exists(Env(q)) => data'[names[Env(q)]] = data[names[Env(q)]]
        BY <2>1, <2>2, <2>3, <3>1 DEF Exists
      <4>3. QED  BY <3>1, <4>1, <4>2 DEF InPlace, Exists
    <3>4. QED  BY <3>2, <3>3
  <2>8. QED  BY <2>2, <2>4, <2>5, <2>6, <2>7 DEF Inv, Alone
<1>4. ASSUME NEW s \in Savers, NEW f \in Forms, SaveOpens(s, f) PROVE Inv'
  <2> DEFINE i == IF Exists(Tmp(ui)) THEN names[Tmp(ui)] ELSE Unused
  <2>1. ui \in Paths /\ Tmp(ui) \in Names /\ names \in [Names -> Files \cup {NoFile}]
        /\ data \in [Files -> Text] /\ save \in [Savers -> Saving \cup {Idle}]
    BY NameFacts DEF TypeOK
  <2>2. i \in Files /\ \A n \in Names : n # Tmp(ui) => names[n] # i
    <3>1. CASE Exists(Tmp(ui))
      BY <2>1, <3>1 DEF Exists, Inv, NoLinks
    <3>2. CASE ~Exists(Tmp(ui))
      BY <1>4, <3>2, UnusedIsFree, FreeFacts DEF SaveOpens
    <3>3. QED  BY <3>1, <3>2
  <2>3. /\ names' = [names EXCEPT ![Tmp(ui)] = i]
        /\ data' = [data EXCEPT ![i] = <<>>]
        /\ save' = [save EXCEPT ![s] = [at |-> "open", form |-> f, file |-> i]]
        /\ overlap' = (overlap \/ Busy # {}) /\ up' = up /\ up /\ ui' = ui /\ last' = last
    BY <1>4 DEF SaveOpens
  <2> HIDE DEF i
  <2>4. NoLinks'
    BY <2>1, <2>2, <2>3, FileFacts DEF Inv, NoLinks
  <2>5. ASSUME (~overlap)' PROVE Busy' \subseteq {s} /\ Holds(s)'
    <3>1. \A r \in Savers : r # s => save'[r] = save[r]
      BY <2>1, <2>3
    <3>2. Busy = {}
      BY <2>3, <2>5
    <3>3. Busy' \subseteq {s}
      BY <3>1, <3>2 DEF Busy
    <3>4. save'[s].at = "open" /\ save'[s].file = i
      BY <2>1, <2>3
    <3>5. names'[Tmp(ui)] = i /\ data'[i] = <<>>
      BY <2>1, <2>2, <2>3
    <3>6. QED  BY <2>3, <3>3, <3>4, <3>5 DEF Holds
  <2>6. ASSUME (~overlap)', NEW q \in Paths PROVE InPlace(q)'
    <3>1. InPlace(q) /\ Env(q) \in Names /\ Env(q) # Tmp(ui)
      BY <2>1, <2>3, <2>6, NameFacts DEF Inv
    <3>2. names'[Env(q)] = names[Env(q)]
      BY <2>1, <2>3, <3>1
    <3>3. Exists(Env(q)) => data'[names[Env(q)]] = data[names[Env(q)]]
      BY <2>1, <2>2, <2>3, <3>1 DEF Exists
    <3>4. QED  BY <2>3, <3>1, <3>2, <3>3 DEF InPlace, Exists
  <2>7. QED  BY <2>4, <2>5, <2>6 DEF Inv, Alone
<1>5. ASSUME NEW s \in Savers, SaveWrites(s) PROVE Inv'
  <2>1. s \in Busy /\ save[s].at = "open"
    BY <1>5 DEF SaveWrites, Busy
  <2>2. save[s].form \in Forms /\ save[s].file \in Files
    BY <2>1, BusyType
  <2>3. /\ names' = names /\ last' = last /\ up' = up /\ ui' = ui /\ overlap' = overlap
        /\ data' = [data EXCEPT ![save[s].file] = Over(data[save[s].file], save[s].form)]
        /\ save' = [save EXCEPT ![s].at = "written"]
    BY <1>5 DEF SaveWrites
  <2>4. data \in [Files -> Text] /\ save \in [Savers -> Saving \cup {Idle}] /\ ui \in Paths
    BY DEF TypeOK
  <2>5. NoLinks'
    BY <2>3 DEF Inv, NoLinks
  <2>6. ASSUME ~overlap PROVE Busy' \subseteq {s} /\ Holds(s)'
    <3>1. Holds(s) /\ Busy = {s}
      BY <2>1, <2>6 DEF Inv, Alone
    <3>2. \A r \in Savers : r # s => save'[r] = save[r]
      BY <2>3, <2>4
    <3>3. Busy' \subseteq {s}
      BY <3>1, <3>2 DEF Busy
    <3>4. /\ save'[s].at = "written" /\ save'[s].file = save[s].file
          /\ save'[s].form = save[s].form
      BY <2>1, <2>3, <2>4, BusyType DEF Saving
    <3>5. data[save[s].file] = <<>>
      BY <2>1, <3>1 DEF Holds
    <3>6. data'[save[s].file] = <<save[s].form>>
      BY <2>2, <2>3, <2>4, <3>5, OverType
    <3>7. QED  BY <2>3, <3>1, <3>3, <3>4, <3>6 DEF Holds
  <2>7. ASSUME ~overlap, NEW q \in Paths PROVE InPlace(q)'
    <3>1. InPlace(q) /\ Holds(s) /\ Env(q) \in Names /\ Tmp(ui) \in Names /\ Env(q) # Tmp(ui)
      BY <2>1, <2>4, <2>7, NameFacts DEF Inv
    <3>2. Exists(Env(q)) => names[Env(q)] # save[s].file
      BY <3>1 DEF Inv, NoLinks, Holds, Exists
    <3>3. Exists(Env(q)) => data'[names[Env(q)]] = data[names[Env(q)]]
      BY <2>3, <2>4, <3>1, <3>2 DEF TypeOK, Exists
    <3>4. QED  BY <2>3, <3>1, <3>3 DEF InPlace, Exists
  <2>8. QED  BY <2>3, <2>5, <2>6, <2>7 DEF Inv, Alone
<1>6. ASSUME NEW s \in Savers, SaveRenames(s) PROVE Inv'
  <2>1. s \in Busy /\ save[s].at = "written" /\ Exists(Tmp(ui))
    BY <1>6 DEF SaveRenames, Busy
  <2>2. /\ names' = [n \in Names |-> IF n = Env(ui) THEN names[Tmp(ui)]
                                     ELSE IF n = Tmp(ui) THEN NoFile ELSE names[n]]
        /\ last' = [last EXCEPT ![ui] = <<save[s].form>>]
        /\ save' = [save EXCEPT ![s] = Idle]
        /\ data' = data /\ overlap' = overlap
    BY <1>6 DEF SaveRenames
  <2>3. /\ last \in [Paths -> Text] /\ save \in [Savers -> Saving \cup {Idle}] /\ ui \in Paths
        /\ Env(ui) \in Names /\ Tmp(ui) \in Names
    BY NameFacts DEF TypeOK
  <2>4. NoLinks'
    BY <2>2, <2>3 DEF Inv, NoLinks
  <2>5. ASSUME ~overlap PROVE Busy' = {}
    <3>1. Busy = {s}
      BY <2>1, <2>5 DEF Inv, Alone
    <3>2. \A r \in Savers : r # s => save'[r] = save[r]
      BY <2>2, <2>3
    <3>3. save'[s].at = "idle"
      BY <2>2, <2>3 DEF Idle
    <3>4. QED  BY <3>1, <3>2, <3>3 DEF Busy
  <2>6. ASSUME ~overlap, NEW q \in Paths PROVE InPlace(q)'
    <3>1. InPlace(q) /\ Holds(s) /\ Env(q) \in Names
      BY <2>1, <2>6, NameFacts DEF Inv
    <3>2. CASE q = ui
      <4>1. names'[Env(ui)] = names[Tmp(ui)] /\ last'[ui] = <<save[s].form>>
        BY <2>2, <2>3
      <4>2. data[names[Tmp(ui)]] = <<save[s].form>>
        BY <2>1, <3>1 DEF Holds
      <4>3. QED  BY <2>1, <2>2, <3>2, <4>1, <4>2 DEF InPlace, Exists
    <3>3. CASE q # ui
      <4>1. names'[Env(q)] = names[Env(q)] /\ last'[q] = last[q]
        BY <2>2, <2>3, <3>1, <3>3, NameFacts
      <4>2. QED  BY <2>2, <3>1, <4>1 DEF InPlace, Exists
    <3>4. QED  BY <3>2, <3>3
  <2>7. QED  BY <2>2, <2>4, <2>5, <2>6 DEF Inv, Alone
<1>7. ASSUME NEW s \in Savers, SaveFails(s) PROVE Inv'
  <2>1. /\ names' = names /\ data' = data /\ last' = last /\ up' = up /\ ui' = ui
        /\ overlap' = overlap /\ save' = [save EXCEPT ![s] = Idle]
    BY <1>7 DEF SaveFails
  <2>2. Busy' \subseteq Busy /\ \A r \in Busy' : save'[r] = save[r]
    BY <2>1 DEF TypeOK, Busy, Idle
  <2>3. NoLinks'
    BY <2>1 DEF Inv, NoLinks
  <2>4. ~overlap => \A r \in Busy' : Holds(r)'
    BY <2>1, <2>2 DEF Inv, Holds
  <2>5. ~overlap => \A q \in Paths : InPlace(q)'
    BY <2>1 DEF Inv, InPlace, Exists
  <2>6. QED  BY <2>1, <2>2, <2>3, <2>4, <2>5 DEF Inv, Alone
<1>8. CASE UNCHANGED vars
  BY <1>8 DEF vars, Inv, NoLinks, Alone, Holds, InPlace, Exists, Busy
<1>9. QED
  BY <1>1, <1>2, <1>3, <1>4, <1>5, <1>6, <1>7, <1>8 DEF Next

LEMMA InvImplies == Inv => FileIsLastSaved
BY DEF Inv, InPlace, FileIsLastSaved

\* However often the relay is stopped in the middle of a save, and whatever an
\* earlier save left behind, the file in place is a whole one, the last that was
\* acknowledged or made by hand, unless two saves overlapped: the claim of
\* setup/store.go that a crashed write cannot halve the configuration.
THEOREM WholeFile == Spec => []FileIsLastSaved
<1>1. Init => TypeOK /\ Inv
  BY InitType, InitInv
<1>2. TypeOK /\ Inv /\ [Next]_vars => TypeOK' /\ Inv'
  BY NextType, NextInv
<1>3. QED  BY <1>1, <1>2, InvImplies, PTL DEF Spec

-----------------------------------------------------------------------------
(* What a relay finds when it starts.                                      *)

\* The text of a file that was saved is read as godotenv reads the form.
LEMMA ReadingOfSaved ==
  ASSUME Inv, ~overlap, NEW p \in Paths, NEW f, last[p] = <<f>>
  PROVE  Exists(Env(p)) /\ ReadingsOf(p) = {Parsed(f)}
<1>1. InPlace(p) /\ last[p] # <<>>
  BY DEF Inv
<1>2. Exists(Env(p)) /\ data[names[Env(p)]] = <<f>>
  BY <1>1 DEF InPlace
<1>3. Readings(<<f>>) = {Parsed(f)}
  BY DEF Readings
<1>4. QED  BY <1>2, <1>3 DEF ReadingsOf

\* Where only the file p counts, and godotenv reads every line of it, what
\* config.Load finds is what godotenv made of what was saved there.
LEMMA FoundIsSaved ==
  ASSUME Inv, ~overlap, NEW f \in Forms, NEW p \in Paths, last[p] = <<f>>, Whole(f),
         procEnv.keys = NoText,
         p = ".env" \/ (p = "relay/.env" /\ ~Exists(Env(".env"))),
         NEW v \in Environments
  PROVE  v = Parsed(f)
<1>1. PICK first \in ReadingsOf(".env"), second \in ReadingsOf("relay/.env") :
          v = Resolved(NoText, first, second)
  BY DEF Environments, LoadOrder
<1>2. \A k \in Keys : NoText[k] = Missing /\ Parsed(f)[k] # Missing
  BY DEF NoText, Whole
<1>3. ReadingsOf(p) = {Parsed(f)}
  BY ReadingOfSaved
<1>4. \A k \in Keys : Value(k, NoText, first, second) = Parsed(f)[k]
  <2>1. CASE p = ".env"
    <3>1. first = Parsed(f)  BY <1>1, <1>3, <2>1
    <3>2. QED  BY <1>2, <3>1 DEF Value
  <2>2. CASE p = "relay/.env" /\ ~Exists(Env(".env"))
    <3>1. second = Parsed(f) /\ first = NoText
      BY <1>1, <1>3, <2>2 DEF ReadingsOf
    <3>2. QED  BY <1>2, <3>1 DEF Value
  <2>3. QED  BY <2>1, <2>2
<1>5. QED  BY <1>1, <1>4 DEF Resolved, Parsed

\* godotenv gives the values of a form with no sign of its own as they are.
LEMMA PlainForm ==
  ASSUME NEW f \in Forms, f \notin DOMAIN Special
  PROVE  Parsed(f) = f /\ Whole(f)
<1>1. Parsed(f) = f
  BY FormAssumption DEF FormAssumption, Parsed
<1>2. QED  BY <1>1, FormAssumption DEF FormAssumption, Whole

\* A form that Save accepts, and that is not one of those it should refuse, is
\* one the relay starts with.
LEMMA ValidStarts ==
  ASSUME NEW f \in Forms, Valid(f), ~Unbootable(f)
  PROVE  Whole(f) /\ Starts(Parsed(f))
<1> DEFINE v == Parsed(f)
           c == Config(v)
<1>1. CASE f \in DOMAIN Special
  BY <1>1 DEF Unbootable
<1>2. CASE f \notin DOMAIN Special
  <2>1. Whole(f) /\ v = f
    BY <1>2, PlainForm
  <2>2. {"HERMES_BASE_URL", "STT_PROVIDER", "STT_DEEPGRAM_API_KEY", "STT_WHISPER_URL", "PORT"}
          \subseteq Keys
    <3>1. /\ Fields[1] = "HERMES_BASE_URL" /\ Fields[3] = "STT_PROVIDER" /\ Fields[6] = "STT_WHISPER_URL"
          /\ Fields[5] = "STT_DEEPGRAM_API_KEY" /\ Fields[7] = "PORT"
          /\ {1, 3, 5, 6, 7} \subseteq DOMAIN Fields
      BY DEF Fields
    <3>2. QED  BY <3>1 DEF Keys
  <2>3. /\ c["HERMES_BASE_URL"] = NoSlash(v["HERMES_BASE_URL"])
        /\ c["STT_PROVIDER"] = Or(v["STT_PROVIDER"], "stub")
        /\ c["STT_DEEPGRAM_API_KEY"] =
              IF Or(v["STT_PROVIDER"], "stub") \in Deepgrams THEN v["STT_DEEPGRAM_API_KEY"] ELSE ""
        /\ c["STT_WHISPER_URL"] =
              IF Or(v["STT_PROVIDER"], "stub") = "whisper" THEN NoSlash(v["STT_WHISPER_URL"]) ELSE ""
        /\ c["PORT"] = Or(v["PORT"], "8081")
    <3> HIDE DEF v
    <3>1. QED  BY <2>2 DEF Config
  <2>4. c["HERMES_BASE_URL"] \in GoodUrls
    BY <2>1, <2>2, <2>3 DEF Valid
  <2>5. /\ v["STT_PROVIDER"] = f["STT_PROVIDER"]
        /\ c["STT_PROVIDER"] \in Providers
        /\ c["STT_PROVIDER"] \in Deepgrams \cup {"whisper"} => f["STT_PROVIDER"] = c["STT_PROVIDER"]
    BY <2>1, <2>2, <2>3 DEF Valid, Providers, Deepgrams, Or
  <2>6. c["STT_PROVIDER"] \in Deepgrams => c["STT_DEEPGRAM_API_KEY"] # ""
    BY <2>1, <2>2, <2>3, <2>5 DEF Valid
  <2>7. c["STT_PROVIDER"] = "whisper" => c["STT_WHISPER_URL"] # ""
    BY <2>1, <2>2, <2>3, <2>5 DEF Valid, Unbootable, NoSlash
  <2>8. c["PORT"] \in FreePorts
    BY <2>1, <2>2, <2>3 DEF Unbootable
  <2>9. QED  BY <2>1, <2>4, <2>5, <2>6, <2>7, <2>8 DEF Starts
<1>3. QED  BY <1>1, <1>2

\* What is last at a path is one text, and what a save brings there was checked;
\* a relay that runs with no change since its start runs with it.
OneText == \A p \in Paths : last[p] = <<>> \/ \E t \in Forms \cup HandMade : last[p] = <<t>>
Checked == /\ \A p \in Paths, f \in Forms : last[p] = <<f>> => Valid(f)
           /\ \A s \in Busy : Valid(save[s].form)
Applied == up /\ fresh /\ Governs /\ ~overlap =>
              \A f \in Forms : last[ui] = <<f>> /\ Whole(f) => running = Config(Parsed(f))
SavedInv == OneText /\ Checked /\ Applied

LEMMA InitSaved == Init => SavedInv
BY DEF Init, SavedInv, OneText, Checked, Applied, Busy, Idle

LEMMA NextSaved == TypeOK /\ Inv /\ SavedInv /\ [Next]_vars => SavedInv'
<1> SUFFICES ASSUME TypeOK, Inv, SavedInv, [Next]_vars PROVE SavedInv'
  OBVIOUS
<1>0. /\ last \in [Paths -> Text] /\ save \in [Savers -> Saving \cup {Idle}] /\ ui \in Paths
      /\ OneText /\ Checked /\ Applied
  BY DEF TypeOK, SavedInv
<1>1. CASE Boot
  <2>1. last' = last /\ save' = save /\ names' = names /\ overlap' = overlap /\ procEnv' = procEnv
    BY <1>1 DEF Boot
  <2>2. OneText' /\ Checked'
    BY <1>0, <2>1 DEF OneText, Checked, Busy
  <2>3. ASSUME Governs', ~overlap', NEW f \in Forms, last'[ui'] = <<f>>, Whole(f)
        PROVE  running' = Config(Parsed(f))
    <3>1. PICK v \in Environments : running' = Config(v)
      BY <1>1 DEF Boot
    <3>2. /\ ui' \in {".env", "relay/.env"} /\ ui' \in Paths /\ procEnv.keys = NoText
          /\ ui' = ".env" \/ (ui' = "relay/.env" /\ ~Exists(Env(".env")))
      BY <2>1, <2>3 DEF Governs, Exists, Env, Paths
    <3>3. v = Parsed(f)
      BY <2>1, <2>3, <3>2, FoundIsSaved
    <3>4. QED  BY <3>1, <3>3
  <2>4. QED  BY <2>2, <2>3 DEF SavedInv, Applied
<1>2. CASE Stop
  <2>1. last' = last /\ Busy' = {} /\ ~fresh'
    BY <1>2 DEF Stop, Busy, Idle
  <2>2. QED  BY <1>0, <2>1 DEF SavedInv, OneText, Checked, Applied
<1>3. ASSUME NEW p \in Paths, NEW t \in HandMade, HandEdit(p, t) PROVE SavedInv'
  <2>1. last' = [last EXCEPT ![p] = <<t>>] /\ save' = save /\ ~fresh'
    BY <1>3 DEF HandEdit
  <2>2. \A q \in Paths : last'[q] = IF q = p THEN <<t>> ELSE last[q]
    BY <1>0, <2>1
  <2>3. OneText'
    BY <1>0, <2>2 DEF OneText
  <2>4. \A q \in Paths, f \in Forms : last'[q] = <<f>> => Valid(f)
    <3>1. \A f \in Forms : f # t
      BY FormAssumption DEF FormAssumption
    <3>2. \A f \in Forms : <<t>> # <<f>>
      BY <3>1
    <3>3. QED  BY <1>0, <2>2, <3>2 DEF Checked
  <2>5. Checked'
    BY <1>0, <2>1, <2>4 DEF Checked, Busy
  <2>6. QED  BY <2>1, <2>3, <2>5 DEF SavedInv, Applied
<1>4. ASSUME NEW s \in Savers, NEW f \in Forms, SaveOpens(s, f) PROVE SavedInv'
  <2>1. /\ last' = last /\ up' = up /\ fresh' = fresh /\ ui' = ui /\ running' = running
        /\ procEnv' = procEnv /\ Valid(f) /\ (overlap => overlap')
        /\ \E i : /\ names' = [names EXCEPT ![Tmp(ui)] = i]
                  /\ save' = [save EXCEPT ![s] = [at |-> "open", form |-> f, file |-> i]]
    BY <1>4 DEF SaveOpens
  <2>2. names'[Env(".env")] = names[Env(".env")]
    BY <1>0, <2>1, NameFacts DEF TypeOK, Paths
  <2>3. \A r \in Busy' : Valid(save'[r].form)
    BY <1>0, <2>1 DEF Checked, Busy
  <2>4. OneText' /\ Checked'
    BY <1>0, <2>1, <2>3 DEF OneText, Checked
  <2>5. Applied'
    BY <1>0, <2>1, <2>2 DEF Applied, Governs, Exists
  <2>6. QED  BY <2>4, <2>5 DEF SavedInv
<1>5. ASSUME NEW s \in Savers, SaveWrites(s) PROVE SavedInv'
  <2>1. /\ last' = last /\ up' = up /\ fresh' = fresh /\ ui' = ui /\ running' = running
        /\ procEnv' = procEnv /\ overlap' = overlap /\ names' = names
        /\ save' = [save EXCEPT ![s].at = "written"] /\ save[s].at = "open"
    BY <1>5 DEF SaveWrites
  <2>2. \A r \in Busy' : r \in Busy /\ save'[r].form = save[r].form
    BY <1>0, <2>1 DEF Busy, Saving, Idle
  <2>3. OneText' /\ Checked'
    BY <1>0, <2>1, <2>2 DEF OneText, Checked
  <2>4. Applied'
    BY <1>0, <2>1 DEF Applied, Governs, Exists
  <2>5. QED  BY <2>3, <2>4 DEF SavedInv
<1>6. ASSUME NEW s \in Savers, SaveRenames(s) PROVE SavedInv'
  <2>1. /\ last' = [last EXCEPT ![ui] = <<save[s].form>>]
        /\ save' = [save EXCEPT ![s] = Idle] /\ ~fresh' /\ save[s].at = "written"
    BY <1>6 DEF SaveRenames
  <2>2. s \in Busy
    BY <2>1 DEF Busy
  <2>3. save[s].form \in Forms /\ Valid(save[s].form)
    BY <1>0, <2>2, BusyType DEF Checked
  <2>4. \A q \in Paths : last'[q] = IF q = ui THEN <<save[s].form>> ELSE last[q]
    BY <1>0, <2>1
  <2>5. OneText'
    BY <1>0, <2>3, <2>4 DEF OneText
  <2>6. \A q \in Paths, f \in Forms : last'[q] = <<f>> => Valid(f)
    <3>1. \A f \in Forms : <<save[s].form>> = <<f>> => f = save[s].form
      OBVIOUS
    <3>2. QED  BY <1>0, <2>3, <2>4, <3>1 DEF Checked
  <2>7. \A r \in Busy' : r \in Busy /\ save'[r] = save[r]
    BY <1>0, <2>1 DEF Busy, Idle
  <2>8. QED  BY <1>0, <2>1, <2>5, <2>6, <2>7 DEF SavedInv, Checked, Applied
<1>7. ASSUME NEW s \in Savers, SaveFails(s) PROVE SavedInv'
  <2>1. /\ last' = last /\ up' = up /\ fresh' = fresh /\ ui' = ui /\ running' = running
        /\ procEnv' = procEnv /\ overlap' = overlap /\ names' = names
        /\ save' = [save EXCEPT ![s] = Idle]
    BY <1>7 DEF SaveFails
  <2>2. \A r \in Busy' : r \in Busy /\ save'[r] = save[r]
    BY <1>0, <2>1 DEF Busy, Idle
  <2>3. OneText' /\ Checked'
    BY <1>0, <2>1, <2>2 DEF OneText, Checked
  <2>4. Applied'
    BY <1>0, <2>1 DEF Applied, Governs, Exists
  <2>5. QED  BY <2>3, <2>4 DEF SavedInv
<1>8. CASE UNCHANGED vars
  BY <1>0, <1>8 DEF vars, SavedInv, OneText, Checked, Applied, Governs, Exists, Busy
<1>9. QED
  BY <1>1, <1>2, <1>3, <1>4, <1>5, <1>6, <1>7, <1>8 DEF Next

LEMMA SavedImplies == TypeOK /\ Inv /\ SavedInv => SavedApplies
<1> SUFFICES ASSUME TypeOK, Inv, SavedInv, Governs, ~overlap, last[ui] # <<>>,
                    NEW f, f = last[ui][1], f \in Forms
             PROVE  /\ up /\ fresh /\ Whole(f) => running = Config(Parsed(f))
                    /\ up /\ fresh /\ f \notin DOMAIN Special => running = Config(f)
                    /\ ~up /\ ~Unbootable(f) => \A v \in Environments : Starts(v)
  BY DEF SavedApplies
<1>1. ui \in Paths /\ last[ui] = <<f>>
  BY DEF TypeOK, SavedInv, OneText
<1>2. up /\ fresh /\ Whole(f) => running = Config(Parsed(f))
  BY <1>1 DEF SavedInv, Applied
<1>3. f \notin DOMAIN Special => Whole(f) /\ Parsed(f) = f
  BY PlainForm
<1>4. ASSUME ~Unbootable(f), NEW v \in Environments PROVE Starts(v)
  <2>1. Valid(f)
    BY <1>1 DEF SavedInv, Checked
  <2>2. Whole(f) /\ Starts(Parsed(f))
    BY <1>4, <2>1, ValidStarts
  <2>3. v = Parsed(f)
    BY <1>1, <2>2, FoundIsSaved DEF Governs
  <2>4. QED  BY <2>2, <2>3
<1>5. QED  BY <1>2, <1>3, <1>4

\* "Saved - restart relay to apply": whatever else is saved, edited or stopped,
\* where the file the page edits is the one that counts, and no saves overlapped,
\* the relay runs with what godotenv makes of the form, whatever that is, and so
\* with what was filled in where no value has a sign of godotenv's; and it starts,
\* but for the forms Save should have refused.
THEOREM SavesComeTrue == Spec => []SavedApplies
<1>1. Init => TypeOK /\ Inv /\ SavedInv
  BY InitType, InitInv, InitSaved
<1>2. TypeOK /\ Inv /\ SavedInv /\ [Next]_vars => TypeOK' /\ Inv' /\ SavedInv'
  BY NextType, NextInv, NextSaved
<1>3. QED  BY <1>1, <1>2, SavedImplies, PTL DEF Spec
=============================================================================
