---------------------------- MODULE UpdateProofs ----------------------------
(***************************************************************************)
(* Proofs about Update for every set of versions, images and allowlists    *)
(* and every number of publishes and faults.                               *)
(*                                                                         *)
(* The argument: an update only ever erases the slot that is not running,  *)
(* and only when the running one needs no fallback (EraseSafe); what is    *)
(* in that slot when the boot partition is set is the image the manifest   *)
(* named (PollHolds); and a slot that is not confirmed yet has a           *)
(* confirmed one beside it (BootSlot).  All this is for both ways of        *)
(* reading the headers; as node_ota.c is written nothing is ever installed  *)
(* (NeverInstalls).                                                        *)
(***************************************************************************)
EXTENDS Update, TLAPS

USE NameAssumption, ImageAssumption, BoundAssumption
    DEF NameAssumption, ImageAssumption, BoundAssumption

Unconfirmed == {"new", "pending"}
Sound(s) == Bootable(s) /\ slots[s].img \in offered \cup {Factory}

\* What the poll holds at each of its places.
PollHolds ==
    /\ tpc # "idle" => main # "off" /\ got.sha \in offered
    /\ tpc \in {"write", "verify"} => ~(file \in Images /\ Kind[file] = "large")
    /\ tpc = "verify" => slots[1 - run].img = file
    /\ tpc = "install" => /\ slots[1 - run].img = got.sha
                          /\ Kind[got.sha] \in {"good", "panics"}

\* While a download is under way, the running slot needs no fallback.
EraseSafe == tpc \in {"write", "verify", "install"} => slots[run].st # "pending"

\* The boot slot is sound, and as long as it is not confirmed so is the other.
BootSlot ==
    /\ Sound(boot)
    /\ slots[boot].st \in Unconfirmed =>
          Sound(1 - boot) /\ slots[1 - boot].st \notin Unconfirmed

\* The slot that runs is the boot slot, and has been started.
Running ==
    /\ main # "off" => boot = run /\ slots[run].st # "new"
    /\ main = "ready" => slots[run].st # "pending"

\* Node may take only what it was offered.
ManifestOffered ==
    manifest # None /\ Eligible(manifest, Node) => manifest.sha \in offered

IInv == TypeOK /\ ManifestOffered /\ PollHolds /\ EraseSafe /\ BootSlot /\ Running

LEMMA InitIInv == Init => IInv
<1> SUFFICES ASSUME Init PROVE IInv
  OBVIOUS
<1> USE DEF Init
<1>1. TypeOK  BY DEF TypeOK, SlotStates
<1>2. PollHolds  BY DEF PollHolds
<1>3. EraseSafe  BY DEF EraseSafe
<1>4. BootSlot  BY DEF BootSlot, Sound, Bootable, Unconfirmed
<1>5. Running  BY DEF Running
<1>6. ManifestOffered  BY DEF ManifestOffered
<1>7. QED  BY <1>1, <1>2, <1>3, <1>4, <1>5, <1>6 DEF IInv

LEMMA NextTypeOK == TypeOK /\ [Next]_vars => TypeOK'
<1> SUFFICES ASSUME TypeOK, [Next]_vars PROVE TypeOK'
  OBVIOUS
<1> USE DEF TypeOK, storeVars, flashVars, pollVars, deviceVars
<1>1. ASSUME NEW p \in Publishers, NEW v \in Typed, NEW i \in Images, NEW D \in AllowLists,
             PublishImage(p, v, i, D)
      PROVE TypeOK'
  BY <1>1 DEF PublishImage, Form, Manifests, Publishers
<1>2. ASSUME NEW p \in Publishers, PublishManifest(p)  PROVE TypeOK'
  BY <1>2 DEF PublishManifest, SetManifest, Manifests
<1>3. ASSUME NEW p \in Publishers, PublishFails(p)  PROVE TypeOK'
  BY <1>3 DEF PublishFails
<1>4. ASSUME NEW m \in Manifests, WriteByHand(m)  PROVE TypeOK'
  BY <1>4 DEF WriteByHand, SetManifest, Manifests
<1>5. CASE PollAsks  BY <1>5 DEF PollAsks, OfferedBy, Tick
<1>6. CASE PollReads  BY <1>6 DEF PollReads
<1>7. CASE Begin
  <2>1. Answer(got) \in Images \cup {Page}
    BY <1>7 DEF Begin, Answer, Manifests
  <2>2. CASE HeadersPass(TRUE) /\ BeginAccepts(Answer(got))
    BY <1>7, <2>1, <2>2 DEF Begin, Target, SlotStates
  <2>3. CASE ~(HeadersPass(TRUE) /\ BeginAccepts(Answer(got)))
    BY <1>7, <2>3 DEF Begin
  <2>4. QED  BY <2>2, <2>3
<1>8. CASE Streamed  BY <1>8 DEF Streamed, Target
<1>9. CASE Verify  BY <1>9 DEF Verify
<1>10. CASE Install  BY <1>10 DEF Install, Target, SlotStates
<1>11. CASE GiveUp  BY <1>11 DEF GiveUp
<1>12. CASE BootUp  BY <1>12 DEF BootUp, NextBoot, SlotStates
<1>13. CASE OtaInit  BY <1>13 DEF OtaInit, Confirmed, SlotStates
<1>14. CASE Panic  BY <1>14 DEF Panic, PowerOff
<1>15. CASE PowerLoss  BY <1>15 DEF PowerLoss, PowerOff
<1>16. CASE UNCHANGED vars  BY <1>16 DEF vars
<1>17. QED
  BY <1>1, <1>2, <1>3, <1>4, <1>5, <1>6, <1>7, <1>8, <1>9, <1>10, <1>11, <1>12, <1>13,
     <1>14, <1>15, <1>16 DEF Next, Relay, TimerTask, MainTask

\* The relay's steps only add to what was offered.
LEMMA RelayKeepsIInv ==
  ASSUME IInv, TypeOK', ManifestOffered', UNCHANGED deviceVars, offered \subseteq offered'
  PROVE  IInv'
BY DEF IInv, PollHolds, EraseSafe, BootSlot, Running, Sound, Bootable, deviceVars,
       flashVars, pollVars

\* The bootloader leaves contents alone; it gives up on an unconfirmed slot,
\* and starts a new one for the first time.
LEMMA BootUpStates ==
  ASSUME TypeOK, BootUp, NEW s \in {0, 1}
  PROVE  /\ slots'[s].img = slots[s].img
         /\ slots[s].st = "pending" => slots'[s].st = "aborted"
         /\ slots[s].st = "new" /\ s = NextBoot => slots'[s].st = "pending"
         /\ slots[s].st \notin Unconfirmed => slots'[s].st = slots[s].st
BY DEF BootUp, TypeOK, SlotStates, Unconfirmed

\* A boot keeps the invariant: the slot it chooses is one it may start.
LEMMA BootUpIInv == IInv /\ TypeOK' /\ BootUp => IInv'
<1> SUFFICES ASSUME IInv, TypeOK', BootUp PROVE IInv'
  OBVIOUS
<1>1. /\ tpc = "idle" /\ UNCHANGED <<tpc, offered, manifest>>
      /\ boot' = NextBoot /\ run' = NextBoot /\ main' = "booting"
  BY DEF BootUp, IInv, PollHolds, storeVars, pollVars
<1>2. ManifestOffered' /\ PollHolds' /\ EraseSafe'
  BY <1>1 DEF IInv, ManifestOffered, Eligible, PollHolds, EraseSafe
<1>3. boot \in {0, 1} /\ 1 - boot \in {0, 1} /\ 1 - (1 - boot) = boot
  BY DEF IInv, TypeOK
<1>4. CASE slots[boot].st = "pending"
  <2>1. NextBoot = 1 - boot  BY <1>4 DEF NextBoot
  <2>2. Sound(1 - boot) /\ slots[1 - boot].st \notin Unconfirmed
    BY <1>4 DEF IInv, BootSlot, Unconfirmed
  <2>3. /\ slots'[1 - boot].img = slots[1 - boot].img
        /\ slots'[1 - boot].st = slots[1 - boot].st
    BY <1>3, <2>2, BootUpStates DEF IInv
  <2>4. BootSlot' /\ Running'
    BY <1>1, <2>1, <2>2, <2>3 DEF BootSlot, Running, Sound, Bootable, Unconfirmed
  <2>5. QED  BY <1>2, <2>4 DEF IInv
<1>5. CASE slots[boot].st # "pending"
  <2>1. NextBoot = boot  BY <1>5 DEF NextBoot, IInv, BootSlot, Sound
  <2>2. /\ slots'[boot].img = slots[boot].img
        /\ slots'[boot].st = IF slots[boot].st = "new" THEN "pending" ELSE slots[boot].st
    BY <1>3, <1>5, <2>1, BootUpStates DEF IInv, Unconfirmed
  <2>3. slots[boot].st = "new" =>
           /\ Sound(1 - boot) /\ slots[1 - boot].st \notin Unconfirmed
           /\ slots'[1 - boot].img = slots[1 - boot].img
           /\ slots'[1 - boot].st = slots[1 - boot].st
    BY <1>3, BootUpStates DEF IInv, BootSlot, Unconfirmed
  <2>4. BootSlot' /\ Running'
    BY <1>1, <1>5, <2>1, <2>2, <2>3
    DEF IInv, BootSlot, Running, Sound, Bootable, Unconfirmed
  <2>5. QED  BY <1>2, <2>4 DEF IInv
<1>6. QED  BY <1>4, <1>5

LEMMA NextIInv == IInv /\ [Next]_vars => IInv'
<1> SUFFICES ASSUME IInv, [Next]_vars PROVE IInv'
  OBVIOUS
<1>0. TypeOK /\ TypeOK'  BY NextTypeOK DEF IInv
<1>1. CASE Relay
  <2>1. UNCHANGED deviceVars /\ offered \subseteq offered'
    BY <1>1 DEF Relay, PublishImage, Form, PublishManifest, PublishFails, WriteByHand,
                SetManifest, storeVars
  <2>2. ManifestOffered'
    BY <1>1 DEF IInv, ManifestOffered, Relay, PublishImage, Form, PublishManifest, PublishFails,
                WriteByHand, SetManifest, Eligible
  <2>3. QED  BY <2>1, <2>2, <1>0, RelayKeepsIInv
<1> USE DEF IInv, ManifestOffered, Eligible, PollHolds, EraseSafe, BootSlot, Running, Sound, Bootable, Unconfirmed,
            storeVars, flashVars, pollVars, deviceVars, TypeOK
<1>2. CASE PollAsks  BY <1>0, <1>2 DEF PollAsks, Tick, OfferedBy, Manifests
<1>3. CASE PollReads  BY <1>0, <1>3 DEF PollReads
<1>4. CASE Begin
  <2>1. CASE HeadersPass(TRUE) /\ BeginAccepts(Answer(got))
    BY <1>0, <1>4, <2>1 DEF Begin, Target, BeginAccepts
  <2>2. CASE ~(HeadersPass(TRUE) /\ BeginAccepts(Answer(got)))
    BY <1>0, <1>4, <2>2 DEF Begin
  <2>3. QED  BY <2>1, <2>2
<1>5. CASE Streamed  BY <1>0, <1>5 DEF Streamed, Target
<1>6. CASE Verify  BY <1>0, <1>6 DEF Verify, Matches, Kinds
<1>7. CASE Install  BY <1>0, <1>7 DEF Install, Target, Kinds
<1>8. CASE GiveUp  BY <1>0, <1>8 DEF GiveUp
<1>9. CASE BootUp  BY <1>0, <1>9, BootUpIInv
<1>10. CASE OtaInit  BY <1>0, <1>10 DEF OtaInit, Confirmed
<1>11. CASE Panic  BY <1>0, <1>11 DEF Panic, PowerOff
<1>12. CASE PowerLoss  BY <1>0, <1>12 DEF PowerLoss, PowerOff
<1>13. CASE UNCHANGED vars  BY <1>13 DEF vars
<1>14. QED
  BY <1>1, <1>2, <1>3, <1>4, <1>5, <1>6, <1>7, <1>8, <1>9, <1>10, <1>11, <1>12, <1>13
  DEF Next, TimerTask, MainTask

-----------------------------------------------------------------------------
LEMMA SpecIInv == Spec => []IInv
<1>1. Init => IInv  BY InitIInv
<1>2. IInv /\ [Next]_vars => IInv'  BY NextIInv
<1>3. QED  BY <1>1, <1>2, PTL DEF Spec

\* Types, and a poll that is over has let go of what it held.
THEOREM TypeCorrect == Spec => []TypeOK
<1>1. IInv => TypeOK  BY DEF IInv
<1>2. QED  BY SpecIInv, <1>1, PTL

\* Power can go at any point of a download, of an installation or of the first
\* boot after it: the bootloader finds an image it can start.
THEOREM AlwaysBootable == Spec => []NeverBricked
<1>1. IInv => NeverBricked
  BY DEF IInv, TypeOK, BootSlot, Sound, NeverBricked, NextBoot, Unconfirmed
<1>2. QED  BY SpecIInv, <1>1, PTL

\* However publishes, hand edits, polls and downloads interleave, the device
\* starts no image that was not offered to it.
THEOREM BootsOnlyOffered == Spec => []OnlyOfferedBoots
<1>1. IInv => OnlyOfferedBoots  BY DEF IInv, BootSlot, Sound, OnlyOfferedBoots
<1>2. QED  BY SpecIInv, <1>1, PTL

\* An image that has come up once is not rolled back by a later power loss.
THEOREM ConfirmedStays == Spec => []ReadyStays
<1>1. IInv => ReadyStays
  BY DEF IInv, BootSlot, Sound, Running, ReadyStays, NextBoot
<1>2. QED  BY SpecIInv, <1>1, PTL

-----------------------------------------------------------------------------
\* As written, the slots are those of a device flashed over USB: the second one
\* was never touched, and the first never had to be confirmed.
Untouched ==
    check = "written" =>
        /\ tpc \in {"idle", "headers", "begin"}
        /\ slots[0].img = Factory /\ slots[0].st = "undefined"
        /\ slots[1].img = Blank /\ boot = 0 /\ run = 0

LEMMA InitUntouched == Init => Untouched
BY DEF Init, Untouched

LEMMA NextUntouched == TypeOK /\ Untouched /\ [Next]_vars => Untouched'
<1> SUFFICES ASSUME TypeOK, Untouched, [Next]_vars, check' = "written" PROVE Untouched'
  BY DEF Untouched
<1> USE DEF storeVars, flashVars, pollVars, deviceVars
<1>1. check' = check
  BY DEF Next, Relay, TimerTask, MainTask, PublishImage, PublishManifest, PublishFails, WriteByHand,
         PollAsks, PollReads, Begin, Streamed, Verify, Install, GiveUp, BootUp, OtaInit, Panic,
         PowerOff, PowerLoss, vars
<1>2. /\ tpc \in {"idle", "headers", "begin"} /\ slots[0].img = Factory
      /\ slots[0].st = "undefined" /\ slots[1].img = Blank /\ boot = 0 /\ run = 0
  BY <1>1 DEF Untouched
<1>3. slots \in [{0, 1} -> [img : Images \cup {Page, Blank}, st : SlotStates]]
  BY DEF TypeOK
<1>4. CASE Relay
  BY <1>2, <1>4 DEF Untouched, Relay, PublishImage, PublishManifest, PublishFails, WriteByHand
<1>5. CASE PollAsks \/ PollReads
  BY <1>2, <1>5 DEF Untouched, PollAsks, PollReads
<1>6. CASE Begin
  <2>1. ~HeadersPass(TRUE)
    BY <1>1 DEF HeadersPass
  <2>2. tpc' = "idle" /\ slots' = slots /\ boot' = boot /\ run' = run
    BY <1>6, <2>1 DEF Begin
  <2>3. QED  BY <1>2, <2>2 DEF Untouched
<1>7. CASE Streamed \/ Verify \/ Install
  BY <1>2, <1>7 DEF Streamed, Verify, Install
<1>8. CASE GiveUp \/ Panic \/ PowerLoss
  BY <1>2, <1>8 DEF Untouched, GiveUp, Panic, PowerLoss, PowerOff
<1>9. CASE BootUp
  <2>1. NextBoot = 0
    BY <1>2 DEF NextBoot, Bootable
  <2>2. boot' = 0 /\ run' = 0 /\ tpc' = tpc
    BY <1>9, <2>1 DEF BootUp
  <2>3. /\ slots'[0].img = slots[0].img /\ slots'[1].img = slots[1].img
        /\ slots'[0].st = slots[0].st
    BY <1>2, <1>3, <1>9 DEF BootUp, SlotStates
  <2>4. QED  BY <1>2, <2>2, <2>3 DEF Untouched
<1>10. CASE OtaInit
  <2>1. slots' = Confirmed /\ boot' = boot /\ run' = run /\ tpc' = tpc
    BY <1>10 DEF OtaInit
  <2>2. /\ slots'[0].img = slots[0].img /\ slots'[0].st = slots[0].st
        /\ slots'[1].img = slots[1].img
    BY <1>2, <1>3, <2>1 DEF Confirmed, SlotStates
  <2>3. QED  BY <1>2, <2>1, <2>2 DEF Untouched
<1>11. CASE UNCHANGED vars
  BY <1>2, <1>11 DEF Untouched, vars
<1>12. QED
  BY <1>4, <1>5, <1>6, <1>7, <1>8, <1>9, <1>10, <1>11 DEF Next, TimerTask, MainTask

\* Whatever is published, for whichever devices, by form or by hand: with
\* fetch_headers read as node_ota.c reads it, no poll erases a slot, and the
\* device runs the image it was flashed with for ever.
THEOREM NeverInstalls == Spec => []NothingInstalled
<1>1. Init => TypeOK /\ Untouched
  BY InitIInv, InitUntouched DEF IInv
<1>2. TypeOK /\ Untouched /\ [Next]_vars => TypeOK' /\ Untouched'
  BY NextTypeOK, NextUntouched
<1>3. Untouched => NothingInstalled
  BY DEF Untouched, NothingInstalled
<1>4. QED  BY <1>1, <1>2, <1>3, PTL DEF Spec
=============================================================================
