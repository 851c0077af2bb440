-------------------------------- MODULE Ptt ---------------------------------
(***************************************************************************)
(* The button: firmware/components/node_ptt polls it and folds the samples *)
(* into presses and releases, and on_press of main/app_main.c takes a press *)
(* soon after another for a double press, which cancels.                   *)
(*                                                                         *)
(* The poll is one of the callbacks of the esp_timer task.  That task runs *)
(* one callback at a time: a callback that waits, as on_release does for   *)
(* the reader, a cancel for its answer and node_health's update check for  *)
(* the relay, holds up the polls.  Those that are overdue are run one      *)
(* after the other as soon as it returns, because the timer is created     *)
(* without skip_unhandled_events.                                          *)
(*                                                                         *)
(* Time is counted in units, relative to the present: how far the next poll *)
(* is behind its alarm, and how long ago things happened.                  *)
(***************************************************************************)
EXTENDS Integers

CONSTANTS
    Period,     \* SAMPLE_MS (50)
    Debounce,   \* cfg.debounce_ms (200)
    Window,     \* on_press's 400 ms
    Jitter,     \* bound: how late the task may be without being held up
    MaxLag      \* bound: how late at all

ASSUME TimeAssumption ==
    /\ Period \in Nat \ {0} /\ Debounce \in Nat \ {0} /\ Window \in Nat \ {0}
    /\ Jitter \in Nat /\ MaxLag \in Nat

\* Press and release together take as long as the window is.
ASSUME WindowAssumption == Window <= 2 * Debounce

VARIABLES
    raw,        \* whether the button is down
    reported,   \* s_active
    stable,     \* s_stable_ms
    held,       \* the timer task is in a callback that waits
    lag,        \* time since the next poll's alarm, negative before it
    since,      \* time since s_press_us, Window for that and more
    pressLag,   \* history: the lag of the poll that reported that press
    differs,    \* history: the last sample differed from what is reported
    span,       \* history: time since the first of such samples, up to Debounce
    spanLag,    \* history: the lag of the poll that took that one
    steady      \* history: time since raw changed, up to Steady

clockVars == <<lag, since, span, steady>>
pttVars == <<raw, reported, stable, held, clockVars, pressLag, differs, spanLag>>

Steady == Debounce + Jitter + 1
Least(a, b) == IF a < b THEN a ELSE b

-----------------------------------------------------------------------------
\* The boot before it has waited for the network, longer than the window.
PttInit ==
    /\ raw \in BOOLEAN /\ reported = FALSE /\ stable = 0 /\ held = FALSE
    /\ lag = -Period /\ since = Window /\ pressLag = 0
    /\ differs = FALSE /\ span = Debounce /\ spanLag = 0 /\ steady = 0

\* The user, or a bouncing contact.
Flip ==
    /\ raw' = ~raw /\ steady' = 0
    /\ UNCHANGED <<reported, stable, held, lag, since, pressLag, differs, span, spanLag>>

\* Time passes; a poll that is due waits only for a callback.
Pass ==
    /\ lag < (IF held THEN MaxLag ELSE Jitter)
    /\ lag' = lag + 1
    /\ since' = Least(since + 1, Window)
    /\ span' = Least(span + 1, Debounce)
    /\ steady' = Least(steady + 1, Steady)
    /\ UNCHANGED <<raw, reported, stable, held, pressLag, differs, spanLag>>

\* Slips: a release is taken at its first sample; the time is not added up; a
\* glitch counts towards the next change.
SlipReleaseAtOnce == reported \/ stable + Period >= Debounce
SlipNoSum(enough) == IF raw = reported \/ enough THEN 0 ELSE Period
SlipKeepsGlitch(enough) == IF enough THEN 0 ELSE IF raw = reported THEN stable ELSE stable + Period

\* node_ptt_fold: this sample completes the debounce time, ...
Enough == stable + Period >= Debounce

\* ... if it differs from what is reported, which starts the count anew.
Changes == raw # reported /\ Enough
Counted(enough) == IF raw = reported \/ enough THEN 0 ELSE stable + Period

\* on_press: within the window it cancels and forgets the time of the press.
OnPress ==
    \/ since < Window /\ since' = Window /\ UNCHANGED pressLag
    \/ since >= Window /\ since' = 0 /\ pressLag' = lag

\* poll; on_change may wait.
Poll ==
    /\ ~held /\ lag >= 0
    /\ lag' = lag - Period
    /\ stable' = Counted(Enough)
    /\ reported' = IF Changes THEN raw ELSE reported
    /\ held' \in (IF Changes THEN BOOLEAN ELSE {FALSE})
    /\ IF Changes /\ raw THEN OnPress ELSE UNCHANGED <<since, pressLag>>
    /\ differs' = (raw # reported')
    /\ IF raw # reported /\ ~differs THEN span' = 0 /\ spanLag' = lag
                                     ELSE UNCHANGED <<span, spanLag>>
    /\ UNCHANGED <<raw, steady>>

\* The health timer's callback: telemetry, and with CONFIG_NODE_AUTO_UPDATE a
\* check for an update that can wait 15 s for the relay.
Check ==
    /\ ~held /\ held' = TRUE
    /\ UNCHANGED <<raw, reported, stable, clockVars, pressLag, differs, spanLag>>

\* A callback returns.
Return ==
    /\ held /\ held' = FALSE
    /\ UNCHANGED <<raw, reported, stable, clockVars, pressLag, differs, spanLag>>

PttNext == Flip \/ Pass \/ Poll \/ Check \/ Return

\* Time passes, every wait has a limit, and the task takes alarms in the order
\* of their times, so that no other timer keeps the poll from its turn.
PttFairness == WF_pttVars(Pass) /\ WF_pttVars(Return) /\ SF_pttVars(Poll)

PttSpec == PttInit /\ [][PttNext]_pttVars /\ PttFairness

-----------------------------------------------------------------------------
PttTypeOK ==
    /\ raw \in BOOLEAN /\ reported \in BOOLEAN /\ held \in BOOLEAN /\ differs \in BOOLEAN
    /\ stable \in Nat /\ lag \in Int /\ pressLag \in Int /\ spanLag \in Int
    /\ since \in 0 .. Window /\ span \in 0 .. Debounce /\ steady \in 0 .. Steady

\* Press and release are debounced for as long as the window of a double press
\* is.  So no two presses are ever near enough, but when the first is reported
\* by a poll that ran late, and later than the one that reports the second.
DoublePressNeedsDelay ==
    [][~reported /\ reported' /\ since' = Window => pressLag > lag]_pttVars

\* The samples that report a change are spread over the debounce time, less a
\* period, but when the first of them was taken late, and later than the last:
\* polls that are made up for look at a bouncing contact within an instant.
QuickReportNeedsDelay ==
    [][reported' # reported =>
        IF differs THEN span < Debounce - Period => spanLag > lag
                   ELSE Debounce <= Period]_pttVars

\* A button that is left down, or up, is reported so, whatever the other
\* timers do.
HeldIsReported == \A b \in BOOLEAN : <>[](raw = b) => <>(reported = b)

-----------------------------------------------------------------------------
(* What a comment of node_health.c says, and the code does not do: TLC     *)
(* finds a counterexample when it is added to MCPtt.cfg as an INVARIANT.   *)

\* "Voice path unaffected by check failures": a button that is held longer than
\* the debounce time has been reported.
PressReportedInTime == raw /\ steady = Steady => reported
=============================================================================
