---------------------------- MODULE AlertRuntime ----------------------------
(***************************************************************************)
(* The debounce cell that crates/server/src/alerts.rs keeps in memory for  *)
(* every (rule, node) key, and what the two halves of `transition` that    *)
(* run under the lock do to it.  The module has no state of its own: the   *)
(* concurrent evaluator (AlertTransition), the rule administration         *)
(* (AlertRules) and the timed patrol (OfflinePatrol) all step the cell     *)
(* with these operators.                                                   *)
(*                                                                         *)
(* Option<i64> is an integer here: a time is a natural number of seconds   *)
(* and None is NoTime; an event id is a positive rowid and None is         *)
(* NoEvent.  A key that is absent from the map is the cell Fresh, because  *)
(* every reader goes through entry(..).or_default().                       *)
(***************************************************************************)
EXTENDS Integers

CONSTANTS
    FlapWindow,   \* FLAP_WINDOW_SECS: how long a recovery counts as a flap
    FlapRefire    \* FLAP_REFIRE_SECS: confirmation asked for inside the window

ASSUME FlapAssumption ==
    /\ FlapWindow \in Nat
    /\ FlapRefire \in Nat
    /\ FlapRefire <= FlapWindow

NoTime == -1
NoEvent == 0

Time == Nat
EventId == Nat \ {NoEvent}

Breach == [ since        : Time \cup {NoTime},
            firing       : BOOLEAN,
            event_id     : EventId \cup {NoEvent},
            recovered_at : Time \cup {NoTime} ]

Fresh == [since |-> NoTime, firing |-> FALSE, event_id |-> NoEvent, recovered_at |-> NoTime]

-----------------------------------------------------------------------------

\* The node came back less than a flap window before now.
RecentlyRecovered(b, now) ==
    b.recovered_at # NoTime /\ now - b.recovered_at < FlapWindow

\* How long the breach has to last before it may fire.
offline_fire_debounce(offline, base, b, now) ==
    IF offline /\ RecentlyRecovered(b, now) /\ base < FlapRefire
    THEN FlapRefire
    ELSE base

\* The start of the current breach once a breaching sample taken at now is counted.
BreachStart(b, now) == IF b.since = NoTime THEN now ELSE b.since

\* Variant with a fault: the debounce is not asked for.
MustFireAtOnce(b, offline, base, now) == ~b.firing

\* The breaching sample raises the alert: the caller has to insert an event.
MustFire(b, offline, base, now) ==
    /\ ~b.firing
    /\ now - BreachStart(b, now) >= offline_fire_debounce(offline, base, b, now)

\* Variant with a fault: every breaching sample restarts the timer.
OnBreachRestarts(b, offline, base, now) ==
    [b EXCEPT !.since = now,
              !.firing = @ \/ MustFire([b EXCEPT !.since = now], offline, base, now)]

\* The locked phase of transition for a breaching sample ...
OnBreach(b, offline, base, now) ==
    [b EXCEPT !.since = BreachStart(b, now),
              !.firing = @ \/ MustFire(b, offline, base, now)]

\* Variants with a fault: the event id is not taken out of the cell, the whole
\* cell is only looked at.
OnClearKeepsEvent(b, offline, now) ==
    [b EXCEPT !.since = NoTime, !.firing = FALSE,
              !.recovered_at = IF b.firing /\ offline THEN now ELSE @]
OnClearPeeks(b, offline, now) == [b EXCEPT !.since = NoTime]

\* ... and for a sample that does not breach.
OnClear(b, offline, now) ==
    [ since        |-> NoTime,
      firing       |-> FALSE,
      event_id     |-> NoEvent,
      recovered_at |-> IF b.firing /\ offline THEN now ELSE b.recovered_at ]

\* Variant with a fault: a remembered recovery does not protect the cell.
RetainedIfActive(b, now) == b.firing \/ b.since # NoTime

\* prune_runtime keeps the cell; a dropped cell is Fresh the next time it is read.
Retained(b, now) ==
    b.firing \/ b.since # NoTime \/ RecentlyRecovered(b, now)

Pruned(b, now) == IF Retained(b, now) THEN b ELSE Fresh

=============================================================================
