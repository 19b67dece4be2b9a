------------------------- MODULE OfflinePatrolProofs -------------------------
(***************************************************************************)
(* What the patrol promises in time, for every number of nodes and every   *)
(* grace, confirmation, flap window and refire time: alerts of one node    *)
(* are spaced, each follows a confirmed silence, and an outage is found.   *)
(*                                                                         *)
(* The step that fires sees only the cell.  So the first argument is about *)
(* what the cell remembers of the last alert: it is still firing, or it    *)
(* holds a recovery that is not older, or so much time has passed that the *)
(* recovery could be forgotten.  The other two are about what the start of *)
(* a breach says of the rows that were read since.                         *)
(***************************************************************************)
EXTENDS OfflinePatrol, TLAPS

\* What is left of the last alert of node n.
Remembered(n) ==
    \/ rt[n].firing
    \/ /\ rt[n].recovered_at >= lastFired[n]
       /\ rt[n].since = NoTime \/ rt[n].since >= rt[n].recovered_at
    \/ roundNow >= lastFired[n] + FlapWindow

\* The inductive invariant.
SpacingInv ==
    /\ TypeOK
    /\ roundNow <= now
    /\ \A n \in Nodes :
          /\ lastFired[n] <= roundNow
          /\ rt[n].recovered_at <= roundNow
          /\ lastFired[n] # NoTime => Remembered(n)

USE FlapAssumption, PatrolAssumption DEF NoTime, NoEvent, Time, EventId, MaybeTime

-----------------------------------------------------------------------------

\* The two halves of transition and the pruning keep a cell a cell.
LEMMA CellTypes ==
    ASSUME NEW b \in Breach, NEW t \in Nat, NEW base \in Nat, NEW offline \in BOOLEAN
    PROVE  /\ OnBreach(b, offline, base, t) \in Breach
           /\ OnClear(b, offline, t) \in Breach
           /\ Pruned(b, t) \in Breach
BY DEF OnBreach, OnClear, Pruned, Fresh, Breach, BreachStart, MustFire

\* Types are kept by every step.
LEMMA TypeStep == TypeOK /\ roundNow <= now /\ [Next]_vars => TypeOK'
<1> SUFFICES ASSUME TypeOK, roundNow <= now, [Next]_vars PROVE TypeOK'
    OBVIOUS
<1> USE DEF TypeOK
<1>1. CASE WakeUp
    BY <1>1 DEF WakeUp
<1>2. CASE Select
    <2>1. missed' \in [Nodes -> Nat]
        BY <1>2 DEF Select
    <2> QED
        BY <1>2, <2>1 DEF Select
<1>3. ASSUME NEW n \in Nodes, Evaluate(n) PROVE TypeOK'
    <2>1. roundNow \in Nat
        BY <1>3 DEF Evaluate
    <2>2. PICK c \in Breach : rt' = [rt EXCEPT ![n] = c]
        <3>1. OnBreach(rt[n], TRUE, Confirm, roundNow) \in Breach
            BY <2>1, CellTypes
        <3>2. OnClear(rt[n], TRUE, roundNow) \in Breach
            BY <2>1, CellTypes
        <3> QED
            BY <1>3, <3>1, <3>2 DEF Evaluate
    <2>3. rt' \in [Nodes -> Breach]
        BY <2>2
    <2>4. lastFired' \in [Nodes -> MaybeTime]
        BY <1>3, <2>1 DEF Evaluate
    <2>5. missed' \in [Nodes -> Nat]
        BY <1>3 DEF Evaluate
    <2> QED
        BY <1>3, <2>3, <2>4, <2>5 DEF Evaluate
<1>4. CASE EndRound
    <2>1. \A n \in Nodes : Pruned(rt[n], roundNow) \in Breach
        <3> SUFFICES ASSUME NEW n \in Nodes PROVE Pruned(rt[n], roundNow) \in Breach
            OBVIOUS
        <3>1. roundNow \in Nat /\ rt[n] \in Breach
            BY <1>4 DEF EndRound
        <3> QED
            BY <3>1, CellTypes
    <2>2. rt' \in [Nodes -> Breach]
        BY <1>4, <2>1 DEF EndRound
    <2> QED
        BY <1>4, <2>2 DEF EndRound
<1>5. ASSUME NEW n \in Nodes, Report(n) \/ Revoke(n) \/ Register(n) PROVE TypeOK'
    BY <1>5 DEF Report, Revoke, Register
<1>6. CASE Restart
    BY <1>6 DEF Restart, Fresh, Breach
<1>7. CASE Tick
    BY <1>7 DEF Tick
<1>8. CASE UNCHANGED vars
    BY <1>8 DEF vars
<1> QED
    BY <1>1, <1>2, <1>3, <1>4, <1>5, <1>6, <1>7, <1>8 DEF Next

-----------------------------------------------------------------------------

\* A step of the patrol on one node keeps what the cell remembers of its last
\* alert, or replaces it by a new alert.
LEMMA EvaluateRemembers ==
    ASSUME SpacingInv, TypeOK', NEW m \in Nodes, Evaluate(m), NEW n \in Nodes
    PROVE  /\ lastFired'[n] <= roundNow'
           /\ rt'[n].recovered_at <= roundNow'
           /\ lastFired'[n] # NoTime => Remembered(n)'
<1>1. roundNow' = roundNow /\ roundNow \in Nat
    BY DEF Evaluate, SpacingInv, TypeOK
<1>2. rt[n] \in Breach /\ lastFired[n] \in Nat \cup {-1}
    BY DEF SpacingInv, TypeOK
<1>3. /\ lastFired[n] <= roundNow
      /\ rt[n].recovered_at <= roundNow
      /\ lastFired[n] # NoTime => Remembered(n)
    BY DEF SpacingInv
<1>4. CASE n # m
    <2>1. rt'[n] = rt[n] /\ lastFired'[n] = lastFired[n]
        BY <1>4 DEF Evaluate, SpacingInv, TypeOK
    <2> QED
        BY <1>1, <1>3, <2>1 DEF Remembered
<1>5. CASE n = m /\ TooSilent(n)
    <2>1. rt'[n] = OnBreach(rt[n], TRUE, Confirm, roundNow)
        BY <1>5 DEF Evaluate, SpacingInv, TypeOK
    <2>2. rt'[n].recovered_at = rt[n].recovered_at
        BY <1>2, <2>1 DEF OnBreach, Breach
    <2>3. CASE Fires(n)
        <3>1. rt'[n].firing /\ lastFired'[n] = roundNow
            BY <1>2, <1>5, <2>1, <2>3 DEF Fires, OnBreach, Breach, Evaluate, SpacingInv, TypeOK
        <3>2. Remembered(n)'
            BY <3>1 DEF Remembered
        <3> QED
            BY <1>1, <1>3, <2>2, <3>1, <3>2
    <2>4. CASE ~Fires(n)
        <3>1. lastFired'[n] = lastFired[n]
            BY <1>5, <2>4 DEF Evaluate, SpacingInv, TypeOK
        <3>2. rt'[n].since = BreachStart(rt[n], roundNow) /\ rt'[n].firing = rt[n].firing
            BY <1>2, <1>5, <2>1, <2>4 DEF Fires, OnBreach, Breach
        <3>3. Remembered(n) => Remembered(n)'
            BY <1>1, <1>2, <1>3, <2>2, <3>1, <3>2 DEF Remembered, BreachStart, Breach
        <3> QED
            BY <1>1, <1>3, <2>2, <3>1, <3>3
    <2> QED
        BY <2>3, <2>4
<1>6. CASE n = m /\ ~TooSilent(n)
    <2>1. rt'[n] = OnClear(rt[n], TRUE, roundNow) /\ lastFired'[n] = lastFired[n]
        BY <1>6 DEF Evaluate, Fires, SpacingInv, TypeOK
    <2>2. /\ rt'[n].since = NoTime
          /\ rt'[n].recovered_at = IF rt[n].firing THEN roundNow ELSE rt[n].recovered_at
        BY <2>1 DEF OnClear
    <2>3. Remembered(n) => Remembered(n)'
        BY <1>1, <1>2, <1>3, <2>1, <2>2 DEF Remembered, Breach
    <2>4. rt'[n].recovered_at <= roundNow
        BY <1>1, <1>2, <1>3, <2>2 DEF Breach
    <2> QED
        BY <1>1, <1>3, <2>1, <2>3, <2>4
<1> QED
    BY <1>4, <1>5, <1>6

\* The end of a round forgets a recovery only when the flap window is over.
LEMMA PruneRemembers ==
    ASSUME SpacingInv, EndRound, NEW n \in Nodes
    PROVE  /\ lastFired'[n] <= roundNow'
           /\ rt'[n].recovered_at <= roundNow'
           /\ lastFired'[n] # NoTime => Remembered(n)'
<1> USE DEF SpacingInv, TypeOK
<1>1. roundNow' = roundNow /\ roundNow \in Nat /\ lastFired' = lastFired
    BY DEF EndRound
<1>2. rt'[n] = Pruned(rt[n], roundNow)
    BY DEF EndRound
<1>3. CASE Retained(rt[n], roundNow)
    <2>1. rt'[n] = rt[n]
        BY <1>2, <1>3 DEF Pruned
    <2> QED
        BY <1>1, <2>1 DEF Remembered
<1>4. CASE ~Retained(rt[n], roundNow)
    <2>1. rt'[n] = Fresh
        BY <1>2, <1>4 DEF Pruned
    <2>2. lastFired[n] # NoTime => roundNow >= lastFired[n] + FlapWindow
        BY <1>1, <1>4 DEF Retained, RecentlyRecovered, Remembered, Breach
    <2> QED
        BY <1>1, <2>1, <2>2 DEF Remembered, Fresh
<1> QED
    BY <1>3, <1>4

\* SpacingInv is inductive.
LEMMA SpacingStep == SpacingInv /\ [Next]_vars => SpacingInv'
<1> SUFFICES ASSUME SpacingInv, [Next]_vars PROVE SpacingInv'
    OBVIOUS
<1>0. TypeOK'
    BY TypeStep DEF SpacingInv
<1>1. CASE WakeUp
    BY <1>0, <1>1 DEF WakeUp, SpacingInv, TypeOK, Remembered, Breach
<1>2. CASE Select
    BY <1>0, <1>2 DEF Select, SpacingInv, TypeOK, Remembered
<1>3. ASSUME NEW m \in Nodes, Evaluate(m) PROVE SpacingInv'
    <2>1. roundNow' <= now'
        BY <1>3 DEF Evaluate, SpacingInv
    <2> QED
        BY <1>0, <1>3, <2>1, EvaluateRemembers DEF SpacingInv
<1>4. CASE EndRound
    <2>1. roundNow' <= now'
        BY <1>4 DEF EndRound, SpacingInv
    <2> QED
        BY <1>0, <1>4, <2>1, PruneRemembers DEF SpacingInv
<1>5. ASSUME NEW m \in Nodes, Report(m) \/ Revoke(m) \/ Register(m) PROVE SpacingInv'
    BY <1>0, <1>5 DEF Report, Revoke, Register, SpacingInv, TypeOK, Remembered
<1>6. CASE Restart
    BY <1>0, <1>6 DEF Restart, Fresh, SpacingInv, TypeOK
<1>7. CASE Tick
    BY <1>0, <1>7 DEF Tick, SpacingInv, TypeOK, Remembered
<1>8. CASE UNCHANGED vars
    BY <1>0, <1>8 DEF vars, SpacingInv, TypeOK, Remembered
<1> QED
    BY <1>1, <1>2, <1>3, <1>4, <1>5, <1>6, <1>7, <1>8 DEF Next

\* A step that fires finds the last alert at least FlapRefire away.
LEMMA FiringSpaced ==
    ASSUME SpacingInv, NEW n \in Nodes, Evaluate(n), Fires(n), lastFired[n] # NoTime
    PROVE  roundNow - lastFired[n] >= FlapRefire
<1> USE DEF SpacingInv, TypeOK
<1>1. roundNow \in Nat /\ lastFired[n] \in Nat /\ rt[n] \in Breach
    BY DEF Evaluate
<1>2. /\ ~rt[n].firing
      /\ roundNow - BreachStart(rt[n], roundNow)
            >= offline_fire_debounce(TRUE, Confirm, rt[n], roundNow)
    BY DEF Fires, MustFire
<1>3. CASE RecentlyRecovered(rt[n], roundNow)
    <2>1. roundNow - BreachStart(rt[n], roundNow) >= FlapRefire
        BY <1>1, <1>2, <1>3 DEF offline_fire_debounce, BreachStart, Breach
    <2>2. BreachStart(rt[n], roundNow) >= lastFired[n] \/ roundNow >= lastFired[n] + FlapWindow
        BY <1>1, <1>2 DEF Remembered, BreachStart, Breach
    <2> QED
        BY <1>1, <2>1, <2>2 DEF BreachStart, Breach
<1>4. CASE ~RecentlyRecovered(rt[n], roundNow)
    BY <1>1, <1>2, <1>4 DEF Remembered, RecentlyRecovered, Breach
<1> QED
    BY <1>3, <1>4

\* No step breaks the spacing.
LEMMA SpacedStep ==
    ASSUME SpacingInv, [Next]_vars, NEW n \in Nodes, Alerts(n), lastFired[n] # NoTime
    PROVE  lastFired'[n] - lastFired[n] >= FlapRefire
<1> USE DEF SpacingInv, TypeOK
<1>1. lastFired' # lastFired
    BY DEF Alerts
<1>2. ~Restart
    BY DEF Restart, Alerts
<1>3. PICK m \in Nodes : Evaluate(m)
    BY <1>1, <1>2 DEF Next, vars, WakeUp, Select, EndRound, Report, Revoke, Register, Tick
<1>4. m = n /\ Fires(n) /\ lastFired'[n] = roundNow
    BY <1>3 DEF Evaluate, Alerts
<1> QED
    BY <1>3, <1>4, FiringSpaced

-----------------------------------------------------------------------------

\* The patrol starts with nothing to remember.
LEMMA SpacingInit == Init => SpacingInv
BY DEF Init, SpacingInv, TypeOK, Fresh, Breach

\* Every reachable state of the patrol is well typed: cells, snapshot and
\* history keep the shape the source gives them.
THEOREM PatrolTypeCorrect == Spec => []TypeOK
<1>1. SpacingInv => TypeOK
    BY DEF SpacingInv
<1> QED
    BY <1>1, SpacingInit, SpacingStep, PTL DEF Spec

\* Two offline alerts for the same node in one run of the server are at least
\* FlapRefire apart (offline_fire_debounce together with prune_runtime), for
\* every set of nodes and every setting of the times.
THEOREM AlertsAreSpaced == Spec => AlertsSpaced
<1>1. SpacingInv /\ [Next]_vars
        => [\A n \in Nodes :
              Alerts(n) /\ lastFired[n] # NoTime => lastFired'[n] - lastFired[n] >= FlapRefire]_vars
    BY SpacedStep
<1> QED
    BY <1>1, SpacingInit, SpacingStep, PTL DEF Spec, AlertsSpaced

-----------------------------------------------------------------------------
(* The rounds and the snapshots.                                           *)

\* The row of node n was too old when its breach began.
OldAtStart(n) == seen[n] = NoTime \/ rt[n].since - seen[n] > Grace

\* What node n has reported since the last look at it is not older than the
\* look could be.
UnseenIsYoung(n) ==
    \/ last_seen[n] = seen[n]
    \/ roundNow - last_seen[n] <= IF pc = "select" THEN LongestBlind(n) ELSE LongestBlind(n) - MaxGap

\* The last round is recent; a start is followed by a round at once; a breach
\* starts in a round that read an old row; and what a node in breach, or one
\* that is about to be evaluated, reported since its row was read is young.
RoundInv ==
    /\ roundNow # NoTime => now - roundNow <= MaxGap
    /\ roundNow = NoTime => pc = "sleep"
    /\ pc # "scan" => todo = {}
    /\ \A n \in Nodes :
          /\ seen[n] <= last_seen[n] /\ last_seen[n] <= now /\ observedFrom[n] <= now
          /\ roundNow = NoTime => observedFrom[n] = now
          /\ rt[n].since <= roundNow
          /\ pc = "select" => rt[n].since < roundNow
          /\ rt[n].since # NoTime /\ rt[n].since = roundNow => OldAtStart(n)
          /\ n \in todo \/ (rt[n].since # NoTime /\ rt[n].since = roundNow) =>
                last_seen[n] = seen[n] \/ last_seen[n] >= roundNow
          /\ rt[n].since # NoTime /\ observedFrom[n] <= rt[n].since => UnseenIsYoung(n)

\* The last row read of a node in breach was too old when the breach began, or
\* is so young that its evaluation will end the breach.
ConfirmInv ==
    \A n \in watched \cup todo :
        /\ rt[n].since # NoTime /\ observedFrom[n] <= rt[n].since
        /\ LongestBlind(n) <= Grace
        => OldAtStart(n) \/ (n \in todo /\ ~TooSilent(n))

\* The wait that is asked of a breach at most.
LongestDebounce(n) ==
    LaterOf(Confirm, IF rt[n].recovered_at = NoTime THEN 0 ELSE FlapRefire)

\* The breach of node n began at the first look after the grace was over.
BreachInTime(n) ==
    rt[n].since # NoTime /\ rt[n].since <= SilentFrom(n) + Grace + LongestBlind(n)

\* The silence of node n has not outlasted the time it may go without an alert.
NotYetDue(n, bound) == rt[n].firing \/ roundNow - SilentFrom(n) < bound

\* A watched node that was silent for more than the grace at the last look at
\* it has a breach, and fires unless the silence is young.  During a round, what
\* is known of a node that is still to be looked at is a wait older.
OutageInv ==
    \A n \in watched :
        LET due == Grace + LongestBlind(n) + LongestDebounce(n) IN
        IF pc = "select" \/ n \in todo
        THEN /\ roundNow - SilentFrom(n) > Grace + LongestBlind(n) => BreachInTime(n)
             /\ pc = "select" => NotYetDue(n, due + MaxGap)
        ELSE roundNow # NoTime /\ roundNow - SilentFrom(n) > Grace + LongestBlind(n) - MaxGap =>
                BreachInTime(n) /\ NotYetDue(n, due)

-----------------------------------------------------------------------------

\* Each round without rows lets a node go unseen for one wait more.
LEMMA BlindGrows ==
    ASSUME TypeOK, NEW n \in Nodes
    PROVE  /\ LongestBlind(n) \in Nat /\ LongestBlind(n) >= MaxGap /\ MaxGap \in Nat
           /\ missed'[n] = missed[n] => LongestBlind(n)' = LongestBlind(n)
           /\ missed'[n] = missed[n] + 1 => LongestBlind(n)' = LongestBlind(n) + MaxGap
           /\ missed'[n] = 0 => LongestBlind(n)' = MaxGap
<1>1. PICK k \in Nat : k = missed[n]
    BY DEF TypeOK
<1>2. k * MaxGap \in Nat /\ (k + 1) * MaxGap = k * MaxGap + MaxGap
      /\ ((k + 1) + 1) * MaxGap = (k + 1) * MaxGap + MaxGap /\ (0 + 1) * MaxGap = MaxGap
    OBVIOUS
<1> QED
    BY <1>1, <1>2 DEF LongestBlind

\* What Evaluate does to the cells.
LEMMA EvaluateCells ==
    ASSUME TypeOK, NEW m \in Nodes, Evaluate(m)
    PROVE  /\ roundNow \in Nat /\ rt[m] \in Breach
           /\ \A n \in Nodes : n # m => rt'[n] = rt[n]
           /\ TooSilent(m) => rt'[m] = OnBreach(rt[m], TRUE, Confirm, roundNow)
           /\ ~TooSilent(m) => rt'[m] = OnClear(rt[m], TRUE, roundNow)
BY DEF Evaluate, TypeOK

\* The start of a breach is not after the round.
LEMMA StartNotAfter ==
    ASSUME SpacingInv, RoundInv, NEW m \in Nodes, Evaluate(m), NEW n \in Nodes
    PROVE  rt'[n].since <= roundNow
<1>0. TypeOK
    BY DEF SpacingInv
<1>1. CASE n # m
    BY <1>0, <1>1, EvaluateCells DEF RoundInv
<1>2. CASE n = m /\ TooSilent(m)
    <2>1. rt'[m].since = BreachStart(rt[m], roundNow) /\ roundNow \in Nat
        BY <1>0, <1>2, EvaluateCells DEF OnBreach, Breach
    <2> QED
        BY <1>2, <2>1 DEF BreachStart, RoundInv
<1>3. CASE n = m /\ ~TooSilent(m)
    <2>1. rt'[m] = OnClear(rt[m], TRUE, roundNow) /\ roundNow \in Nat
        BY <1>0, <1>3, EvaluateCells
    <2> QED
        BY <1>3, <2>1 DEF OnClear
<1> QED
    BY <1>1, <1>2, <1>3

\* A look at a node leaves nothing old unseen; a breach that it starts is told
\* by the row that was read.
LEMMA EvaluateSees ==
    ASSUME SpacingInv, RoundInv, NEW m \in Nodes, Evaluate(m), NEW n \in Nodes, rt'[n].since # NoTime
    PROVE  /\ rt'[n].since = roundNow' => OldAtStart(n)'
           /\ rt'[n].since = roundNow' =>
                 last_seen'[n] = seen'[n] \/ last_seen'[n] >= roundNow'
           /\ observedFrom'[n] <= rt'[n].since => UnseenIsYoung(n)'
<1>0. TypeOK
    BY DEF SpacingInv
<1>1. /\ pc = "scan" /\ m \in todo /\ roundNow \in Nat
      /\ UNCHANGED <<last_seen, pc, roundNow, seen, observedFrom>>
    BY <1>0, EvaluateCells DEF Evaluate
<1>2. CASE n # m
    <2>1. rt'[n] = rt[n] /\ missed'[n] = missed[n]
        BY <1>0, <1>2, EvaluateCells DEF Evaluate, TypeOK
    <2>2. LongestBlind(n)' = LongestBlind(n)
        BY <1>0, <2>1, BlindGrows
    <2>3. /\ rt[n].since = roundNow => OldAtStart(n)
          /\ rt[n].since = roundNow => last_seen[n] = seen[n] \/ last_seen[n] >= roundNow
          /\ observedFrom[n] <= rt[n].since => UnseenIsYoung(n)
        BY <2>1 DEF RoundInv
    <2> QED
        BY <1>1, <2>1, <2>2, <2>3 DEF OldAtStart, UnseenIsYoung
<1>3. CASE n = m
    <2>1. TooSilent(m)
        <3>1. ASSUME ~TooSilent(m) PROVE rt'[m].since = NoTime
            <4>1. rt'[m] = OnClear(rt[m], TRUE, roundNow)
                BY <1>0, <3>1, EvaluateCells
            <4> QED
                BY <4>1 DEF OnClear
        <3> QED
            BY <1>3, <3>1
    <2>2. missed'[n] = missed[n]
        BY <1>0, <1>3, <2>1 DEF Evaluate, TypeOK
    <2>3. LongestBlind(n)' = LongestBlind(n) /\ LongestBlind(n) >= MaxGap /\ LongestBlind(n) \in Nat
        BY <1>0, <2>2, BlindGrows
    <2>4. last_seen[n] = seen[n] \/ last_seen[n] >= roundNow
        BY <1>1, <1>3 DEF RoundInv
    <2>5. UnseenIsYoung(n)'
        BY <1>0, <1>1, <2>3, <2>4 DEF UnseenIsYoung, TypeOK
    <2>6. rt'[n].since = roundNow => OldAtStart(n)'
        BY <1>1, <1>3, <2>1 DEF OldAtStart, TooSilent
    <2> QED
        BY <1>1, <2>4, <2>5, <2>6
<1> QED
    BY <1>2, <1>3

\* RoundInv is inductive.
LEMMA RoundStep == SpacingInv /\ RoundInv /\ [Next]_vars => RoundInv'
<1> SUFFICES ASSUME SpacingInv, RoundInv, [Next]_vars PROVE RoundInv'
    OBVIOUS
<1>0. /\ TypeOK /\ TypeOK' /\ roundNow <= now
    BY SpacingStep DEF SpacingInv
<1>b. \A n \in Nodes :
        /\ LongestBlind(n) \in Nat /\ LongestBlind(n) >= MaxGap /\ MaxGap \in Nat
        /\ missed'[n] = missed[n] => LongestBlind(n)' = LongestBlind(n)
        /\ missed'[n] = missed[n] + 1 => LongestBlind(n)' = LongestBlind(n) + MaxGap
        /\ missed'[n] = 0 => LongestBlind(n)' = MaxGap
    BY <1>0, BlindGrows
<1>s. \A n \in Nodes : rt[n].since \in Nat \cup {-1}
    BY <1>0 DEF TypeOK, Breach
<1>1. CASE WakeUp
    <2>1. /\ pc = "sleep" /\ pc' = "select" /\ roundNow' = now /\ todo = {}
          /\ UNCHANGED <<now, last_seen, rt, seen, todo, observedFrom, missed>>
        BY <1>1 DEF WakeUp, RoundInv
    <2>2. \A n \in Nodes : rt[n].since < now
        BY <1>0, <1>1, <1>s DEF WakeUp, RoundInv, TypeOK
    <2>3. ASSUME NEW n \in Nodes, rt[n].since # NoTime, observedFrom[n] <= rt[n].since
          PROVE  UnseenIsYoung(n)'
        <3>1. roundNow \in Nat /\ now - roundNow <= MaxGap /\ now \in Nat
            BY <1>0, <1>s, <2>3 DEF RoundInv, TypeOK
        <3>2. last_seen[n] = seen[n] \/ roundNow - last_seen[n] <= LongestBlind(n) - MaxGap
            BY <2>1, <2>3 DEF RoundInv, UnseenIsYoung
        <3>3. LongestBlind(n)' = LongestBlind(n)
            BY <1>b, <2>1
        <3>4. now - last_seen[n] <= LongestBlind(n) \/ last_seen[n] = seen[n]
            BY <1>0, <1>b, <3>1, <3>2 DEF TypeOK
        <3> QED
            BY <2>1, <3>3, <3>4 DEF UnseenIsYoung
    <2>4. \A n \in Nodes : rt[n].since # now
        BY <1>0, <1>s, <2>2 DEF TypeOK
    <2>5. now \in Nat
        BY <1>0 DEF TypeOK
    <2>6. \A n \in Nodes : rt[n].since <= now
        BY <1>s, <2>2, <2>5
    <2>7. now - now <= MaxGap /\ now # NoTime
        BY <2>5, <1>b
    <2> QED
        BY <2>1, <2>2, <2>3, <2>4, <2>6, <2>7 DEF RoundInv
<1>2. CASE Select
    <2>1. /\ pc = "select" /\ pc' = "scan" /\ todo = {}
          /\ UNCHANGED <<now, last_seen, rt, roundNow, observedFrom>>
        BY <1>2 DEF Select, RoundInv
    <2>2. \A n \in Nodes : rt[n].since < roundNow /\ rt[n].since # roundNow
        BY <1>0, <1>s, <2>1 DEF RoundInv, TypeOK
    <2>3. CASE seen' = last_seen /\ todo' = watched
        <3>1. \A n \in Nodes : seen'[n] = last_seen'[n]
            BY <2>1, <2>3
        <3>2. \A n \in Nodes : UnseenIsYoung(n)'
            BY <3>1 DEF UnseenIsYoung
        <3> QED
            BY <1>0, <2>1, <2>2, <2>3, <3>1, <3>2 DEF RoundInv, TypeOK
    <2>4. CASE missed' = [n \in Nodes |-> missed[n] + 1] /\ UNCHANGED <<seen, todo>>
        <3>1. ASSUME NEW n \in Nodes, rt[n].since # NoTime, observedFrom[n] <= rt[n].since
              PROVE  UnseenIsYoung(n)'
            <4>1. LongestBlind(n)' - MaxGap = LongestBlind(n)
                BY <1>b, <2>4
            <4> QED
                BY <2>1, <2>4, <3>1, <4>1 DEF RoundInv, UnseenIsYoung
        <3> QED
            BY <2>1, <2>2, <2>4, <3>1 DEF RoundInv
    <2> QED
        BY <1>2, <2>3, <2>4 DEF Select
<1>3. ASSUME NEW m \in Nodes, Evaluate(m) PROVE RoundInv'
    <2>1. /\ pc = "scan" /\ todo' = todo \ {m} /\ roundNow \in Nat
          /\ UNCHANGED <<now, watched, last_seen, pc, roundNow, seen, observedFrom>>
        BY <1>0, <1>3, EvaluateCells DEF Evaluate
    <2>2. \A n \in Nodes : rt'[n].since <= roundNow
        BY <1>3, StartNotAfter
    <2>3. \A n \in Nodes : rt'[n].since # NoTime =>
            /\ rt'[n].since = roundNow' => OldAtStart(n)'
            /\ rt'[n].since = roundNow' => last_seen'[n] = seen'[n] \/ last_seen'[n] >= roundNow'
            /\ observedFrom'[n] <= rt'[n].since => UnseenIsYoung(n)'
        BY <1>3, EvaluateSees
    <2> QED
        BY <2>1, <2>2, <2>3 DEF RoundInv
<1>4. CASE EndRound
    <2>1. /\ pc = "scan" /\ pc' = "sleep" /\ todo = {} /\ roundNow \in Nat
          /\ UNCHANGED <<now, watched, last_seen, roundNow, seen, todo, observedFrom, missed>>
        BY <1>0, <1>4 DEF EndRound, TypeOK
    <2>2. \A n \in Nodes : rt'[n] = rt[n] \/ rt'[n].since = NoTime
        BY <1>0, <1>4 DEF EndRound, TypeOK, Pruned, Fresh
    <2>3. \A n \in Nodes : rt'[n].since <= roundNow
        BY <2>1, <2>2 DEF RoundInv
    <2>4. ASSUME NEW n \in Nodes, rt'[n].since # NoTime
          PROVE  /\ rt'[n] = rt[n] /\ (OldAtStart(n) => OldAtStart(n)')
                 /\ UnseenIsYoung(n) => UnseenIsYoung(n)'
        <3>1. rt'[n] = rt[n]
            BY <2>2, <2>4
        <3>2. LongestBlind(n)' = LongestBlind(n)
            BY <1>b, <2>1
        <3> QED
            BY <2>1, <3>1, <3>2 DEF OldAtStart, UnseenIsYoung
    <2> QED
        BY <2>1, <2>3, <2>4 DEF RoundInv
<1>5. ASSUME NEW m \in Nodes, Report(m) PROVE RoundInv'
    <2>1. /\ last_seen' = [last_seen EXCEPT ![m] = now]
          /\ UNCHANGED <<now, rt, pc, roundNow, seen, todo, observedFrom, missed>>
        BY <1>5 DEF Report
    <2>2. \A n \in Nodes : n # m => last_seen'[n] = last_seen[n]
        BY <1>0, <2>1 DEF TypeOK
    <2>3. last_seen'[m] = now /\ now \in Nat /\ roundNow \in Nat \cup {-1} /\ roundNow <= now
        BY <1>0, <2>1 DEF TypeOK
    <2>4. \A n \in Nodes : LongestBlind(n)' = LongestBlind(n)
        BY <1>b, <2>1
    <2>5. UnseenIsYoung(m)'
        BY <1>b, <2>3, <2>4, <2>1 DEF UnseenIsYoung
    <2>6. \A n \in Nodes : OldAtStart(n)' = OldAtStart(n)
        BY <2>1 DEF OldAtStart
    <2>7. \A n \in Nodes : n # m => UnseenIsYoung(n)' = UnseenIsYoung(n)
        BY <2>1, <2>2, <2>4 DEF UnseenIsYoung
    <2>8. seen[m] <= now
        BY <1>0, <2>3 DEF RoundInv, TypeOK
    <2> QED
        BY <2>1, <2>2, <2>3, <2>5, <2>6, <2>7, <2>8 DEF RoundInv
<1>6. ASSUME NEW m \in Nodes, Revoke(m) PROVE RoundInv'
    <2>1. UNCHANGED <<now, last_seen, rt, pc, roundNow, seen, todo, observedFrom, missed>>
        BY <1>6 DEF Revoke
    <2> QED
        BY <2>1 DEF RoundInv, UnseenIsYoung, OldAtStart, LongestBlind
<1>7. ASSUME NEW m \in Nodes, Register(m) PROVE RoundInv'
    <2>1. /\ observedFrom' = [observedFrom EXCEPT ![m] = now] /\ missed' = [missed EXCEPT ![m] = 0]
          /\ UNCHANGED <<now, last_seen, rt, pc, roundNow, seen, todo>>
        BY <1>7 DEF Register
    <2>2. \A n \in Nodes : n # m => observedFrom'[n] = observedFrom[n] /\ missed'[n] = missed[n]
        BY <1>0, <2>1 DEF TypeOK
    <2>3. observedFrom'[m] = now /\ missed'[m] = 0 /\ now \in Nat /\ roundNow \in Nat \cup {-1}
        BY <1>0, <2>1 DEF TypeOK
    <2>4. \A n \in Nodes : OldAtStart(n)' = OldAtStart(n)
        BY <2>1 DEF OldAtStart
    <2>5. \A n \in Nodes : n # m => UnseenIsYoung(n)' = UnseenIsYoung(n)
        BY <1>b, <2>1, <2>2 DEF UnseenIsYoung
    <2>6. ASSUME rt[m].since # NoTime, now <= rt[m].since PROVE UnseenIsYoung(m)'
        <3>1. rt[m].since = roundNow /\ pc # "select"
            BY <1>0, <1>s, <2>3, <2>6 DEF RoundInv
        <3>2. last_seen[m] = seen[m] \/ last_seen[m] >= roundNow
            BY <2>6, <3>1 DEF RoundInv
        <3>3. LongestBlind(m)' = MaxGap
            BY <1>b, <2>3
        <3> QED
            BY <1>0, <1>b, <2>1, <2>3, <3>1, <3>2, <3>3 DEF UnseenIsYoung, TypeOK
    <2>7. now <= now
        BY <2>3
    <2> QED
        BY <2>1, <2>2, <2>3, <2>4, <2>5, <2>6, <2>7 DEF RoundInv
<1>8. CASE Restart
    <2>1. /\ pc' = "sleep" /\ roundNow' = NoTime /\ todo' = {} /\ UNCHANGED <<now, last_seen, seen>>
          /\ \A n \in Nodes : observedFrom'[n] = now /\ rt'[n].since = NoTime
        BY <1>8 DEF Restart, Fresh
    <2>2. now <= now /\ NoTime <= NoTime
        BY <1>0 DEF TypeOK
    <2> QED
        BY <2>1, <2>2 DEF RoundInv
<1>9. CASE Tick
    <2>1. /\ now' = now + 1 /\ roundNow # NoTime /\ now - roundNow < MaxGap
          /\ UNCHANGED <<last_seen, rt, pc, roundNow, seen, todo, observedFrom, missed>>
        BY <1>9 DEF Tick
    <2>2. now' - roundNow <= MaxGap /\ \A n \in Nodes : last_seen[n] <= now' /\ observedFrom[n] <= now'
        BY <1>0, <1>b, <2>1 DEF RoundInv, TypeOK
    <2> QED
        BY <2>1, <2>2 DEF RoundInv, UnseenIsYoung, OldAtStart, LongestBlind
<1>10. CASE UNCHANGED vars
    BY <1>10 DEF vars, RoundInv, UnseenIsYoung, OldAtStart, LongestBlind
<1> QED
    BY <1>1, <1>2, <1>3, <1>4, <1>5, <1>6, <1>7, <1>8, <1>9, <1>10 DEF Next

\* A report that a look can have left unseen is young enough for the grace,
\* where what may go unseen fits into it; so a row that is not the one of the
\* last look ends the breach.
LEMMA ConfirmStep ==
    ASSUME SpacingInv, RoundInv, ConfirmInv, [Next]_vars
    PROVE  ConfirmInv'
<1>0. /\ TypeOK /\ TypeOK' /\ roundNow <= now
    BY SpacingStep DEF SpacingInv
<1>b. \A n \in Nodes :
        /\ LongestBlind(n) \in Nat /\ LongestBlind(n) >= MaxGap /\ MaxGap \in Nat
        /\ missed'[n] = missed[n] => LongestBlind(n)' = LongestBlind(n)
        /\ missed'[n] = missed[n] + 1 => LongestBlind(n)' = LongestBlind(n) + MaxGap
    BY <1>0, BlindGrows
<1>same. ASSUME UNCHANGED <<seen, observedFrom, missed>>, watched' \subseteq watched, UNCHANGED todo,
                UNCHANGED roundNow \/ todo = {},
                \A n \in Nodes : rt'[n] = rt[n] \/ rt'[n].since = NoTime
         PROVE  ConfirmInv'
    <2> SUFFICES ASSUME NEW n \in watched \cup todo, rt'[n].since # NoTime,
                        observedFrom[n] <= rt'[n].since, LongestBlind(n)' <= Grace
                 PROVE  OldAtStart(n)' \/ (n \in todo /\ ~TooSilent(n)')
        BY <1>same DEF ConfirmInv
    <2>1. n \in Nodes
        BY <1>0 DEF TypeOK
    <2>2. rt'[n] = rt[n] /\ LongestBlind(n)' = LongestBlind(n)
        BY <1>same, <1>b, <2>1
    <2>3. OldAtStart(n) \/ (n \in todo /\ ~TooSilent(n))
        BY <2>2 DEF ConfirmInv
    <2> QED
        BY <1>same, <2>2, <2>3 DEF OldAtStart, TooSilent
<1>1. CASE WakeUp
    BY <1>1, <1>same DEF WakeUp, RoundInv
<1>2. CASE Select
    <2>1. /\ pc = "select" /\ todo = {}
          /\ UNCHANGED <<watched, last_seen, rt, roundNow, observedFrom>>
        BY <1>2 DEF Select, RoundInv
    <2>2. CASE seen' = last_seen /\ todo' = watched /\ UNCHANGED missed
        <3> SUFFICES ASSUME NEW n \in watched, rt[n].since # NoTime,
                            observedFrom[n] <= rt[n].since, LongestBlind(n)' <= Grace
                     PROVE  OldAtStart(n)' \/ ~TooSilent(n)'
            BY <2>1, <2>2 DEF ConfirmInv
        <3>1. n \in Nodes /\ roundNow \in Nat
            BY <1>0, <2>1 DEF RoundInv, TypeOK
        <3>2. LongestBlind(n) <= Grace /\ LongestBlind(n) \in Nat
            BY <1>b, <2>2, <3>1
        <3>3. OldAtStart(n) /\ UnseenIsYoung(n)
            BY <2>1, <3>1, <3>2 DEF ConfirmInv, RoundInv
        <3>4. CASE last_seen[n] = seen[n]
            BY <2>1, <2>2, <3>3, <3>4 DEF OldAtStart
        <3>5. CASE roundNow - last_seen[n] <= LongestBlind(n)
            <4>1. last_seen[n] # NoTime => ~TooSilent(n)'
                BY <1>0, <2>1, <2>2, <3>1, <3>2, <3>5 DEF TooSilent, TypeOK
            <4>2. last_seen[n] = NoTime => OldAtStart(n)'
                BY <2>2 DEF OldAtStart
            <4> QED
                BY <4>1, <4>2
        <3> QED
            BY <2>1, <3>3, <3>4, <3>5 DEF UnseenIsYoung
    <2>3. CASE missed' = [n \in Nodes |-> missed[n] + 1] /\ UNCHANGED <<seen, todo>>
        <3> SUFFICES ASSUME NEW n \in watched, rt[n].since # NoTime,
                            observedFrom[n] <= rt[n].since, LongestBlind(n)' <= Grace
                     PROVE  OldAtStart(n)'
            BY <2>1, <2>3 DEF ConfirmInv
        <3>1. n \in Nodes
            BY <1>0 DEF TypeOK
        <3>2. LongestBlind(n) <= Grace
            BY <1>b, <2>3, <3>1
        <3>3. OldAtStart(n)
            BY <2>1, <3>2 DEF ConfirmInv
        <3> QED
            BY <2>1, <2>3, <3>3 DEF OldAtStart
    <2> QED
        BY <1>2, <2>2, <2>3 DEF Select
<1>3. ASSUME NEW m \in Nodes, Evaluate(m) PROVE ConfirmInv'
    <2>1. /\ pc = "scan" /\ m \in todo /\ todo' = todo \ {m}
          /\ UNCHANGED <<now, watched, last_seen, pc, roundNow, seen, observedFrom>>
        BY <1>3 DEF Evaluate
    <2> SUFFICES ASSUME NEW n \in watched \cup todo', rt'[n].since # NoTime,
                        observedFrom[n] <= rt'[n].since, LongestBlind(n)' <= Grace
                 PROVE  OldAtStart(n)' \/ (n \in todo' /\ ~TooSilent(n)')
        BY <2>1 DEF ConfirmInv
    <2>2. n \in Nodes /\ n \in watched \cup todo
        BY <1>0, <2>1 DEF TypeOK
    <2>3. CASE n # m
        <3>1. rt'[n] = rt[n] /\ missed'[n] = missed[n]
            BY <1>0, <1>3, <2>2, <2>3, EvaluateCells DEF Evaluate, TypeOK
        <3>2. LongestBlind(n)' = LongestBlind(n)
            BY <1>b, <2>2, <3>1
        <3>3. OldAtStart(n) \/ (n \in todo /\ ~TooSilent(n))
            BY <2>2, <3>1, <3>2 DEF ConfirmInv
        <3> QED
            BY <2>1, <2>3, <3>1, <3>3 DEF OldAtStart, TooSilent
    <2>4. CASE n = m
        <3>1. TooSilent(m)
            <4>1. ASSUME ~TooSilent(m) PROVE rt'[m].since = NoTime
                <5>1. rt'[m] = OnClear(rt[m], TRUE, roundNow)
                    BY <1>0, <1>3, <4>1, EvaluateCells
                <5> QED
                    BY <5>1 DEF OnClear
            <4> QED
                BY <2>4, <4>1
        <3>2. rt'[m] = OnBreach(rt[m], TRUE, Confirm, roundNow) /\ rt[m] \in Breach
            BY <1>0, <1>3, <3>1, EvaluateCells
        <3>3. rt'[m].since = BreachStart(rt[m], roundNow)
            BY <3>2 DEF OnBreach, Breach
        <3>4. CASE rt[m].since = NoTime
            BY <2>1, <2>4, <3>1, <3>3, <3>4 DEF BreachStart, OldAtStart, TooSilent
        <3>5. CASE rt[m].since # NoTime
            <4>1. rt'[m].since = rt[m].since
                BY <3>3, <3>5 DEF BreachStart
            <4>2. missed'[m] = missed[m]
                BY <1>0, <1>3, <3>1 DEF Evaluate, TypeOK
            <4>3. LongestBlind(m)' = LongestBlind(m)
                BY <1>b, <4>2
            <4>4. OldAtStart(m)
                BY <2>1, <2>4, <3>1, <3>5, <4>1, <4>3 DEF ConfirmInv
            <4> QED
                BY <2>1, <2>4, <4>1, <4>4 DEF OldAtStart
        <3> QED
            BY <3>4, <3>5
    <2> QED
        BY <2>3, <2>4
<1>4. CASE EndRound
    <2>1. \A n \in Nodes : rt'[n] = rt[n] \/ rt'[n].since = NoTime
        BY <1>0, <1>4 DEF EndRound, TypeOK, Pruned, Fresh
    <2> QED
        BY <1>4, <1>same, <2>1 DEF EndRound
<1>5. ASSUME NEW m \in Nodes, Report(m) \/ Revoke(m) PROVE ConfirmInv'
    BY <1>5, <1>same DEF Report, Revoke
<1>6. ASSUME NEW m \in Nodes, Register(m) PROVE ConfirmInv'
    <2>1. /\ observedFrom' = [observedFrom EXCEPT ![m] = now] /\ watched' = watched \cup {m}
          /\ missed' = [missed EXCEPT ![m] = 0] /\ UNCHANGED <<rt, roundNow, seen, todo>>
        BY <1>6 DEF Register
    <2> SUFFICES ASSUME NEW n \in watched' \cup todo, rt[n].since # NoTime,
                        observedFrom'[n] <= rt[n].since, LongestBlind(n)' <= Grace
                 PROVE  OldAtStart(n) \/ (n \in todo /\ ~TooSilent(n))
        BY <2>1 DEF ConfirmInv, OldAtStart, TooSilent
    <2>2. n \in Nodes
        BY <1>0, <2>1 DEF TypeOK
    <2>3. CASE n = m
        <3>1. observedFrom'[m] = now /\ rt[n].since \in Nat \cup {-1} /\ rt[n].since <= roundNow
              /\ roundNow \in Nat \cup {-1} /\ now \in Nat
            BY <1>0, <2>1, <2>2 DEF TypeOK, RoundInv, Breach
        <3>2. rt[n].since = roundNow
            BY <1>0, <2>3, <3>1
        <3> QED
            BY <2>2, <3>2 DEF RoundInv
    <2>4. CASE n # m
        <3>1. observedFrom'[n] = observedFrom[n] /\ missed'[n] = missed[n] /\ n \in watched \cup todo
            BY <1>0, <2>1, <2>2, <2>4 DEF TypeOK
        <3>2. LongestBlind(n)' = LongestBlind(n)
            BY <1>b, <2>2, <3>1
        <3> QED
            BY <3>1, <3>2 DEF ConfirmInv
    <2> QED
        BY <2>3, <2>4
<1>7. CASE Restart
    <2>1. \A n \in Nodes : rt'[n].since = NoTime
        BY <1>7 DEF Restart, Fresh
    <2>2. watched' \cup todo' \subseteq Nodes
        BY <1>0 DEF TypeOK
    <2> QED
        BY <2>1, <2>2 DEF ConfirmInv
<1>8. CASE Tick
    BY <1>8, <1>same DEF Tick
<1>9. CASE UNCHANGED vars
    BY <1>9, <1>same DEF vars
<1> QED
    BY <1>1, <1>2, <1>3, <1>4, <1>5, <1>6, <1>7, <1>8, <1>9 DEF Next

\* A look at a node that is too silent finds its breach begun in time, and
\* raises the alert once that is due.
LEMMA EvaluateDetects ==
    ASSUME SpacingInv, RoundInv, OutageInv, NEW m \in watched, Evaluate(m), m \in Nodes,
           roundNow - SilentFrom(m) > Grace + LongestBlind(m)' - MaxGap
    PROVE  /\ BreachInTime(m)'
           /\ NotYetDue(m, Grace + LongestBlind(m) + LongestDebounce(m))'
<1>0. TypeOK
    BY DEF SpacingInv
<1>1. /\ pc = "scan" /\ m \in todo /\ todo' = todo \ {m}
      /\ UNCHANGED <<now, watched, last_seen, pc, roundNow, seen, observedFrom>>
    BY DEF Evaluate
<1>2. /\ roundNow \in Nat /\ SilentFrom(m) \in Nat /\ rt[m] \in Breach
      /\ seen[m] \in Nat \cup {-1} /\ observedFrom[m] \in Nat /\ SilentFrom(m)' = SilentFrom(m)
    BY <1>0, <1>1, EvaluateCells DEF TypeOK, SilentFrom, LaterOf
<1>3. TooSilent(m)
    <2>1. missed'[m] = missed[m] \/ missed'[m] = 0
        BY <1>0 DEF Evaluate, TypeOK
    <2>2. LongestBlind(m)' \in Int /\ LongestBlind(m)' >= MaxGap /\ MaxGap \in Nat
        BY <1>0, <2>1, BlindGrows
    <2>3. roundNow - SilentFrom(m) > Grace
        BY <1>2, <2>2
    <2> QED
        BY <1>2, <2>3 DEF TooSilent, SilentFrom, LaterOf
<1>4. LongestBlind(m)' = LongestBlind(m) /\ LongestBlind(m) \in Nat /\ LongestBlind(m) >= MaxGap /\ MaxGap \in Nat
    <2>1. missed'[m] = missed[m]
        BY <1>0, <1>3 DEF Evaluate, TypeOK
    <2> QED
        BY <1>0, <2>1, BlindGrows
<1>5. rt'[m] = OnBreach(rt[m], TRUE, Confirm, roundNow)
    BY <1>0, <1>3, EvaluateCells
<1>6. /\ rt'[m].since = BreachStart(rt[m], roundNow)
      /\ rt'[m].recovered_at = rt[m].recovered_at
      /\ rt'[m].firing = (rt[m].firing \/ MustFire(rt[m], TRUE, Confirm, roundNow))
    BY <1>2, <1>5 DEF OnBreach, Breach
<1>7. rt[m].since \in Nat \cup {-1} /\ rt[m].since <= roundNow
    BY <1>2 DEF Breach, RoundInv
<1>8. rt'[m].since \in Nat /\ rt'[m].since <= SilentFrom(m) + Grace + LongestBlind(m)
    <2>1. CASE roundNow - SilentFrom(m) > Grace + LongestBlind(m)
        <3>1. BreachInTime(m)
            BY <1>1, <2>1 DEF OutageInv
        <3> QED
            BY <1>6, <1>7, <3>1 DEF BreachInTime, BreachStart
    <2>2. CASE ~(roundNow - SilentFrom(m) > Grace + LongestBlind(m))
        BY <1>2, <1>4, <1>6, <1>7, <2>2 DEF BreachStart
    <2> QED
        BY <2>1, <2>2
<1>9. BreachInTime(m)'
    BY <1>2, <1>4, <1>8 DEF BreachInTime
<1>10. ASSUME ~rt'[m].firing
       PROVE  roundNow - SilentFrom(m) < Grace + LongestBlind(m) + LongestDebounce(m)'
    <2> DEFINE start == BreachStart(rt[m], roundNow)
               wait == offline_fire_debounce(TRUE, Confirm, rt[m], roundNow)
    <2>1. ~rt[m].firing /\ ~MustFire(rt[m], TRUE, Confirm, roundNow)
        BY <1>6, <1>10
    <2>2. start \in Nat /\ wait \in Nat
        BY <1>2, <1>7 DEF BreachStart, offline_fire_debounce
    <2>3. ~(roundNow - start >= wait)
        BY <2>1 DEF MustFire
    <2>4. wait <= LongestDebounce(m)' /\ LongestDebounce(m)' \in Nat
        BY <1>6 DEF offline_fire_debounce, RecentlyRecovered, LongestDebounce, LaterOf
    <2>5. start <= SilentFrom(m) + Grace + LongestBlind(m)
        BY <1>6, <1>8
    <2> HIDE DEF start, wait
    <2> QED
        BY <1>2, <1>4, <2>2, <2>3, <2>4, <2>5
<1> QED
    BY <1>1, <1>2, <1>4, <1>9, <1>10 DEF NotYetDue

\* A node that is silent under the eyes of the patrol has a breach that began in
\* time and fires in time.
LEMMA OutageStep ==
    ASSUME SpacingInv, RoundInv, OutageInv, [Next]_vars
    PROVE  OutageInv'
<1>0. /\ TypeOK /\ TypeOK' /\ roundNow <= now
    BY SpacingStep DEF SpacingInv
<1>b. \A n \in Nodes :
        /\ LongestBlind(n) \in Nat /\ LongestBlind(n) >= MaxGap /\ MaxGap \in Nat /\ MaxGap > 0
        /\ LongestDebounce(n) \in Nat /\ SilentFrom(n) \in Nat
        /\ missed'[n] = missed[n] => LongestBlind(n)' = LongestBlind(n)
        /\ missed'[n] = missed[n] + 1 => LongestBlind(n)' = LongestBlind(n) + MaxGap
    <2>1. \A n \in Nodes : LongestDebounce(n) \in Nat /\ SilentFrom(n) \in Nat
        BY <1>0 DEF LongestDebounce, SilentFrom, LaterOf, TypeOK
    <2> QED
        BY <1>0, <2>1, BlindGrows
<1>w. watched \subseteq Nodes /\ watched' \subseteq Nodes
    BY <1>0 DEF TypeOK
<1>same. ASSUME NEW n \in Nodes, rt'[n] = rt[n], UNCHANGED <<roundNow, seen>>,
                observedFrom'[n] = observedFrom[n], missed'[n] = missed[n]
         PROVE  /\ LongestBlind(n)' = LongestBlind(n) /\ LongestDebounce(n)' = LongestDebounce(n)
                /\ SilentFrom(n)' = SilentFrom(n) /\ (BreachInTime(n) <=> BreachInTime(n)')
                /\ \A d : NotYetDue(n, d) => rt'[n].firing \/ roundNow' - SilentFrom(n)' < d
    BY <1>b, <1>same DEF LongestDebounce, SilentFrom, BreachInTime, NotYetDue
<1>1. CASE WakeUp
    <2>1. /\ pc = "sleep" /\ pc' = "select" /\ roundNow' = now /\ todo = {}
          /\ UNCHANGED <<now, watched, rt, seen, todo, observedFrom, missed>>
        BY <1>1 DEF WakeUp, RoundInv
    <2>2. ASSUME NEW n \in watched
          PROVE  /\ now - SilentFrom(n) > Grace + LongestBlind(n) => BreachInTime(n)
                 /\ \/ rt[n].firing
                    \/ now - SilentFrom(n) < Grace + LongestBlind(n) + LongestDebounce(n) + MaxGap
        <3>1. n \in Nodes /\ now \in Nat /\ SilentFrom(n) \in Nat
            BY <1>0, <1>b, <1>w, <2>2 DEF TypeOK
        <3>2. CASE roundNow = NoTime
            <4>1. SilentFrom(n) >= now
                BY <1>0, <3>1, <3>2 DEF RoundInv, SilentFrom, LaterOf, TypeOK
            <4> QED
                BY <1>b, <3>1, <4>1
        <3>3. CASE roundNow # NoTime
            <4>1. now - roundNow <= MaxGap /\ roundNow \in Nat
                BY <1>0, <3>3 DEF RoundInv, TypeOK
            <4>2. CASE roundNow - SilentFrom(n) > Grace + LongestBlind(n) - MaxGap
                <5>1. BreachInTime(n) /\ NotYetDue(n, Grace + LongestBlind(n) + LongestDebounce(n))
                    BY <2>1, <3>3, <4>2 DEF OutageInv
                <5> QED
                    BY <1>b, <3>1, <4>1, <5>1 DEF NotYetDue
            <4>3. CASE ~(roundNow - SilentFrom(n) > Grace + LongestBlind(n) - MaxGap)
                BY <1>b, <3>1, <4>1, <4>3
            <4> QED
                BY <4>2, <4>3
        <3> QED
            BY <3>2, <3>3
    <2>3. ASSUME NEW n \in watched
          PROVE  /\ LongestBlind(n)' = LongestBlind(n) /\ LongestDebounce(n)' = LongestDebounce(n)
                 /\ SilentFrom(n)' = SilentFrom(n) /\ (BreachInTime(n) => BreachInTime(n)')
        BY <1>b, <1>w, <2>1, <2>3 DEF LongestDebounce, SilentFrom, BreachInTime
    <2> QED
        BY <2>1, <2>2, <2>3 DEF OutageInv, NotYetDue
<1>2. CASE Select
    <2>1. /\ pc = "select" /\ pc' = "scan" /\ todo = {} /\ roundNow \in Nat
          /\ UNCHANGED <<watched, last_seen, rt, roundNow, observedFrom>>
        BY <1>0, <1>2 DEF Select, RoundInv, TypeOK
    <2>2. CASE seen' = last_seen /\ todo' = watched /\ UNCHANGED missed
        <3> SUFFICES ASSUME NEW n \in watched, roundNow - SilentFrom(n)' > Grace + LongestBlind(n)'
                     PROVE  BreachInTime(n)'
            BY <2>1, <2>2 DEF OutageInv
        <3>1. /\ n \in Nodes /\ SilentFrom(n) \in Nat /\ SilentFrom(n)' \in Nat
              /\ rt[n].since \in Nat \cup {-1} /\ LongestBlind(n)' = LongestBlind(n)
              /\ LongestBlind(n) \in Nat
            BY <1>0, <1>b, <1>w, <2>1, <2>2 DEF TypeOK, SilentFrom, LaterOf, Breach
        <3>2. SilentFrom(n) <= SilentFrom(n)'
            BY <1>0, <2>1, <2>2, <3>1 DEF SilentFrom, LaterOf, RoundInv, TypeOK
        <3>3. BreachInTime(n)
            BY <2>1, <3>1, <3>2 DEF OutageInv
        <3> QED
            BY <2>1, <3>1, <3>2, <3>3 DEF BreachInTime
    <2>3. CASE missed' = [n \in Nodes |-> missed[n] + 1] /\ UNCHANGED <<seen, todo>>
        <3> SUFFICES ASSUME NEW n \in watched,
                            roundNow - SilentFrom(n)' > Grace + LongestBlind(n)' - MaxGap
                     PROVE  /\ BreachInTime(n)'
                            /\ NotYetDue(n, Grace + LongestBlind(n) + LongestDebounce(n))'
            BY <2>1, <2>3 DEF OutageInv, NotYetDue
        <3>1. /\ n \in Nodes /\ SilentFrom(n)' = SilentFrom(n) /\ LongestDebounce(n)' = LongestDebounce(n)
              /\ LongestBlind(n)' = LongestBlind(n) + MaxGap
            BY <1>b, <1>w, <2>1, <2>3 DEF SilentFrom, LongestDebounce
        <3>2. /\ LongestBlind(n) \in Nat /\ MaxGap \in Nat /\ SilentFrom(n) \in Nat
              /\ LongestDebounce(n) \in Nat /\ rt[n].since \in Nat \cup {-1}
            BY <1>0, <1>b, <3>1 DEF TypeOK, Breach
        <3>3. /\ BreachInTime(n)
              /\ NotYetDue(n, Grace + LongestBlind(n) + LongestDebounce(n) + MaxGap)
            BY <2>1, <3>1, <3>2 DEF OutageInv
        <3>4. BreachInTime(n)'
            BY <2>1, <3>1, <3>2, <3>3 DEF BreachInTime
        <3>5. Grace + LongestBlind(n) + LongestDebounce(n) + MaxGap
                = Grace + LongestBlind(n)' + LongestDebounce(n)'
            BY <3>1, <3>2
        <3> QED
            BY <2>1, <3>1, <3>3, <3>4, <3>5 DEF NotYetDue
    <2> QED
        BY <1>2, <2>2, <2>3 DEF Select
<1>3. ASSUME NEW m \in Nodes, Evaluate(m) PROVE OutageInv'
    <2>1. /\ pc = "scan" /\ m \in todo /\ todo' = todo \ {m}
          /\ UNCHANGED <<now, watched, last_seen, pc, roundNow, seen, observedFrom>>
        BY <1>3 DEF Evaluate
    <2>2. ASSUME NEW n \in watched, n # m, n \in todo,
                 roundNow - SilentFrom(n)' > Grace + LongestBlind(n)'
          PROVE  BreachInTime(n)'
        <3>1. rt'[n] = rt[n] /\ missed'[n] = missed[n]
            BY <1>0, <1>3, <1>w, <2>2, EvaluateCells DEF Evaluate, TypeOK
        <3>2. SilentFrom(n)' = SilentFrom(n) /\ LongestBlind(n)' = LongestBlind(n)
              /\ (BreachInTime(n) <=> BreachInTime(n)')
            BY <1>same, <1>w, <2>1, <2>2, <3>1
        <3> QED
            BY <2>1, <2>2, <3>2 DEF OutageInv
    <2>3. ASSUME NEW n \in watched, n # m, n \notin todo,
                 roundNow - SilentFrom(n)' > Grace + LongestBlind(n)' - MaxGap, roundNow # NoTime
          PROVE  BreachInTime(n)' /\ NotYetDue(n, Grace + LongestBlind(n) + LongestDebounce(n))'
        <3>1. rt'[n] = rt[n] /\ missed'[n] = missed[n]
            BY <1>0, <1>3, <1>w, <2>3, EvaluateCells DEF Evaluate, TypeOK
        <3>2. /\ LongestBlind(n)' = LongestBlind(n) /\ LongestDebounce(n)' = LongestDebounce(n)
              /\ SilentFrom(n)' = SilentFrom(n) /\ (BreachInTime(n) <=> BreachInTime(n)')
            BY <1>same, <1>w, <2>1, <2>3, <3>1
        <3>3. BreachInTime(n) /\ NotYetDue(n, Grace + LongestBlind(n) + LongestDebounce(n))
            BY <2>1, <2>3, <3>2 DEF OutageInv
        <3> QED
            BY <2>1, <3>1, <3>2, <3>3 DEF NotYetDue
    <2>4. ASSUME m \in watched, roundNow - SilentFrom(m)' > Grace + LongestBlind(m)' - MaxGap
          PROVE  BreachInTime(m)' /\ NotYetDue(m, Grace + LongestBlind(m) + LongestDebounce(m))'
        <3>1. SilentFrom(m)' = SilentFrom(m)
            BY <2>1 DEF SilentFrom
        <3> QED
            BY <1>3, <2>4, <3>1, EvaluateDetects
    <2> QED
        BY <2>1, <2>2, <2>3, <2>4 DEF OutageInv, NotYetDue
<1>4. CASE EndRound
    <2>1. /\ pc = "scan" /\ pc' = "sleep" /\ todo = {} /\ roundNow \in Nat
          /\ UNCHANGED <<watched, roundNow, seen, todo, observedFrom, missed>>
          /\ \A n \in Nodes : rt'[n] = Pruned(rt[n], roundNow)
        BY <1>0, <1>4 DEF EndRound, TypeOK
    <2> SUFFICES ASSUME NEW n \in watched, roundNow - SilentFrom(n)' > Grace + LongestBlind(n)' - MaxGap
                 PROVE  BreachInTime(n)' /\ NotYetDue(n, Grace + LongestBlind(n) + LongestDebounce(n))'
        BY <2>1 DEF OutageInv, NotYetDue
    <2>2. n \in Nodes /\ SilentFrom(n)' = SilentFrom(n) /\ LongestBlind(n)' = LongestBlind(n)
        BY <1>b, <1>w, <2>1 DEF SilentFrom
    <2>3. BreachInTime(n) /\ NotYetDue(n, Grace + LongestBlind(n) + LongestDebounce(n))
        BY <2>1, <2>2 DEF OutageInv
    <2>4. rt'[n] = rt[n]
        BY <2>1, <2>2, <2>3 DEF BreachInTime, Pruned, Retained
    <2>5. BreachInTime(n)' /\ LongestDebounce(n)' = LongestDebounce(n)
        BY <1>same, <2>1, <2>2, <2>3, <2>4
    <2> QED
        BY <2>1, <2>2, <2>3, <2>4, <2>5 DEF NotYetDue
<1>5. ASSUME NEW m \in Nodes, Report(m) \/ Revoke(m) PROVE OutageInv'
    <2>1. /\ watched' \subseteq watched
          /\ UNCHANGED <<rt, pc, roundNow, seen, todo, observedFrom, missed>>
        BY <1>5 DEF Report, Revoke
    <2> QED
        BY <2>1 DEF OutageInv, BreachInTime, NotYetDue, LongestDebounce, SilentFrom, LongestBlind
<1>6. ASSUME NEW m \in Nodes, Register(m) PROVE OutageInv'
    <2>1. /\ observedFrom' = [observedFrom EXCEPT ![m] = now] /\ watched' = watched \cup {m}
          /\ missed' = [missed EXCEPT ![m] = 0]
          /\ UNCHANGED <<rt, pc, roundNow, seen, todo>>
        BY <1>6 DEF Register
    <2>2. /\ SilentFrom(m)' \in Nat /\ SilentFrom(m)' >= roundNow /\ roundNow \in Nat \cup {-1}
        BY <1>0, <2>1 DEF SilentFrom, LaterOf, TypeOK
    <2>3. LongestBlind(m)' = MaxGap
        BY <1>0, <2>1, BlindGrows DEF TypeOK
    <2>4. /\ ~(roundNow - SilentFrom(m)' > Grace + LongestBlind(m)')
          /\ ~(roundNow - SilentFrom(m)' > Grace + LongestBlind(m)' - MaxGap)
          /\ roundNow - SilentFrom(m)' < Grace + LongestBlind(m)' + LongestDebounce(m)' + MaxGap
        <3>1. LongestDebounce(m)' = LongestDebounce(m)
            BY <2>1 DEF LongestDebounce
        <3>2. LongestDebounce(m)' \in Nat /\ MaxGap \in Nat /\ MaxGap > 0
            BY <1>b, <3>1
        <3> QED
            BY <2>2, <2>3, <3>2
    <2>5. ASSUME NEW n \in watched, n # m
          PROVE  observedFrom'[n] = observedFrom[n] /\ missed'[n] = missed[n]
        BY <1>0, <1>w, <2>1, <2>5 DEF TypeOK
    <2>6. ASSUME NEW n \in watched, n # m
          PROVE  /\ LongestBlind(n)' = LongestBlind(n) /\ LongestDebounce(n)' = LongestDebounce(n)
                 /\ SilentFrom(n)' = SilentFrom(n) /\ (BreachInTime(n) <=> BreachInTime(n)')
        BY <1>same, <1>w, <2>1, <2>5, <2>6
    <2> QED
        BY <2>1, <2>4, <2>6 DEF OutageInv, NotYetDue
<1>7. CASE Restart
    BY <1>7 DEF Restart, OutageInv
<1>8. CASE Tick \/ UNCHANGED vars
    BY <1>8 DEF Tick, vars, OutageInv, BreachInTime, NotYetDue, LongestDebounce, SilentFrom, LongestBlind
<1> QED
    BY <1>1, <1>2, <1>3, <1>4, <1>5, <1>6, <1>7, <1>8 DEF Next

\* What fires has been silent for the grace when its breach began, and for the
\* confirmation since.
LEMMA FiringConfirmed ==
    ASSUME SpacingInv, ConfirmInv, [Next]_vars, NEW n \in Nodes, Alerts(n),
           observedFrom[n] <= BreachStart(rt[n], roundNow), LongestBlind(n) <= Grace
    PROVE  seen[n] = NoTime \/ roundNow - seen[n] > Grace + Confirm
<1> USE DEF SpacingInv, TypeOK
<1>1. lastFired' # lastFired /\ ~Restart
    BY DEF Alerts, Restart
<1>2. PICK m \in Nodes : Evaluate(m)
    BY <1>1 DEF Next, vars, WakeUp, Select, EndRound, Report, Revoke, Register, Tick
<1>3. m = n /\ Fires(n) /\ n \in todo
    BY <1>2 DEF Evaluate, Alerts
<1>4. /\ roundNow \in Nat /\ rt[n] \in Breach /\ seen[n] \in Nat \cup {-1}
      /\ TooSilent(n) /\ MustFire(rt[n], TRUE, Confirm, roundNow)
    BY <1>2, <1>3 DEF Evaluate, Fires
<1>5. roundNow - BreachStart(rt[n], roundNow) >= Confirm
    BY <1>4 DEF MustFire, offline_fire_debounce, BreachStart, Breach
<1>6. CASE rt[n].since = NoTime
    BY <1>4, <1>5, <1>6 DEF BreachStart, TooSilent
<1>7. CASE rt[n].since # NoTime
    <2>1. BreachStart(rt[n], roundNow) = rt[n].since
        BY <1>7 DEF BreachStart
    <2>2. OldAtStart(n)
        BY <1>3, <1>4, <1>7, <2>1 DEF ConfirmInv
    <2>3. rt[n].since \in Nat
        BY <1>4, <1>7 DEF Breach
    <2> QED
        BY <1>4, <1>5, <2>1, <2>2, <2>3 DEF OldAtStart
<1> QED
    BY <1>6, <1>7

-----------------------------------------------------------------------------

LEMMA RoundInit == Init => RoundInv /\ ConfirmInv /\ OutageInv
BY DEF Init, RoundInv, ConfirmInv, OutageInv, Fresh

\* No alert for a hiccup (patrol, transition): a node watched since its
\* breach began is reported only after a silence longer than the grace and the
\* confirmation together, for every number of nodes, every setting of the times
\* and whichever SELECTs fail, as long as the waits for a round and the rounds
\* without rows fit into the grace.
THEOREM AlertsAreConfirmed == Spec => SilenceConfirmed
<1> DEFINE Inv == SpacingInv /\ RoundInv /\ ConfirmInv
           Confirmed == \A n \in Nodes :
                          /\ Alerts(n)
                          /\ observedFrom[n] <= BreachStart(rt[n], roundNow)
                          /\ LongestBlind(n) <= Grace
                          => seen[n] = NoTime \/ roundNow - seen[n] > Grace + Confirm
<1>1. Init => Inv
    BY SpacingInit, RoundInit
<1>2. Inv /\ [Next]_vars => Inv'
    BY SpacingStep, RoundStep, ConfirmStep
<1>3. Inv /\ [Next]_vars => [Confirmed]_vars
    BY FiringConfirmed
<1> QED
    BY <1>1, <1>2, <1>3, PTL DEF Spec, SilenceConfirmed

\* A real outage is found in bounded time, whatever reports, revocations,
\* registrations and recoveries came before it: no round's pruning, no slow
\* SELECT and no failed one loses the start of a breach, and each failed one
\* costs one wait for a round.
THEOREM OutagesAreDetected == Spec => []OutageDetected
<1> DEFINE Inv == SpacingInv /\ RoundInv /\ OutageInv
<1>1. Init => Inv
    BY SpacingInit, RoundInit
<1>2. Inv /\ [Next]_vars => Inv'
    BY SpacingStep, RoundStep, OutageStep
<1>3. Inv => OutageDetected
    <2> SUFFICES ASSUME Inv, pc = "sleep", roundNow # NoTime, NEW n \in watched,
                        roundNow - SilentFrom(n) > Grace + LongestBlind(n) + LongestDebounce(n)
                 PROVE  rt[n].firing
        BY DEF OutageDetected, LongestDebounce
    <2>1. TypeOK /\ n \in Nodes /\ n \notin todo
        BY DEF SpacingInv, TypeOK, RoundInv
    <2>2. /\ roundNow \in Nat /\ SilentFrom(n) \in Nat /\ LongestDebounce(n) \in Nat
          /\ LongestBlind(n) \in Nat /\ MaxGap \in Nat
        BY <2>1, BlindGrows DEF TypeOK, SilentFrom, LaterOf, LongestDebounce
    <2>3. roundNow - SilentFrom(n) > Grace + LongestBlind(n) - MaxGap
        BY <2>2
    <2>4. NotYetDue(n, Grace + LongestBlind(n) + LongestDebounce(n))
        BY <2>1, <2>3 DEF OutageInv
    <2> QED
        BY <2>2, <2>4 DEF NotYetDue
<1> HIDE DEF Inv
<1> QED
    BY <1>1, <1>2, <1>3, PTL DEF Spec

=============================================================================
