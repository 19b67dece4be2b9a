---------------------------- MODULE AlertProofs ----------------------------
(***************************************************************************)
(* The safety properties of AlertTransition for every number of rules,     *)
(* nodes and concurrent tasks, and what is left of them, and of the cache, *)
(* when rules are administered meanwhile (AlertRules).                     *)
(*                                                                         *)
(* None of them is inductive.  What keeps the cells, the tasks and the     *)
(* notices together is that an event has one holder at a time: from its    *)
(* INSERT to its end an event id is in the hands of one task or in one     *)
(* cell, never in both, and ids are not reused (Kept).  No step of an      *)
(* administrator disturbs this, so what follows from it holds with and     *)
(* without them.  That held events are open rows, and open rows are held,  *)
(* is true of the evaluator alone; how far administration breaks it is     *)
(* what OrphanOnlyInWindow says.                                           *)
(***************************************************************************)
EXTENDS AlertRules, TLAPS

\* Task t has the event it inserted, or took from a cell, in its hands.
Carrying(t) == task[t].pc \in {"recheck", "undo", "resolve"}

\* Task t owes a recovery notice.
Owing(t) == task[t].pc \in {"resolve", "recover"}

\* A task past the evaluation knows its key, and past the INSERT its event.
TaskShape ==
    \A t \in Tasks :
        /\ task[t].pc = "insert" => task[t].key \in Key
        /\ task[t].pc \in Holding =>
              task[t].key \in Key /\ task[t].eid \in EventId /\ task[t].eid < nextId

\* A cell with an event is firing, on an event that was inserted.
CellShape ==
    \A k \in Key : rt[k].event_id # NoEvent => rt[k].firing /\ rt[k].event_id < nextId

\* Ids are handed out in order and used once.
IdsUsedOnce ==
    /\ \A x \in open : x.id < nextId
    /\ \A x, y \in open : x.id = y.id => x = y
    /\ \A m \in pushed : m.id < nextId

\* An event has one holder.
OneHolder ==
    /\ \A t, u \in Tasks : Carrying(t) /\ Carrying(u) /\ task[t].eid = task[u].eid => t = u
    /\ \A t \in Tasks, k \in Key : Carrying(t) => rt[k].event_id # task[t].eid
    /\ \A j, k \in Key : rt[j].event_id = rt[k].event_id /\ rt[j].event_id # NoEvent => j = k

\* The recovery of event e is announced or owed.
Ended(e) ==
    \/ [id |-> e, firing |-> FALSE] \in pushed
    \/ \E t \in Tasks : Owing(t) /\ task[t].eid = e

\* An event that is still in its cell has been announced and has not ended; one
\* that waits for its write-back has not ended either.
HeldNotEnded ==
    /\ \A k \in Key : rt[k].event_id # NoEvent =>
          Announced(rt[k].event_id) /\ ~Ended(rt[k].event_id)
    /\ \A t \in Tasks : task[t].pc = "recheck" => ~Ended(task[t].eid)

\* What every step keeps, an administrator's included.
Kept ==
    /\ TaskShape
    /\ CellShape
    /\ IdsUsedOnce
    /\ OneHolder
    /\ NoSilentAlert
    /\ HeldNotEnded
    /\ RecoveryFollowsAlert
    /\ RecoveryAnnouncedOnce

\* The events of the cells, and those that wait for their write-back, are open.
HeldEventsOpen ==
    /\ CellNamesOpenRow
    /\ \A t \in Tasks : task[t].pc = "recheck" => [id |-> task[t].eid, key |-> task[t].key] \in open

\* The inductive invariant of the evaluator.
SafetyInv == TypeOK /\ Kept /\ HeldEventsOpen /\ NoGhostEvent

\* Row x is in the hands of its cell or of a task, or its closing UPDATE failed.
Held(x) ==
    \/ Names(x.key, x.id)
    \/ \E t \in Tasks : Carries(t, x.id) /\ task[t].key = x.key
    \/ x.id \in stuck

\* The step lets go of no row: those without a holder afterwards had none before.
LetsGoOfNone == \A x \in open' : Held(x)' \/ (x \in open /\ ~Held(x))

\* A step of the evaluator, from whatever rules its evaluations started.
EvaluatorStep ==
    \/ \E t \in Tasks, keys \in SUBSET Key : Start(t, keys)
    \/ \E t \in Tasks : TaskStep(t)
    \/ ClearEvents
    \/ Restart
    \/ Tick
    \/ UNCHANGED vars

USE FlapAssumption, EvaluatorAssumption
    DEF NoTime, NoEvent, Time, EventId, Tasks

-----------------------------------------------------------------------------
(* Types, and what the helpers do to the task that moves.                  *)

\* Task t comes to control point pc with key k and event e; no other task moves.
Moves(t, pc, k, e) ==
    /\ task' \in [Tasks -> Task]
    /\ task'[t].pc = pc /\ task'[t].key = k /\ task'[t].eid = e
    /\ \A u \in Tasks : u # t => task'[u] = task[u]

\* Goto takes the task to a control point with its key and event.
LEMMA GotoMoves ==
    ASSUME task \in [Tasks -> Task], NEW t \in Tasks, NEW pc \in Pc, NEW k \in Key,
           NEW e \in Nat, Goto(t, pc, k, e)
    PROVE  Moves(t, pc, k, e)
BY DEF Goto, Moves, Task, Pc, Holding

\* Continue takes the task back to its list of keys.
LEMMA ContinueMoves ==
    ASSUME task \in [Tasks -> Task], NEW t \in Tasks, Continue(t)
    PROVE  Moves(t, "eval", NoKey, NoEvent)
BY DEF Continue, Moves, Task, Pc, Holding

\* Taking a key off the list leaves the task where it is.
LEMMA SkipMoves ==
    ASSUME task \in [Tasks -> Task], NEW t \in Tasks, NEW k \in Key,
           task' = [task EXCEPT ![t].todo = @ \ {k}]
    PROVE  Moves(t, task[t].pc, task[t].key, task[t].eid)
BY DEF Moves, Task

\* The two halves of transition and the pruning keep a cell a cell.
LEMMA CellTypes ==
    ASSUME NEW b \in Breach, NEW t \in Nat, NEW base \in Nat, NEW offline \in BOOLEAN
    PROVE  /\ OnBreach(b, offline, base, t) \in Breach
           /\ OnClear(b, offline, t) \in Breach
           /\ Pruned(b, t) \in Breach
BY DEF OnBreach, OnClear, Pruned, Fresh, Breach, BreachStart, MustFire

\* A debounce is a number of seconds.
LEMMA BaseType == \A k \in Key : Base(k) \in Nat
BY DEF Base, Key

\* Closing rows, or failing to, keeps the tables well typed.
LEMMA CloseTypes ==
    ASSUME TypeOK, NEW rows \in SUBSET open, Close(rows) \/ CloseFails(rows)
    PROVE  open' \subseteq Row /\ resolved' \subseteq Row /\ stuck' \subseteq EventId
<1>1. rows \subseteq Row /\ \A x \in rows : x.id \in EventId
    BY DEF TypeOK, Row
<1>2. CASE Close(rows)
    BY <1>1, <1>2 DEF TypeOK, Close
<1>3. CASE CloseFails(rows)
    BY <1>1, <1>3 DEF TypeOK, CloseFails
<1> QED
    BY <1>2, <1>3

\* Types are kept by every step; the key of a task past the evaluation is known.
LEMMA TypeStep == TypeOK /\ TaskShape /\ EvaluatorStep => TypeOK'
<1> SUFFICES ASSUME TypeOK, TaskShape, EvaluatorStep PROVE TypeOK'
    OBVIOUS
<1> USE DEF TypeOK
<1>1. ASSUME NEW t \in Tasks, NEW keys \in SUBSET Key, Start(t, keys) PROVE TypeOK'
    BY <1>1 DEF Start, Task, Pc
<1>2. ASSUME NEW t \in Tasks, EndMetrics(t) PROVE TypeOK'
    BY <1>2 DEF EndMetrics, Idle, Task, Pc
<1>3. CASE EndPatrol
    <2>1. task[Patrol].now \in Nat
        BY DEF Task
    <2>2. \A k \in Key : Pruned(rt[k], task[Patrol].now) \in Breach
        BY <2>1, CellTypes
    <2>3. rt' \in [Key -> Breach]
        BY <1>3, <2>2 DEF EndPatrol
    <2> QED
        BY <1>3, <2>3 DEF EndPatrol, Idle, Task, Pc
<1>4. ASSUME NEW t \in Tasks, NEW k \in Key, SkipRule(t, k) PROVE TypeOK'
    BY <1>4, SkipMoves DEF SkipRule, Moves
<1>5. ASSUME NEW t \in Tasks, NEW k \in Key, Breaching(t, k) PROVE TypeOK'
    <2>1. task[t].now \in Nat /\ rt[k] \in Breach /\ (k[1] \in Offline) \in BOOLEAN
        BY DEF Task
    <2>2. OnBreach(rt[k], k[1] \in Offline, Base(k), task[t].now) \in Breach
        BY <2>1, CellTypes, BaseType
    <2>3. rt' \in [Key -> Breach]
        BY <1>5, <2>2 DEF Breaching
    <2>4. task' \in [Tasks -> Task]
        BY <1>5, SkipMoves, GotoMoves DEF Breaching, Moves, Pc
    <2> QED
        BY <1>5, <2>3, <2>4 DEF Breaching
<1>6. ASSUME NEW t \in Tasks, NEW k \in Key, Clearing(t, k) PROVE TypeOK'
    <2>1. task[t].now \in Nat /\ rt[k] \in Breach /\ (k[1] \in Offline) \in BOOLEAN
        BY DEF Task
    <2>2. OnClear(rt[k], k[1] \in Offline, task[t].now) \in Breach
        BY <2>1, CellTypes
    <2>3. rt' \in [Key -> Breach]
        BY <1>6, <2>2 DEF Clearing
    <2>4. task' \in [Tasks -> Task]
        BY <1>6, <2>1, SkipMoves, GotoMoves DEF Clearing, Moves, Pc, Holding, Breach
    <2> QED
        BY <1>6, <2>3, <2>4 DEF Clearing
<1>7. ASSUME NEW t \in Tasks, Insert(t) PROVE TypeOK'
    <2>1. task[t].key \in Key
        BY <1>7 DEF Insert, TaskShape
    <2>2. task' \in [Tasks -> Task]
        BY <1>7, <2>1, GotoMoves DEF Insert, Moves, Pc, Holding
    <2>3. open' \subseteq Row
        BY <1>7, <2>1 DEF Insert, Row
    <2> QED
        BY <1>7, <2>2, <2>3 DEF Insert
<1>8. ASSUME NEW t \in Tasks, InsertFails(t) PROVE TypeOK'
    <2>1. task[t].key \in Key
        BY <1>8 DEF InsertFails, TaskShape
    <2> QED
        BY <1>8, <2>1, ContinueMoves DEF InsertFails, Moves
<1>9. ASSUME NEW t \in Tasks, Recheck(t) PROVE TypeOK'
    <2>1. task[t].key \in Key /\ task[t].eid \in EventId
        BY <1>9 DEF Recheck, TaskShape, Holding
    <2>2. task' \in [Tasks -> Task]
        BY <1>9, <2>1, GotoMoves DEF Recheck, Moves, Pc, Holding
    <2>3. rt' \in [Key -> Breach]
        BY <1>9, <2>1 DEF Recheck, Breach
    <2> QED
        BY <1>9, <2>2, <2>3 DEF Recheck
<1>10. ASSUME NEW t \in Tasks, Undo(t) PROVE TypeOK'
    <2> OpenRow(task[t].eid) \in SUBSET open
        BY DEF OpenRow
    <2>1. open' \subseteq Row /\ resolved' \subseteq Row /\ stuck' \subseteq EventId
        BY <1>10, CloseTypes DEF Undo
    <2> QED
        BY <1>10, <2>1, ContinueMoves DEF Undo, Moves
<1>11. ASSUME NEW t \in Tasks, Resolve(t) PROVE TypeOK'
    <2> OpenRow(task[t].eid) \in SUBSET open
        BY DEF OpenRow
    <2>1. open' \subseteq Row /\ resolved' \subseteq Row /\ stuck' \subseteq EventId
        BY <1>11, CloseTypes DEF Resolve
    <2>2. task[t].key \in Key /\ task[t].eid \in EventId
        BY <1>11 DEF Resolve, TaskShape, Holding
    <2>3. task' \in [Tasks -> Task]
        BY <1>11, <2>2, GotoMoves DEF Resolve, Moves, Pc, Holding
    <2> QED
        BY <1>11, <2>1, <2>3 DEF Resolve
<1>12. ASSUME NEW t \in Tasks, Push(t) PROVE TypeOK'
    <2>1. task[t].eid \in EventId
        BY <1>12 DEF Push, TaskShape, Holding
    <2>2. [id |-> task[t].eid, firing |-> task[t].pc = "alert"] \in Notice
        BY <2>1 DEF Notice
    <2>3. pushed' \subseteq Notice
        BY <1>12, <2>2 DEF Push
    <2> QED
        BY <1>12, <2>3, ContinueMoves DEF Push, Moves
<1>13. CASE ClearEvents
    BY <1>13 DEF ClearEvents
<1>14. CASE Restart
    <2>1. open' \subseteq Row /\ resolved' \subseteq Row /\ stuck' \subseteq EventId
        BY <1>14, CloseTypes DEF Restart
    <2> QED
        BY <1>14, <2>1 DEF Restart, Fresh, Breach, Idle, Task, Pc
<1>15. CASE Tick
    BY <1>15 DEF Tick
<1>16. CASE UNCHANGED vars
    BY <1>16 DEF vars
<1> QED
    BY <1>1, <1>2, <1>3, <1>4, <1>5, <1>6, <1>7, <1>8, <1>9, <1>10, <1>11, <1>12,
       <1>13, <1>14, <1>15, <1>16 DEF EvaluatorStep, TaskStep

\* What the evaluator starts from is a snapshot of the rules there are, under
\* administration too.
LEMMA StartsTyped ==
    ASSUME NEW rules \in SUBSET Rules
    PROVE  /\ \A n \in Nodes : {<<r, n>> : r \in rules \ Offline} \in SUBSET Key
           /\ \A ns \in SUBSET Nodes : (rules \cap Offline) \X ns \in SUBSET Key
BY DEF Key

\* The steps of Next are the evaluator's.
LEMMA NextIsEvaluator == [Next]_vars => EvaluatorStep
<1>1. ASSUME NEW t \in Workers, NEW n \in Nodes, BeginMetrics(t, n, Rules) PROVE EvaluatorStep
    BY <1>1, StartsTyped DEF BeginMetrics, EvaluatorStep
<1>2. ASSUME NEW ns \in SUBSET Nodes, BeginPatrol(ns, Rules) PROVE EvaluatorStep
    BY <1>2, StartsTyped DEF BeginPatrol, EvaluatorStep
<1> QED
    BY <1>1, <1>2 DEF Next, EvaluatorStep

-----------------------------------------------------------------------------
(* The steps of a task.                                                    *)

\* A row of the table has a key and an id.
LEMMA RowTypes == TypeOK => \A x \in open : x.key \in Key /\ x.id \in EventId
BY DEF TypeOK, Row

\* What every step of the evaluator does with Kept and with the rows.
Preserves ==
    /\ Kept'
    /\ LetsGoOfNone
    /\ HeldEventsOpen => HeldEventsOpen'

\* A step that leaves cells, table and notices alone, and moves at most a task
\* that has no key and no event in its hands.
LEMMA QuietKeeps ==
    ASSUME TypeOK, Kept, UNCHANGED <<rt, open, nextId, pushed, stuck, silent>>,
           \A t \in Tasks : \/ task'[t] = task[t]
                            \/ task[t].pc \in {"idle", "eval"} /\ task'[t].pc \in {"idle", "eval"}
    PROVE  Preserves
<1> USE DEF Kept, Holding
<1>1. \A t \in Tasks : task'[t].pc \notin {"idle", "eval"} => task'[t] = task[t]
    OBVIOUS
<1>2. \A t \in Tasks : task[t].pc \notin {"idle", "eval"} => task'[t] = task[t]
    OBVIOUS
<1>3. TaskShape'
    BY <1>1 DEF TaskShape
<1>4. IdsUsedOnce' /\ CellShape'
    BY DEF IdsUsedOnce, CellShape
<1>5. OneHolder'
    BY <1>1 DEF OneHolder, Carrying
<1>6. HeldEventsOpen => HeldEventsOpen'
    BY <1>1 DEF HeldEventsOpen, CellNamesOpenRow
<1>7. LetsGoOfNone
    BY <1>2 DEF LetsGoOfNone, Held, Names, Carries
<1>8. NoSilentAlert'
    BY <1>2 DEF NoSilentAlert
<1>9. \A e : Announced(e) => Announced(e)'
    BY <1>2 DEF Announced
<1>10. \A e : Ended(e)' => Ended(e)
    BY <1>1 DEF Ended, Owing
<1>11. HeldNotEnded'
    BY <1>1, <1>9, <1>10 DEF HeldNotEnded
<1>12. RecoveryFollowsAlert'
    BY <1>1, <1>9 DEF RecoveryFollowsAlert
<1>13. RecoveryAnnouncedOnce'
    BY <1>1 DEF RecoveryAnnouncedOnce, Recovers
<1> QED
    BY <1>3, <1>4, <1>5, <1>6, <1>7, <1>8, <1>11, <1>12, <1>13 DEF Preserves

\* A step that moves task t alone, leaves what is announced announced and ends
\* no event: the notices stay in order if t takes on no duty towards them.
LEMMA NoticesKept ==
    ASSUME TypeOK, Kept, NEW t \in Tasks, NEW pc, NEW k, NEW e, Moves(t, pc, k, e),
           pushed' = pushed, task[t].pc # "alert", pc \notin {"resolve", "recover"}
    PROVE  /\ \A f : Announced(f) => Announced(f)'
           /\ \A f : Ended(f)' => Ended(f)
           /\ RecoveryFollowsAlert'
           /\ RecoveryAnnouncedOnce'
<1> USE DEF Kept, Moves
<1>1. \A f : Announced(f) => Announced(f)'
    BY DEF Announced
<1>2. \A f : Ended(f)' => Ended(f)
    BY DEF Ended, Owing
<1>3. RecoveryFollowsAlert'
    BY <1>1 DEF RecoveryFollowsAlert
<1>4. RecoveryAnnouncedOnce'
    BY DEF RecoveryAnnouncedOnce, Recovers
<1> QED
    BY <1>1, <1>2, <1>3, <1>4

\* Breaching touches no event id: a cell may only start to fire, and then the
\* task is on its way to the INSERT.
LEMMA BreachingKeeps ==
    ASSUME TypeOK, TypeOK', Kept, NEW t \in Tasks, NEW k \in Key, Breaching(t, k)
    PROVE  Preserves
<1> USE DEF Kept, Holding
<1>1. PICK pc \in {"eval", "insert"}, key \in Key \cup {NoKey}, e \in Nat :
        /\ Moves(t, pc, key, e)
        /\ pc = "insert" => key = k
        /\ MustFire(rt[k], k[1] \in Offline, Base(k), task[t].now) => pc = "insert"
    <2>1. task[t].pc = "eval" /\ task \in [Tasks -> Task]
        BY DEF Breaching, TypeOK
    <2>2. task[t].eid \in Nat /\ task[t].key \in Key \cup {NoKey}
        BY <2>1 DEF Task
    <2>3. CASE MustFire(rt[k], k[1] \in Offline, Base(k), task[t].now)
        <3>1. Goto(t, "insert", k, NoEvent)
            BY <2>3 DEF Breaching
        <3> QED
            BY <2>1, <3>1, GotoMoves DEF Pc
    <2>4. CASE ~MustFire(rt[k], k[1] \in Offline, Base(k), task[t].now)
        <3>1. task' = [task EXCEPT ![t].todo = @ \ {k}]
            BY <2>4 DEF Breaching
        <3>2. Moves(t, "eval", task[t].key, task[t].eid)
            BY <2>1, <3>1, SkipMoves
        <3> QED
            BY <2>2, <2>4, <3>2
    <2> QED
        BY <2>3, <2>4
<1>2. task[t].pc = "eval"
    BY DEF Breaching
<1>3. UNCHANGED <<open, nextId, pushed, stuck, silent>>
    BY DEF Breaching
<1>4. \A j \in Key : j # k => rt'[j] = rt[j]
    BY DEF Breaching, TypeOK
<1>5. /\ rt'[k].event_id = rt[k].event_id
      /\ rt[k].firing => rt'[k].firing
      /\ rt'[k].firing => rt[k].firing \/ MustFire(rt[k], k[1] \in Offline, Base(k), task[t].now)
    BY DEF Breaching, OnBreach, TypeOK, Breach
<1>6. \A j \in Key : rt'[j].event_id = rt[j].event_id
    BY <1>4, <1>5
<1>7. /\ \A f : Announced(f) => Announced(f)'
      /\ \A f : Ended(f)' => Ended(f)
      /\ RecoveryFollowsAlert'
      /\ RecoveryAnnouncedOnce'
    BY <1>1, <1>2, <1>3, NoticesKept
<1>8. TaskShape'
    BY <1>1, <1>3 DEF TaskShape, Moves
<1>9. IdsUsedOnce' /\ CellShape'
    BY <1>3, <1>4, <1>5 DEF IdsUsedOnce, CellShape
<1>10. OneHolder'
    BY <1>1, <1>3, <1>6 DEF OneHolder, Carrying, Moves
<1>11. HeldEventsOpen => HeldEventsOpen'
    BY <1>1, <1>3, <1>4, <1>5 DEF HeldEventsOpen, CellNamesOpenRow, Moves
<1>12. LetsGoOfNone
    BY <1>1, <1>2, <1>3, <1>4, <1>5, RowTypes DEF LetsGoOfNone, Held, Names, Carries, Moves
<1>13. NoSilentAlert'
    BY <1>1, <1>2, <1>3, <1>4, <1>5 DEF NoSilentAlert, Moves
<1>14. HeldNotEnded'
    BY <1>1, <1>6, <1>7 DEF HeldNotEnded, Moves
<1> QED
    BY <1>7, <1>8, <1>9, <1>10, <1>11, <1>12, <1>13, <1>14 DEF Preserves

\* Clearing takes the event out of a firing cell: the task that does so becomes
\* its one holder and owes its recovery.
LEMMA ClearingKeeps ==
    ASSUME TypeOK, TypeOK', Kept, NEW t \in Tasks, NEW k \in Key, Clearing(t, k)
    PROVE  Preserves
<1> USE DEF Kept, Holding
<1>1. task[t].pc = "eval" /\ task \in [Tasks -> Task]
    BY DEF Clearing, TypeOK
<1>2. UNCHANGED <<open, nextId, pushed, stuck>> /\ silent' = silent \ {k}
    BY DEF Clearing
<1>3. \A j \in Key : j # k => rt'[j] = rt[j]
    BY DEF Clearing, TypeOK
<1>4. ~rt'[k].firing /\ rt'[k].event_id = NoEvent
    BY DEF Clearing, OnClear, TypeOK
<1>5. CellNamesOpenRow => CellNamesOpenRow'
    BY <1>2, <1>3, <1>4 DEF CellNamesOpenRow
<1>6. IdsUsedOnce' /\ CellShape'
    BY <1>2, <1>3, <1>4 DEF IdsUsedOnce, CellShape
<1>7. CASE rt[k].firing /\ rt[k].event_id # NoEvent
    <2> DEFINE e == rt[k].event_id
    <2>1. e \in EventId /\ e < nextId
        BY <1>7 DEF CellShape, TypeOK, Breach
    <2>2. Moves(t, "resolve", k, e)
        <3>1. Goto(t, "resolve", k, e)
            BY <1>7 DEF Clearing
        <3> QED
            BY <1>1, <2>1, <3>1, GotoMoves DEF Pc
    <2>3. Announced(e) /\ ~Ended(e)
        BY <1>7 DEF HeldNotEnded
    <2>4. \A j \in Key : rt[j].event_id = e => j = k
        BY <2>1 DEF OneHolder
    <2> HIDE DEF e
    <2>5. TaskShape'
        BY <1>2, <2>1, <2>2 DEF TaskShape, Moves
    <2>6. OneHolder'
        <3>1. \A u \in Tasks : u # t /\ Carrying(u) => task[u].eid # e
            BY DEF OneHolder, e
        <3>2. \A j \in Key : rt'[j].event_id # e
            BY <1>3, <1>4, <2>1, <2>4
        <3>3. \A j \in Key : rt'[j].event_id # NoEvent => rt'[j] = rt[j]
            BY <1>3, <1>4
        <3> QED
            BY <1>2, <1>3, <1>4, <2>1, <2>2, <3>1, <3>2, <3>3
               DEF OneHolder, Carrying, Moves, TaskShape
    <2>7. HeldEventsOpen => HeldEventsOpen'
        BY <1>2, <1>5, <2>2 DEF HeldEventsOpen, Moves
    <2>8. LetsGoOfNone
        BY <1>1, <1>2, <1>3, <1>4, <2>2, RowTypes
           DEF LetsGoOfNone, Held, Names, Carries, Moves, e
    <2>9. NoSilentAlert'
        BY <1>1, <1>2, <1>3, <1>4, <2>2 DEF NoSilentAlert, Moves
    <2>10. \A f : Announced(f) => Announced(f)'
        BY <1>1, <1>2, <2>2 DEF Announced, Moves
    <2>11. \A f : Ended(f)' => Ended(f) \/ f = e
        BY <1>1, <1>2, <2>2 DEF Ended, Owing, Moves
    <2>12. HeldNotEnded'
        <3>1. \A j \in Key : rt'[j].event_id # NoEvent =>
                 rt'[j].event_id = rt[j].event_id /\ rt[j].event_id # e
            BY <1>3, <1>4, <2>4
        <3>2. \A u \in Tasks : task'[u].pc = "recheck" =>
                 task'[u] = task[u] /\ task[u].eid # e
            BY <2>2 DEF Moves, OneHolder, Carrying, e
        <3> QED
            BY <2>10, <2>11, <3>1, <3>2 DEF HeldNotEnded
    <2>13. RecoveryFollowsAlert'
        BY <1>2, <2>2, <2>3, <2>10 DEF RecoveryFollowsAlert, Moves
    <2>14. RecoveryAnnouncedOnce'
        BY <1>1, <1>2, <2>2, <2>3 DEF RecoveryAnnouncedOnce, Recovers, Ended, Owing, Moves
    <2> QED
        BY <1>6, <2>5, <2>6, <2>7, <2>8, <2>9, <2>12, <2>13, <2>14 DEF Preserves
<1>8. CASE ~(rt[k].firing /\ rt[k].event_id # NoEvent)
    <2>1. Moves(t, "eval", task[t].key, task[t].eid)
        BY <1>1, <1>8, SkipMoves DEF Clearing
    <2>2. rt[k].event_id = NoEvent
        BY <1>8 DEF CellShape
    <2>3. \A j \in Key : rt'[j].event_id = rt[j].event_id
        BY <1>3, <1>4, <2>2
    <2>4. /\ \A f : Announced(f) => Announced(f)'
          /\ \A f : Ended(f)' => Ended(f)
          /\ RecoveryFollowsAlert'
          /\ RecoveryAnnouncedOnce'
        BY <1>1, <1>2, <2>1, NoticesKept
    <2>5. TaskShape'
        BY <1>1, <1>2, <2>1 DEF TaskShape, Moves
    <2>6. OneHolder'
        BY <1>1, <1>2, <2>1, <2>3 DEF OneHolder, Carrying, Moves
    <2>7. HeldEventsOpen => HeldEventsOpen'
        BY <1>1, <1>2, <1>5, <2>1 DEF HeldEventsOpen, Moves
    <2>8. LetsGoOfNone
        BY <1>1, <1>2, <1>3, <2>1, <2>2, RowTypes
           DEF LetsGoOfNone, Held, Names, Carries, Moves
    <2>9. NoSilentAlert'
        BY <1>1, <1>2, <1>3, <1>4, <2>1 DEF NoSilentAlert, Moves
    <2>10. HeldNotEnded'
        BY <1>1, <2>1, <2>3, <2>4 DEF HeldNotEnded, Moves
    <2> QED
        BY <1>6, <2>4, <2>5, <2>6, <2>7, <2>8, <2>9, <2>10 DEF Preserves
<1> QED
    BY <1>7, <1>8

\* The INSERT puts a new id into the hands of the task that was waiting for it.
LEMMA InsertKeeps ==
    ASSUME TypeOK, TypeOK', Kept, NEW t \in Tasks, Insert(t)
    PROVE  Preserves
<1> USE DEF Kept, Holding
<1> DEFINE k == task[t].key
<1>1. task[t].pc = "insert" /\ task \in [Tasks -> Task] /\ k \in Key
    BY DEF Insert, TypeOK, TaskShape
<1>2. /\ UNCHANGED <<rt, pushed, stuck, silent>>
      /\ open' = open \cup {[id |-> nextId, key |-> k]}
      /\ nextId' = nextId + 1 /\ nextId \in EventId
    BY DEF Insert, TypeOK
<1>3. Moves(t, "recheck", k, nextId)
    <2>1. Goto(t, "recheck", k, nextId)
        BY DEF Insert
    <2> QED
        BY <1>1, <1>2, <2>1, GotoMoves DEF Pc
<1> HIDE DEF k
<1>4. \A x \in open : x.id < nextId /\ x.id \in EventId /\ x.key \in Key
    BY RowTypes DEF IdsUsedOnce
<1>5. \A j \in Key : rt[j].event_id \in Nat /\ rt[j].event_id # nextId
    BY <1>2 DEF CellShape, TypeOK, Breach
<1>6. \A u \in Tasks : task[u].pc \in Holding => task[u].eid # nextId
    BY <1>2 DEF TaskShape
<1>7. /\ \A f : Announced(f) => Announced(f)'
      /\ \A f : Ended(f)' => Ended(f)
      /\ RecoveryFollowsAlert'
      /\ RecoveryAnnouncedOnce'
    BY <1>1, <1>2, <1>3, NoticesKept
<1>8. TaskShape' /\ CellShape'
    BY <1>1, <1>2, <1>3, <1>5 DEF TaskShape, CellShape, Moves
<1>9. IdsUsedOnce'
    <2>1. \A m \in pushed : m.id \in Nat /\ m.id < nextId
        BY DEF IdsUsedOnce, TypeOK, Notice
    <2> QED
        BY <1>2, <1>4, <2>1 DEF IdsUsedOnce
<1>10. OneHolder'
    BY <1>1, <1>2, <1>3, <1>5, <1>6 DEF OneHolder, Carrying, Moves
<1>11. HeldEventsOpen => HeldEventsOpen'
    BY <1>2, <1>3 DEF HeldEventsOpen, CellNamesOpenRow, Moves
<1>12. LetsGoOfNone
    BY <1>1, <1>2, <1>3 DEF LetsGoOfNone, Held, Names, Carries, Moves
<1>13. NoSilentAlert'
    BY <1>1, <1>2, <1>3 DEF NoSilentAlert, Moves, k
<1>14. HeldNotEnded'
    <2>1. ~Ended(nextId)
        BY <1>2, <1>6 DEF Ended, Owing, IdsUsedOnce
    <2> QED
        BY <1>2, <1>3, <1>7, <2>1 DEF HeldNotEnded, Moves
<1> QED
    BY <1>7, <1>8, <1>9, <1>10, <1>11, <1>12, <1>13, <1>14 DEF Preserves

\* A failed INSERT leaves a firing cell without an event, and on record.
LEMMA InsertFailsKeeps ==
    ASSUME TypeOK, TypeOK', Kept, NEW t \in Tasks, InsertFails(t)
    PROVE  Preserves
<1> USE DEF Kept, Holding
<1>1. task[t].pc = "insert" /\ task \in [Tasks -> Task]
    BY DEF InsertFails, TypeOK
<1>2. UNCHANGED <<rt, open, nextId, pushed, stuck>> /\ silent' = silent \cup {task[t].key}
    BY DEF InsertFails
<1>3. Moves(t, "eval", NoKey, NoEvent)
    BY <1>1, ContinueMoves DEF InsertFails
<1>4. /\ \A f : Announced(f) => Announced(f)'
      /\ \A f : Ended(f)' => Ended(f)
      /\ RecoveryFollowsAlert'
      /\ RecoveryAnnouncedOnce'
    BY <1>1, <1>2, <1>3, NoticesKept
<1>5. TaskShape'
    BY <1>2, <1>3 DEF TaskShape, Moves
<1>6. IdsUsedOnce' /\ CellShape'
    BY <1>2 DEF IdsUsedOnce, CellShape
<1>7. OneHolder'
    BY <1>2, <1>3 DEF OneHolder, Carrying, Moves
<1>8. HeldEventsOpen => HeldEventsOpen'
    BY <1>2, <1>3 DEF HeldEventsOpen, CellNamesOpenRow, Moves
<1>9. LetsGoOfNone
    BY <1>1, <1>2, <1>3 DEF LetsGoOfNone, Held, Names, Carries, Moves
<1>10. NoSilentAlert'
    BY <1>1, <1>2, <1>3 DEF NoSilentAlert, Moves
<1>11. HeldNotEnded'
    BY <1>2, <1>3, <1>4 DEF HeldNotEnded, Moves
<1> QED
    BY <1>4, <1>5, <1>6, <1>7, <1>8, <1>9, <1>10, <1>11 DEF Preserves

\* The write-back hands the event from the task to its cell and announces it,
\* or leaves it with the task to be closed again.
LEMMA RecheckKeeps ==
    ASSUME TypeOK, TypeOK', Kept, NEW t \in Tasks, Recheck(t)
    PROVE  Preserves
<1> USE DEF Kept, Holding
<1> DEFINE k == task[t].key
           e == task[t].eid
<1>1. task[t].pc = "recheck" /\ task \in [Tasks -> Task]
    BY DEF Recheck, TypeOK
<1>2. UNCHANGED <<open, nextId, pushed, stuck, silent>>
    BY DEF Recheck
<1>3. /\ k \in Key /\ e \in EventId /\ e < nextId
      /\ ~Ended(e)
      /\ \A j \in Key : rt[j].event_id # e
      /\ \A u \in Tasks : u # t /\ Carrying(u) => task[u].eid # e
    BY <1>1 DEF TaskShape, OneHolder, Carrying, HeldNotEnded
<1>4. IdsUsedOnce'
    BY <1>2 DEF IdsUsedOnce
<1>5. CASE rt[k].firing /\ rt[k].event_id = NoEvent
    <2>1. Moves(t, "alert", k, e)
        <3>1. Goto(t, "alert", k, e)
            BY <1>5 DEF Recheck
        <3> QED
            BY <1>1, <1>3, <3>1, GotoMoves DEF Pc
    <2>2. rt'[k].firing /\ rt'[k].event_id = e
        BY <1>3, <1>5 DEF Recheck, TypeOK, Breach
    <2>3. \A j \in Key : j # k => rt'[j] = rt[j]
        BY <1>3, <1>5 DEF Recheck, TypeOK
    <2>4. /\ \A f : Announced(f) => Announced(f)'
          /\ \A f : Ended(f)' => Ended(f)
          /\ RecoveryFollowsAlert'
          /\ RecoveryAnnouncedOnce'
        BY <1>1, <1>2, <2>1, NoticesKept
    <2>5. HeldEventsOpen => [id |-> e, key |-> k] \in open
        BY <1>1 DEF HeldEventsOpen
    <2> HIDE DEF k, e
    <2>6. TaskShape' /\ CellShape'
        BY <1>2, <1>3, <2>1, <2>2, <2>3 DEF TaskShape, CellShape, Moves
    <2>7. OneHolder'
        BY <1>2, <1>3, <2>1, <2>2, <2>3 DEF OneHolder, Carrying, Moves
    <2>8. HeldEventsOpen => HeldEventsOpen'
        BY <1>2, <1>3, <2>1, <2>2, <2>3, <2>5 DEF HeldEventsOpen, CellNamesOpenRow, Moves
    <2>9. LetsGoOfNone
        <3> SUFFICES ASSUME NEW x \in open, Held(x) PROVE Held(x)'
            BY <1>2 DEF LetsGoOfNone
        <3>1. x.key \in Key /\ x.id # NoEvent
            BY RowTypes
        <3>2. CASE Names(x.key, x.id)
            BY <1>5, <2>3, <3>1, <3>2 DEF Held, Names
        <3>3. CASE \E u \in Tasks : u # t /\ Carries(u, x.id) /\ task[u].key = x.key
            BY <2>1, <3>3 DEF Held, Carries, Moves
        <3>4. CASE Carries(t, x.id) /\ task[t].key = x.key
            BY <2>2, <3>4 DEF Held, Carries, Names, k, e
        <3>5. CASE x.id \in stuck
            BY <1>2, <3>5 DEF Held
        <3> QED
            BY <3>2, <3>3, <3>4, <3>5 DEF Held
    <2>10. NoSilentAlert'
        BY <1>2, <1>3, <2>1, <2>2, <2>3 DEF NoSilentAlert, Moves, k
    <2>11. HeldNotEnded'
        <3>1. \A f : f = e => Announced(f)'
            BY <2>1 DEF Announced, Moves
        <3> QED
            BY <1>2, <1>3, <2>1, <2>2, <2>3, <2>4, <3>1 DEF HeldNotEnded, Moves
    <2> QED
        BY <1>4, <2>4, <2>6, <2>7, <2>8, <2>9, <2>10, <2>11 DEF Preserves
<1>6. CASE ~(rt[k].firing /\ rt[k].event_id = NoEvent)
    <2>1. Moves(t, "undo", k, e)
        <3>1. Goto(t, "undo", k, e)
            BY <1>6 DEF Recheck
        <3> QED
            BY <1>1, <1>3, <3>1, GotoMoves DEF Pc
    <2>2. rt' = rt
        BY <1>6 DEF Recheck
    <2>3. /\ \A f : Announced(f) => Announced(f)'
          /\ \A f : Ended(f)' => Ended(f)
          /\ RecoveryFollowsAlert'
          /\ RecoveryAnnouncedOnce'
        BY <1>1, <1>2, <2>1, NoticesKept
    <2> HIDE DEF e
    <2>4. TaskShape' /\ CellShape'
        BY <1>2, <1>3, <2>1, <2>2 DEF TaskShape, CellShape, Moves
    <2>5. OneHolder'
        BY <1>1, <1>2, <1>3, <2>1, <2>2 DEF OneHolder, Carrying, Moves
    <2>6. HeldEventsOpen => HeldEventsOpen'
        BY <1>2, <2>1, <2>2 DEF HeldEventsOpen, CellNamesOpenRow, Moves
    <2>7. LetsGoOfNone
        BY <1>1, <1>2, <2>1, <2>2 DEF LetsGoOfNone, Held, Names, Carries, Moves, e
    <2>8. NoSilentAlert'
        BY <1>2, <1>6, <2>1, <2>2 DEF NoSilentAlert, Moves
    <2>9. HeldNotEnded'
        BY <2>1, <2>2, <2>3 DEF HeldNotEnded, Moves
    <2> QED
        BY <1>4, <2>3, <2>4, <2>5, <2>6, <2>7, <2>8, <2>9 DEF Preserves
<1> QED
    BY <1>5, <1>6

\* What is left of the table when the event a task carries has been closed, or
\* has not.
LEMMA CloseCarried ==
    ASSUME NEW t \in Tasks, Close(OpenRow(task[t].eid)) \/ CloseFails(OpenRow(task[t].eid))
    PROVE  /\ open' \subseteq open
           /\ stuck \subseteq stuck'
           /\ \A x \in open : x.id # task[t].eid => x \in open'
           /\ \A x \in open' : x.id = task[t].eid => x.id \in stuck'
<1>1. CASE Close(OpenRow(task[t].eid))
    BY <1>1 DEF Close, OpenRow
<1>2. CASE CloseFails(OpenRow(task[t].eid))
    BY <1>2 DEF CloseFails, OpenRow
<1> QED
    BY <1>1, <1>2

\* What Undo and Resolve have in common: the task closes the event it carries,
\* which no cell and no other task holds.
LEMMA ClosingKeeps ==
    ASSUME TypeOK, TypeOK', Kept, NEW t \in Tasks, task[t].pc \in {"undo", "resolve"},
           Close(OpenRow(task[t].eid)) \/ CloseFails(OpenRow(task[t].eid)),
           NEW pc \in {"eval", "recover"}, NEW key, NEW e, Moves(t, pc, key, e),
           UNCHANGED <<rt, nextId, pushed, silent>>
    PROVE  /\ IdsUsedOnce' /\ CellShape' /\ OneHolder' /\ NoSilentAlert'
           /\ LetsGoOfNone
           /\ HeldEventsOpen => HeldEventsOpen'
<1> USE DEF Kept, Holding
<1>1. /\ open' \subseteq open
      /\ stuck \subseteq stuck'
      /\ \A x \in open : x.id # task[t].eid => x \in open'
      /\ \A x \in open' : x.id = task[t].eid => x.id \in stuck'
    BY CloseCarried
<1>2. IdsUsedOnce' /\ CellShape'
    BY <1>1 DEF IdsUsedOnce, CellShape
<1>3. OneHolder'
    BY DEF OneHolder, Carrying, Moves
<1>4. HeldEventsOpen => HeldEventsOpen'
    <2>1. \A j \in Key : rt[j].event_id # task[t].eid
        BY DEF OneHolder, Carrying
    <2>2. \A u \in Tasks : task'[u].pc = "recheck" =>
             task'[u] = task[u] /\ task[u].eid # task[t].eid
        BY DEF Moves, OneHolder, Carrying
    <2> QED
        BY <1>1, <2>1, <2>2 DEF HeldEventsOpen, CellNamesOpenRow
<1>5. LetsGoOfNone
    BY <1>1 DEF LetsGoOfNone, Held, Names, Carries, Moves
<1>6. NoSilentAlert'
    BY DEF NoSilentAlert, Moves
<1> QED
    BY <1>2, <1>3, <1>4, <1>5, <1>6

\* Undoing an INSERT ends a carried event that nobody was told of.
LEMMA UndoKeeps ==
    ASSUME TypeOK, TypeOK', Kept, NEW t \in Tasks, Undo(t)
    PROVE  Preserves
<1> USE DEF Kept, Holding
<1>1. task[t].pc = "undo" /\ task \in [Tasks -> Task]
    BY DEF Undo, TypeOK
<1>2. UNCHANGED <<rt, nextId, pushed, silent>>
    BY DEF Undo
<1>3. Moves(t, "eval", NoKey, NoEvent)
    BY <1>1, ContinueMoves DEF Undo
<1>4. /\ IdsUsedOnce' /\ CellShape' /\ OneHolder' /\ NoSilentAlert'
      /\ LetsGoOfNone
      /\ HeldEventsOpen => HeldEventsOpen'
    BY <1>1, <1>2, <1>3, ClosingKeeps DEF Undo
<1>5. /\ \A f : Announced(f) => Announced(f)'
      /\ \A f : Ended(f)' => Ended(f)
      /\ RecoveryFollowsAlert'
      /\ RecoveryAnnouncedOnce'
    BY <1>1, <1>2, <1>3, NoticesKept
<1>6. TaskShape'
    BY <1>2, <1>3 DEF TaskShape, Moves
<1>7. HeldNotEnded'
    BY <1>2, <1>3, <1>5 DEF HeldNotEnded, Moves
<1> QED
    BY <1>4, <1>5, <1>6, <1>7 DEF Preserves

\* Resolving ends a carried event; its recovery is still owed.
LEMMA ResolveKeeps ==
    ASSUME TypeOK, TypeOK', Kept, NEW t \in Tasks, Resolve(t)
    PROVE  Preserves
<1> USE DEF Kept, Holding
<1>1. task[t].pc = "resolve" /\ task \in [Tasks -> Task]
    BY DEF Resolve, TypeOK
<1>2. UNCHANGED <<rt, nextId, pushed, silent>>
    BY DEF Resolve
<1>3. task[t].key \in Key /\ task[t].eid \in EventId /\ task[t].eid < nextId
    BY <1>1 DEF TaskShape
<1>4. Moves(t, "recover", task[t].key, task[t].eid)
    <2>1. Goto(t, "recover", task[t].key, task[t].eid)
        BY DEF Resolve
    <2> QED
        BY <1>1, <1>3, <2>1, GotoMoves DEF Pc
<1>5. /\ IdsUsedOnce' /\ CellShape' /\ OneHolder' /\ NoSilentAlert'
      /\ LetsGoOfNone
      /\ HeldEventsOpen => HeldEventsOpen'
    BY <1>1, <1>2, <1>4, ClosingKeeps DEF Resolve
<1>6. \A f : (Announced(f) => Announced(f)') /\ (Ended(f)' => Ended(f))
    BY <1>1, <1>2, <1>4 DEF Announced, Ended, Owing, Moves
<1>7. TaskShape'
    BY <1>2, <1>3, <1>4 DEF TaskShape, Moves
<1>8. HeldNotEnded'
    BY <1>2, <1>4, <1>6 DEF HeldNotEnded, Moves
<1>9. RecoveryFollowsAlert'
    BY <1>1, <1>2, <1>4, <1>6 DEF RecoveryFollowsAlert, Moves
<1>10. RecoveryAnnouncedOnce'
    BY <1>1, <1>2, <1>4 DEF RecoveryAnnouncedOnce, Recovers, Moves
<1> QED
    BY <1>5, <1>7, <1>8, <1>9, <1>10 DEF Preserves

\* A notice goes out: an alert stays announced, a recovery stays ended.
LEMMA PushKeeps ==
    ASSUME TypeOK, TypeOK', Kept, NEW t \in Tasks, Push(t)
    PROVE  Preserves
<1> USE DEF Kept, Holding
<1> DEFINE e == task[t].eid
           m == [id |-> e, firing |-> task[t].pc = "alert"]
<1>1. task[t].pc \in {"alert", "recover"} /\ task \in [Tasks -> Task]
    BY DEF Push, TypeOK
<1>2. UNCHANGED <<rt, open, nextId, stuck, silent>> /\ pushed' = pushed \cup {m}
    BY DEF Push
<1>3. Moves(t, "eval", NoKey, NoEvent)
    BY <1>1, ContinueMoves DEF Push
<1>4. e \in EventId /\ e < nextId
    BY <1>1 DEF TaskShape
<1>5. \A f : Announced(f) => Announced(f)'
    BY <1>2, <1>3 DEF Announced, Moves
<1>6. \A f : Ended(f)' => Ended(f)
    BY <1>1, <1>2, <1>3 DEF Ended, Owing, Moves
<1>7. TaskShape'
    BY <1>2, <1>3 DEF TaskShape, Moves
<1>8. IdsUsedOnce' /\ CellShape'
    BY <1>2, <1>4 DEF IdsUsedOnce, CellShape
<1>9. OneHolder'
    BY <1>2, <1>3 DEF OneHolder, Carrying, Moves
<1>10. HeldEventsOpen => HeldEventsOpen'
    BY <1>2, <1>3 DEF HeldEventsOpen, CellNamesOpenRow, Moves
<1>11. LetsGoOfNone
    BY <1>1, <1>2, <1>3 DEF LetsGoOfNone, Held, Names, Carries, Moves
<1>12. NoSilentAlert'
    BY <1>1, <1>2, <1>3 DEF NoSilentAlert, Moves
<1>13. HeldNotEnded'
    BY <1>2, <1>3, <1>5, <1>6 DEF HeldNotEnded, Moves
<1>14. RecoveryFollowsAlert'
    <2>1. ~m.firing => Announced(e)
        BY <1>1 DEF RecoveryFollowsAlert
    <2> QED
        BY <1>2, <1>3, <1>5, <2>1 DEF RecoveryFollowsAlert, Moves
<1>15. RecoveryAnnouncedOnce'
    BY <1>1, <1>2, <1>3 DEF RecoveryAnnouncedOnce, Recovers, Moves
<1> QED
    BY <1>7, <1>8, <1>9, <1>10, <1>11, <1>12, <1>13, <1>14, <1>15 DEF Preserves

-----------------------------------------------------------------------------
(* The steps around the evaluator, and its theorems.                       *)

\* Pruning drops no firing cell and no event.
LEMMA EndPatrolKeeps ==
    ASSUME TypeOK, TypeOK', Kept, EndPatrol
    PROVE  Preserves
<1>1. UNCHANGED <<open, nextId, pushed, stuck, silent>>
    BY DEF EndPatrol
<1>2. \A k \in Key : rt'[k].event_id = rt[k].event_id /\ rt'[k].firing = rt[k].firing
    <2> SUFFICES ASSUME NEW k \in Key
                 PROVE  rt'[k].event_id = rt[k].event_id /\ rt'[k].firing = rt[k].firing
        OBVIOUS
    <2>1. rt'[k] = Pruned(rt[k], task[Patrol].now) /\ rt[k] \in Breach
        BY DEF EndPatrol, TypeOK
    <2>2. CASE Retained(rt[k], task[Patrol].now)
        BY <2>1, <2>2 DEF Pruned
    <2>3. CASE ~Retained(rt[k], task[Patrol].now)
        <3>1. rt[k].firing = FALSE
            BY <2>1, <2>3 DEF Retained, Breach
        <3>2. rt[k].event_id = NoEvent
            BY <3>1 DEF Kept, CellShape
        <3>3. rt'[k] = Fresh
            BY <2>1, <2>3 DEF Pruned
        <3>4. Fresh.firing = FALSE /\ Fresh.event_id = NoEvent
            BY DEF Fresh
        <3> QED
            BY <3>1, <3>2, <3>3, <3>4
    <2> QED
        BY <2>2, <2>3
<1>3. \A t \in Tasks : \/ task'[t] = task[t]
                       \/ task[t].pc = "eval" /\ task'[t].pc = "idle"
    BY DEF EndPatrol, TypeOK, Idle
<1>4. TaskShape' /\ CellShape' /\ IdsUsedOnce' /\ OneHolder'
    BY <1>1, <1>2, <1>3 DEF Kept, Holding, TaskShape, CellShape, IdsUsedOnce, OneHolder, Carrying
<1>5. NoSilentAlert' /\ LetsGoOfNone /\ (HeldEventsOpen => HeldEventsOpen')
    BY <1>1, <1>2, <1>3, RowTypes
       DEF Kept, HeldEventsOpen, CellNamesOpenRow, LetsGoOfNone, Held, NoSilentAlert, Names, Carries
<1>6. \A e : (Announced(e) => Announced(e)') /\ (Ended(e)' => Ended(e))
    BY <1>1, <1>3 DEF Announced, Ended, Owing
<1>7. HeldNotEnded'
    BY <1>2, <1>3, <1>6 DEF Kept, HeldNotEnded
<1>8. RecoveryFollowsAlert' /\ RecoveryAnnouncedOnce'
    BY <1>1, <1>3, <1>6 DEF Kept, RecoveryFollowsAlert, RecoveryAnnouncedOnce, Recovers
<1> QED
    BY <1>4, <1>5, <1>7, <1>8 DEF Kept, Preserves

\* A restart closes the table, or puts all of it on record as stuck.
LEMMA RestartKeeps ==
    ASSUME TypeOK, TypeOK', Kept, Restart
    PROVE  Preserves
<1> USE DEF Kept, Holding
<1>1. /\ \A k \in Key : rt'[k] = Fresh
      /\ \A t \in Tasks : task'[t] = Idle
      /\ pushed' = {} /\ nextId' = nextId
    BY DEF Restart
<1>2. open' \subseteq open /\ \A x \in open' : x.id \in stuck'
    BY DEF Restart, Close, CloseFails
<1>3. TaskShape' /\ CellShape' /\ OneHolder'
    BY <1>1 DEF TaskShape, CellShape, OneHolder, Carrying, Fresh, Idle
<1>4. IdsUsedOnce'
    BY <1>1, <1>2 DEF IdsUsedOnce
<1>5. NoSilentAlert' /\ HeldNotEnded' /\ HeldEventsOpen'
    BY <1>1 DEF NoSilentAlert, HeldNotEnded, HeldEventsOpen, CellNamesOpenRow, Fresh, Idle
<1>6. LetsGoOfNone
    BY <1>2 DEF LetsGoOfNone, Held
<1>7. RecoveryFollowsAlert' /\ RecoveryAnnouncedOnce'
    BY <1>1 DEF RecoveryFollowsAlert, RecoveryAnnouncedOnce, Recovers, Idle
<1> QED
    BY <1>3, <1>4, <1>5, <1>6, <1>7 DEF Preserves

\* What any step of the evaluator keeps.
LEMMA EvaluatorKeeps == TypeOK /\ Kept /\ EvaluatorStep => TypeOK' /\ Preserves
<1> SUFFICES ASSUME TypeOK, Kept, EvaluatorStep PROVE TypeOK' /\ Preserves
    OBVIOUS
<1>1. TypeOK'
    BY TypeStep DEF Kept
<1>2. ASSUME NEW t \in Tasks, NEW keys, Start(t, keys) PROVE Preserves
    BY <1>2, QuietKeeps DEF Start, TypeOK
<1>3. ASSUME NEW t \in Tasks, NEW k \in Key, SkipRule(t, k) PROVE Preserves
    BY <1>3, QuietKeeps DEF SkipRule, TypeOK, Task
<1>4. ASSUME NEW t \in Tasks, EndMetrics(t) PROVE Preserves
    BY <1>4, QuietKeeps DEF EndMetrics, TypeOK, Idle
<1>5. CASE ClearEvents
    <2>1. UNCHANGED <<rt, open, nextId, pushed, stuck, silent>>
        BY <1>5 DEF ClearEvents
    <2>2. \A t \in Tasks : task'[t] = task[t]
        BY <1>5 DEF ClearEvents
    <2> QED
        BY <1>1, <2>1, <2>2, QuietKeeps
<1>6. CASE Tick
    <2>1. UNCHANGED <<rt, open, nextId, pushed, stuck, silent>>
        BY <1>6 DEF Tick
    <2>2. \A t \in Tasks : task'[t] = task[t]
        BY <1>6 DEF Tick
    <2> QED
        BY <1>1, <2>1, <2>2, QuietKeeps
<1>7. CASE UNCHANGED vars
    <2>1. UNCHANGED <<rt, open, nextId, pushed, stuck, silent>>
        BY <1>7 DEF vars
    <2>2. \A t \in Tasks : task'[t] = task[t]
        BY <1>7 DEF vars
    <2> QED
        BY <1>1, <2>1, <2>2, QuietKeeps
<1>8. ASSUME NEW t \in Tasks, NEW k \in Key, Breaching(t, k) \/ Clearing(t, k) PROVE Preserves
    BY <1>1, <1>8, BreachingKeeps, ClearingKeeps
<1>9. ASSUME NEW t \in Tasks,
             Insert(t) \/ InsertFails(t) \/ Recheck(t) \/ Undo(t) \/ Resolve(t) \/ Push(t)
      PROVE  Preserves
    BY <1>1, <1>9, InsertKeeps, InsertFailsKeeps, RecheckKeeps, UndoKeeps, ResolveKeeps, PushKeeps
<1>10. EndPatrol \/ Restart => Preserves
    BY <1>1, EndPatrolKeeps, RestartKeeps
<1> QED
    BY <1>1, <1>2, <1>3, <1>4, <1>5, <1>6, <1>7, <1>8, <1>9, <1>10 DEF EvaluatorStep, TaskStep

\* The evaluator starts with nothing in anyone's hands.
LEMMA SafetyInit == Init => SafetyInv
<1> SUFFICES ASSUME Init PROVE SafetyInv
    OBVIOUS
<1>1. TypeOK
    BY DEF Init, TypeOK, Fresh, Breach, Idle, Task, Pc, Row, Notice
<1>2. TaskShape /\ CellShape /\ IdsUsedOnce /\ OneHolder
    BY DEF Init, TaskShape, CellShape, IdsUsedOnce, OneHolder, Carrying, Fresh, Idle, Holding
<1>3. HeldEventsOpen /\ NoGhostEvent /\ NoSilentAlert /\ HeldNotEnded
    BY DEF Init, HeldEventsOpen, CellNamesOpenRow, NoGhostEvent, NoSilentAlert, HeldNotEnded, Fresh, Idle
<1>4. RecoveryFollowsAlert /\ RecoveryAnnouncedOnce
    BY DEF Init, RecoveryFollowsAlert, RecoveryAnnouncedOnce, Recovers, Idle
<1> QED
    BY <1>1, <1>2, <1>3, <1>4 DEF SafetyInv, Kept

\* Without an administrator a row that is held stays held, so that all are.
LEMMA SafetyStep == SafetyInv /\ [Next]_vars => SafetyInv'
<1> SUFFICES ASSUME SafetyInv, [Next]_vars PROVE SafetyInv'
    OBVIOUS
<1>1. TypeOK' /\ Preserves
    BY NextIsEvaluator, EvaluatorKeeps DEF SafetyInv
<1>2. NoGhostEvent'
    BY <1>1 DEF SafetyInv, Preserves, LetsGoOfNone, Held, NoGhostEvent
<1> QED
    BY <1>1, <1>2 DEF SafetyInv, Preserves

\* The inductive invariant holds in every reachable state of the evaluator.
THEOREM EvaluatorInvariant == Spec => []SafetyInv
BY SafetyInit, SafetyStep, PTL DEF Spec

\* Cells, rows, tasks and notices keep the shape the source gives them.
THEOREM EvaluatorTypeCorrect == Spec => []TypeOK
<1>1. SafetyInv => TypeOK
    BY DEF SafetyInv
<1> QED
    BY <1>1, EvaluatorInvariant, PTL

\* However many samples are evaluated at once, a row that alert_events shows as
\* firing is held by its cell or by the one task that will close it, or its
\* closing UPDATE failed (transition).
THEOREM NoGhosts == Spec => []NoGhostEvent
<1>1. SafetyInv => NoGhostEvent
    BY DEF SafetyInv, Kept, HeldEventsOpen
<1> QED
    BY <1>1, EvaluatorInvariant, PTL

\* The row a cell names as its event is there and open.
THEOREM CellsHaveRows == Spec => []CellNamesOpenRow
<1>1. SafetyInv => CellNamesOpenRow
    BY DEF SafetyInv, Kept, HeldEventsOpen
<1> QED
    BY <1>1, EvaluatorInvariant, PTL

\* A firing cell without an event is waiting for one, or its INSERT failed.
THEOREM NoAlertDropped == Spec => []NoSilentAlert
<1>1. SafetyInv => NoSilentAlert
    BY DEF SafetyInv, Kept, HeldEventsOpen
<1> QED
    BY <1>1, EvaluatorInvariant, PTL

\* Within one run of the server a recovery is announced for announced alerts
\* only (the order of push_and_notify after the two locked sections).
THEOREM NoticesPaired == Spec => []RecoveryFollowsAlert
<1>1. SafetyInv => RecoveryFollowsAlert
    BY DEF SafetyInv, Kept, HeldEventsOpen
<1> QED
    BY <1>1, EvaluatorInvariant, PTL

\* A recovery is announced once, whichever tasks see the breach end.
THEOREM RecoveriesNotRepeated == Spec => []RecoveryAnnouncedOnce
<1>1. SafetyInv => RecoveryAnnouncedOnce
    BY DEF SafetyInv, Kept, HeldEventsOpen
<1> QED
    BY <1>1, EvaluatorInvariant, PTL

-----------------------------------------------------------------------------
(* The evaluator under administration.                                     *)

AdminState ==
    [ pc : {"idle", "toggled", "resolve", "forget", "read", "write"},
      rule : Rules \cup {NoRule}, snap : SUBSET Rules, failed : BOOLEAN, alone : BOOLEAN ]

RulesTypeOK ==
    /\ status \in [Rules -> {"unborn", "on", "off", "gone"}]
    /\ rule_cache \subseteq Rules
    /\ admin \in [Admins -> AdminState]
    /\ raced \subseteq EventId

\* Between the two halves of resolve_rule_events no row of the rule is open but
\* for those that the history variables record: every other one was closed.
ForgetWindow ==
    \A a \in Admins : admin[a].pc = "forget" =>
        \A x \in open : x.key[1] = admin[a].rule => x.id \in stuck \cup raced

\* A handler that has been alone is alone.
AloneIsAlone ==
    \A a, b \in Admins : admin[a].alone /\ a # b => admin[b].pc = "idle"

\* What it has read is what the table holds.
SnapCurrent ==
    \A a \in Admins : admin[a].alone /\ admin[a].pc = "write" =>
        admin[a].snap = IF admin[a].failed THEN {} ELSE Enabled

CacheInv == AloneIsAlone /\ SnapCurrent /\ CacheCurrent

RulesInv == TypeOK /\ RulesTypeOK /\ Kept /\ ForgetWindow /\ OrphanOnlyInWindow /\ CacheInv

\* A handler that begins, goes on or ends stays one.
LEMMA BeginAdminTypes ==
    ASSUME RulesTypeOK, NEW a \in Admins, NEW r \in Rules,
           NEW pc \in {"read", "toggled", "forget"}, BeginAdmin(a, pc, r)
    PROVE  /\ admin' \in [Admins -> AdminState]
           /\ admin'[a].pc = pc /\ admin'[a].rule = r /\ admin'[a].alone = AdminsIdle
           /\ \A b \in Admins : b # a =>
                 /\ ~admin'[b].alone
                 /\ admin'[b].pc = admin[b].pc /\ admin'[b].rule = admin[b].rule
<1>1. AdminsIdle \in BOOLEAN
    BY DEF AdminsIdle
<1> QED
    BY <1>1 DEF BeginAdmin, RulesTypeOK, AdminState, IdleAdmin

LEMMA GotoTypes ==
    ASSUME RulesTypeOK, NEW a \in Admins, NEW pc \in {"read", "resolve", "forget"},
           AdminGoto(a, pc, admin[a].rule)
    PROVE  /\ admin' \in [Admins -> AdminState]
           /\ admin'[a].pc = pc /\ admin'[a].rule = admin[a].rule
           /\ admin'[a].alone = admin[a].alone
           /\ \A b \in Admins : b # a => admin'[b] = admin[b]
BY DEF AdminGoto, RulesTypeOK, AdminState

LEMMA EndTypes ==
    ASSUME RulesTypeOK, NEW a \in Admins, admin' = [admin EXCEPT ![a] = IdleAdmin]
    PROVE  /\ admin' \in [Admins -> AdminState]
           /\ admin'[a] = IdleAdmin
           /\ \A b \in Admins : b # a => admin'[b] = admin[b]
BY DEF RulesTypeOK, AdminState, IdleAdmin

LEMMA ReadTypes ==
    ASSUME RulesTypeOK, NEW a \in Admins, ReloadRead(a)
    PROVE  /\ admin' \in [Admins -> AdminState]
           /\ admin'[a].pc = "write" /\ admin'[a].alone = admin[a].alone
           /\ admin'[a].snap = IF admin'[a].failed THEN {} ELSE Enabled
           /\ \A b \in Admins : b # a => admin'[b] = admin[b]
<1>1. PICK failed \in BOOLEAN :
         admin' = [admin EXCEPT ![a] =
            [@ EXCEPT !.pc = "write", !.snap = IF failed THEN {} ELSE Enabled, !.failed = failed]]
    BY DEF ReloadRead, RulesTypeOK, AdminState
<1>2. Enabled \in SUBSET Rules
    BY DEF Enabled
<1>3. /\ admin'[a].pc = "write" /\ admin'[a].alone = admin[a].alone
      /\ admin'[a].failed = failed
      /\ admin'[a].snap = IF failed THEN {} ELSE Enabled
    BY <1>1 DEF RulesTypeOK, AdminState
<1>4. admin'[a] \in AdminState
    BY <1>1, <1>2 DEF RulesTypeOK, AdminState
<1> QED
    BY <1>1, <1>3, <1>4 DEF RulesTypeOK

\* Types are kept under administration.
LEMMA RulesTypeStep == TypeOK /\ RulesTypeOK /\ [RulesNext]_allVars => RulesTypeOK'
<1> SUFFICES ASSUME TypeOK, RulesTypeOK, [RulesNext]_allVars PROVE RulesTypeOK'
    OBVIOUS
<1> USE DEF RulesTypeOK
<1>1. ASSUME NEW a \in Admins, NEW r \in Rules,
             CreateRule(a, r) \/ ToggleRule(a, r) \/ DeleteRule(a, r)
      PROVE  RulesTypeOK'
    <2>1. admin' \in [Admins -> AdminState]
        BY <1>1, BeginAdminTypes DEF CreateRule, ToggleRule, DeleteRule
    <2> QED
        BY <1>1, <2>1 DEF CreateRule, ToggleRule, DeleteRule
<1>2. ASSUME NEW a \in Admins, ReadEnabled(a) \/ ResolveRows(a) \/ Forget(a) PROVE RulesTypeOK'
    <2>1. admin' \in [Admins -> AdminState]
        BY <1>2, GotoTypes DEF ReadEnabled, ResolveRows, Forget
    <2> QED
        BY <1>2, <2>1 DEF ReadEnabled, ResolveRows, Forget
<1>3. ASSUME NEW a \in Admins, ReloadRead(a) PROVE RulesTypeOK'
    BY <1>3, ReadTypes DEF ReloadRead
<1>4. ASSUME NEW a \in Admins, ReloadWrite(a) \/ Abandon(a) PROVE RulesTypeOK'
    <2>1. admin' \in [Admins -> AdminState]
        BY <1>4, EndTypes DEF ReloadWrite, Abandon
    <2>2. admin[a].snap \subseteq Rules
        BY DEF AdminState
    <2> QED
        BY <1>4, <2>1, <2>2 DEF ReloadWrite, Abandon
<1>5. ASSUME NEW t \in Tasks, InsertChecked(t) PROVE RulesTypeOK'
    <2>1. nextId \in EventId
        BY DEF TypeOK
    <2> QED
        BY <1>5, <2>1 DEF InsertChecked
<1>6. CASE Evaluate
    BY <1>6 DEF Evaluate, ruleVars
<1>7. CASE RestartAndLoad
    BY <1>7 DEF RestartAndLoad, IdleAdmin, AdminState, Enabled
<1>8. CASE UNCHANGED allVars
    BY <1>8 DEF allVars, ruleVars
<1> QED
    BY <1>1, <1>2, <1>3, <1>4, <1>5, <1>6, <1>7, <1>8 DEF RulesNext

\* What runs under administration are steps of the evaluator, from the rules
\* that the cache holds.
LEMMA EvaluatesFromCache ==
    ASSUME RulesTypeOK, Evaluate \/ RestartAndLoad \/ \E t \in Tasks : InsertChecked(t)
    PROVE  EvaluatorStep
<1>1. rule_cache \in SUBSET Rules
    BY DEF RulesTypeOK
<1>2. ASSUME NEW t \in Workers, NEW n \in Nodes, BeginMetrics(t, n, rule_cache)
      PROVE  EvaluatorStep
    BY <1>1, <1>2, StartsTyped DEF BeginMetrics, EvaluatorStep
<1>3. ASSUME NEW ns \in SUBSET Nodes, BeginPatrol(ns, rule_cache) PROVE EvaluatorStep
    BY <1>1, <1>3, StartsTyped DEF BeginPatrol, EvaluatorStep
<1>4. CASE Evaluate
    BY <1>2, <1>3, <1>4 DEF Evaluate, EvaluatorStep, TaskStep
<1>5. CASE RestartAndLoad
    BY <1>5 DEF RestartAndLoad, EvaluatorStep
<1>6. CASE \E t \in Tasks : InsertChecked(t)
    BY <1>6 DEF InsertChecked, EvaluatorStep, TaskStep
<1> QED
    BY <1>4, <1>5, <1>6

\* Rows come by an INSERT only, and what is stuck is on record for good.
LEMMA RowsComeByInsert ==
    ASSUME Evaluate \/ RestartAndLoad
    PROVE  open' \subseteq open /\ stuck \subseteq stuck'
<1>1. CASE Evaluate
    <2>1. ASSUME NEW t, NEW keys, Start(t, keys) PROVE open' = open /\ stuck' = stuck
        BY <2>1 DEF Start
    <2>2. ASSUME NEW t, NEW k, SkipRule(t, k) \/ Breaching(t, k) \/ Clearing(t, k)
          PROVE  open' = open /\ stuck' = stuck
        BY <2>2 DEF SkipRule, Breaching, Clearing
    <2>3. ASSUME NEW t, InsertFails(t) \/ Recheck(t) \/ Push(t) \/ EndMetrics(t)
          PROVE  open' = open /\ stuck' = stuck
        BY <2>3 DEF InsertFails, Recheck, Push, EndMetrics
    <2>4. ASSUME NEW t \in Tasks, Undo(t) \/ Resolve(t)
          PROVE  open' \subseteq open /\ stuck \subseteq stuck'
        BY <2>4, CloseCarried DEF Undo, Resolve
    <2>5. ASSUME EndPatrol \/ ClearEvents \/ Tick PROVE open' = open /\ stuck' = stuck
        BY <2>5 DEF EndPatrol, ClearEvents, Tick
    <2> QED
        BY <1>1, <2>1, <2>2, <2>3, <2>4, <2>5 DEF Evaluate, BeginMetrics, BeginPatrol
<1>2. CASE RestartAndLoad
    BY <1>2 DEF RestartAndLoad, Restart, Close, CloseFails
<1> QED
    BY <1>1, <1>2

\* The rows and the window survive a step that lets go of no row, adds none and
\* lets no handler into the window.
LEMMA WindowKept ==
    ASSUME ForgetWindow, OrphanOnlyInWindow, LetsGoOfNone,
           open' \subseteq open, stuck \subseteq stuck', raced' = raced,
           \A a \in Admins : admin'[a].pc = "forget" =>
              admin[a].pc = "forget" /\ admin'[a].rule = admin[a].rule
    PROVE  ForgetWindow' /\ OrphanOnlyInWindow'
BY DEF ForgetWindow, OrphanOnlyInWindow, LetsGoOfNone, Held

\* What every action but the INSERT does with the rows.
LEMMA RowsKept ==
    ASSUME TypeOK, RulesTypeOK, Kept, ForgetWindow, OrphanOnlyInWindow,
           Evaluate \/ RestartAndLoad
    PROVE  ForgetWindow' /\ OrphanOnlyInWindow'
<1>1. LetsGoOfNone
    BY EvaluatesFromCache, EvaluatorKeeps DEF Preserves
<1>2. open' \subseteq open /\ stuck \subseteq stuck'
    BY RowsComeByInsert
<1>3. \A a \in Admins : admin'[a].pc = "forget" =>
         admin[a].pc = "forget" /\ admin'[a].rule = admin[a].rule
    BY DEF Evaluate, RestartAndLoad, ruleVars, IdleAdmin
<1>4. raced' = raced
    BY DEF Evaluate, RestartAndLoad, ruleVars
<1> QED
    BY <1>1, <1>2, <1>3, <1>4, WindowKept

\* An INSERT into the window goes on record.
LEMMA InsertCheckedKeeps ==
    ASSUME TypeOK, RulesTypeOK, Kept, ForgetWindow, OrphanOnlyInWindow,
           NEW t \in Tasks, InsertChecked(t)
    PROVE  ForgetWindow' /\ OrphanOnlyInWindow'
<1>1. LetsGoOfNone
    BY EvaluatesFromCache, EvaluatorKeeps DEF Preserves
<1>2. /\ open' = open \cup {[id |-> nextId, key |-> task[t].key]}
      /\ stuck' = stuck /\ admin' = admin /\ raced \subseteq raced'
      /\ (\E a \in Admins : admin[a].pc = "forget" /\ admin[a].rule = task[t].key[1])
            => nextId \in raced'
    BY DEF InsertChecked, Insert
<1>3. ForgetWindow'
    BY <1>2 DEF ForgetWindow
<1>4. OrphanOnlyInWindow'
    BY <1>1, <1>2 DEF OrphanOnlyInWindow, LetsGoOfNone, Held
<1> QED
    BY <1>3, <1>4

\* A handler whose step leaves the evaluator alone, and that is not before its
\* forget_rule.
LEMMA HandlerKeeps ==
    ASSUME TypeOK, Kept, ForgetWindow, OrphanOnlyInWindow,
           UNCHANGED <<vars, raced>>,
           \A a \in Admins : admin'[a].pc = "forget" =>
              admin[a].pc = "forget" /\ admin'[a].rule = admin[a].rule
    PROVE  TypeOK' /\ Kept' /\ ForgetWindow' /\ OrphanOnlyInWindow'
<1>1. TypeOK' /\ Preserves
    BY EvaluatorKeeps DEF EvaluatorStep
<1>2. open' = open /\ stuck' = stuck
    BY DEF vars
<1> QED
    BY <1>1, <1>2, WindowKept DEF Preserves

\* Rows that leave the table, closed or deleted, take nothing from anyone.
LEMMA FewerRows ==
    ASSUME TypeOK, Kept, open' \subseteq open, resolved' \subseteq Row, stuck' \subseteq EventId,
           stuck \subseteq stuck', UNCHANGED <<now, rt, nextId, task, pushed, silent>>
    PROVE  TypeOK' /\ Kept' /\ LetsGoOfNone
<1>1. TypeOK'
    BY DEF TypeOK
<1>2. TaskShape' /\ CellShape' /\ IdsUsedOnce' /\ OneHolder'
    BY DEF Kept, TaskShape, CellShape, IdsUsedOnce, OneHolder, Carrying
<1>3. NoSilentAlert' /\ HeldNotEnded' /\ RecoveryFollowsAlert' /\ RecoveryAnnouncedOnce'
    BY DEF Kept, NoSilentAlert, HeldNotEnded, RecoveryFollowsAlert, RecoveryAnnouncedOnce,
           Announced, Ended, Owing, Recovers
<1>4. LetsGoOfNone
    BY DEF LetsGoOfNone, Held, Names, Carries
<1> QED
    BY <1>1, <1>2, <1>3, <1>4 DEF Kept

\* The first half of resolve_rule_events closes every row of the rule, or puts
\* it on record.
LEMMA ResolveRowsKeeps ==
    ASSUME TypeOK, RulesTypeOK, Kept, ForgetWindow, OrphanOnlyInWindow,
           NEW a \in Admins, ResolveRows(a)
    PROVE  TypeOK' /\ Kept' /\ ForgetWindow' /\ OrphanOnlyInWindow'
<1> DEFINE rows == {x \in open : x.key[1] = admin[a].rule}
<1>1. /\ Close(rows) \/ CloseFails(rows)
      /\ UNCHANGED <<now, rt, nextId, task, pushed, silent>> /\ raced' = raced
    BY DEF ResolveRows
<1>2. open' \subseteq Row /\ resolved' \subseteq Row /\ stuck' \subseteq EventId
    <2>1. rows \in SUBSET open
        OBVIOUS
    <2> HIDE DEF rows
    <2> QED
        BY <1>1, <2>1, CloseTypes
<1>3. /\ open' \subseteq open /\ stuck \subseteq stuck'
      /\ \A x \in open' : x.key[1] = admin[a].rule => x.id \in stuck'
    BY <1>1 DEF Close, CloseFails
<1>4. TypeOK' /\ Kept' /\ LetsGoOfNone
    BY <1>1, <1>2, <1>3, FewerRows
<1>5. /\ admin'[a].rule = admin[a].rule
      /\ \A b \in Admins : b # a => admin'[b] = admin[b]
    BY GotoTypes DEF ResolveRows
<1>6. ForgetWindow'
    BY <1>1, <1>3, <1>5 DEF ForgetWindow
<1>7. OrphanOnlyInWindow'
    BY <1>1, <1>3, <1>4 DEF OrphanOnlyInWindow, LetsGoOfNone, Held
<1> QED
    BY <1>4, <1>6, <1>7

\* Deleting a rule takes its rows along.
LEMMA DeleteRuleKeeps ==
    ASSUME TypeOK, RulesTypeOK, Kept, ForgetWindow, OrphanOnlyInWindow,
           NEW a \in Admins, NEW r \in Rules, DeleteRule(a, r)
    PROVE  TypeOK' /\ Kept' /\ ForgetWindow' /\ OrphanOnlyInWindow'
<1>1. /\ open' = {x \in open : x.key[1] # r}
      /\ resolved' = {x \in resolved : x.key[1] # r}
      /\ UNCHANGED <<now, rt, nextId, task, pushed, stuck, silent>> /\ raced' = raced
    BY DEF DeleteRule
<1>2. TypeOK' /\ Kept' /\ LetsGoOfNone
    <2>1. open' \subseteq open /\ resolved' \subseteq Row /\ stuck' \subseteq EventId /\ stuck \subseteq stuck'
        BY <1>1 DEF TypeOK
    <2> QED
        BY <1>1, <2>1, FewerRows
<1>3. /\ admin'[a].rule = r
      /\ \A b \in Admins : b # a => admin'[b].pc = admin[b].pc /\ admin'[b].rule = admin[b].rule
    BY BeginAdminTypes DEF DeleteRule
<1>4. ForgetWindow'
    BY <1>1, <1>3 DEF ForgetWindow
<1>5. OrphanOnlyInWindow'
    BY <1>1, <1>2 DEF OrphanOnlyInWindow, LetsGoOfNone, Held
<1> QED
    BY <1>2, <1>4, <1>5

\* forget_rule takes the events of the rule out of their cells; the window says
\* what rows they can have.
LEMMA ForgetKeeps ==
    ASSUME TypeOK, RulesTypeOK, Kept, ForgetWindow, OrphanOnlyInWindow,
           NEW a \in Admins, Forget(a)
    PROVE  TypeOK' /\ Kept' /\ ForgetWindow' /\ OrphanOnlyInWindow'
<1> DEFINE r == admin[a].rule
<1>1. /\ admin[a].pc = "forget"
      /\ UNCHANGED <<now, open, resolved, nextId, task, pushed, stuck>> /\ raced' = raced
      /\ silent' = {k \in silent : k[1] # r}
    BY DEF Forget
<1>2. \A k \in Key : rt'[k] = IF k[1] = r THEN Fresh ELSE rt[k]
    BY DEF Forget
<1>3. Fresh \in Breach /\ ~Fresh.firing /\ Fresh.event_id = NoEvent
    BY DEF Fresh, Breach
<1>4. /\ \A k \in Key : rt'[k].event_id # NoEvent => rt'[k] = rt[k]
      /\ \A k \in Key : rt'[k].firing => rt'[k] = rt[k] /\ k[1] # r
    BY <1>2, <1>3
<1> HIDE DEF r
<1>5. TypeOK'
    <2>1. rt' \in [Key -> Breach]
        BY <1>2, <1>3 DEF Forget, TypeOK
    <2> QED
        BY <1>1, <2>1 DEF TypeOK
<1>6. TaskShape' /\ CellShape' /\ IdsUsedOnce'
    BY <1>1, <1>4 DEF Kept, TaskShape, CellShape, IdsUsedOnce
<1>7. OneHolder'
    <2>1. \A t \in Tasks : Carrying(t) => task[t].eid # NoEvent
        BY DEF Kept, TaskShape, Carrying, Holding
    <2> QED
        BY <1>1, <1>4, <2>1 DEF Kept, OneHolder, Carrying
<1>8. NoSilentAlert'
    BY <1>1, <1>4 DEF Kept, NoSilentAlert
<1>9. HeldNotEnded' /\ RecoveryFollowsAlert' /\ RecoveryAnnouncedOnce'
    <2>1. \A e : (Announced(e)' <=> Announced(e)) /\ (Ended(e)' <=> Ended(e))
        BY <1>1 DEF Announced, Ended, Owing
    <2>2. HeldNotEnded'
        BY <1>1, <1>4, <2>1 DEF Kept, HeldNotEnded
    <2>3. RecoveryFollowsAlert' /\ RecoveryAnnouncedOnce'
        BY <1>1, <2>1 DEF Kept, RecoveryFollowsAlert, RecoveryAnnouncedOnce, Recovers
    <2> QED
        BY <2>2, <2>3
<1>10. admin'[a].pc = "read" /\ \A b \in Admins : b # a => admin'[b] = admin[b]
    BY GotoTypes DEF Forget
<1>11. ForgetWindow'
    BY <1>1, <1>10 DEF ForgetWindow
<1>12. OrphanOnlyInWindow'
    <2> SUFFICES ASSUME NEW x \in open, x.id \notin stuck, x.id \notin raced
                 PROVE  \/ Names(x.key, x.id)'
                        \/ \E t \in Tasks : Carries(t, x.id)' /\ task'[t].key = x.key
        BY <1>1 DEF OrphanOnlyInWindow
    <2>1. x.key[1] # r /\ x.key \in Key
        BY <1>1, RowTypes DEF ForgetWindow, r
    <2>2. rt'[x.key] = rt[x.key]
        BY <1>2, <2>1
    <2> QED
        BY <1>1, <2>2 DEF OrphanOnlyInWindow, Names, Carries
<1> QED
    BY <1>5, <1>6, <1>7, <1>8, <1>9, <1>11, <1>12 DEF Kept

\* The evaluator, the rows and the window under administration, step by step.
LEMMA RulesKept ==
    ASSUME TypeOK, RulesTypeOK, Kept, ForgetWindow, OrphanOnlyInWindow, [RulesNext]_allVars
    PROVE  TypeOK' /\ Kept' /\ ForgetWindow' /\ OrphanOnlyInWindow'
<1> DEFINE Goal == TypeOK' /\ Kept' /\ ForgetWindow' /\ OrphanOnlyInWindow'
<1>1. ASSUME NEW a \in Admins, NEW r \in Rules, CreateRule(a, r) \/ ToggleRule(a, r) PROVE Goal
    <2>1. admin'[a].pc \in {"read", "toggled"}
          /\ \A b \in Admins : b # a => admin'[b].pc = admin[b].pc /\ admin'[b].rule = admin[b].rule
        BY <1>1, BeginAdminTypes DEF CreateRule, ToggleRule
    <2>2. UNCHANGED <<vars, raced>>
        BY <1>1 DEF CreateRule, ToggleRule
    <2> QED
        BY <2>1, <2>2, HandlerKeeps
<1>2. ASSUME NEW a \in Admins, ReadEnabled(a) PROVE Goal
    <2>1. admin'[a].pc \in {"read", "resolve"} /\ \A b \in Admins : b # a => admin'[b] = admin[b]
        BY <1>2, GotoTypes DEF ReadEnabled
    <2>2. UNCHANGED <<vars, raced>>
        BY <1>2 DEF ReadEnabled
    <2> QED
        BY <2>1, <2>2, HandlerKeeps
<1>3. ASSUME NEW a \in Admins, ReloadRead(a) PROVE Goal
    <2>1. admin'[a].pc = "write" /\ \A b \in Admins : b # a => admin'[b] = admin[b]
        BY <1>3, ReadTypes
    <2>2. UNCHANGED <<vars, raced>>
        BY <1>3 DEF ReloadRead
    <2> QED
        BY <2>1, <2>2, HandlerKeeps
<1>4. ASSUME NEW a \in Admins, ReloadWrite(a) \/ Abandon(a) PROVE Goal
    <2>1. admin'[a].pc = "idle" /\ \A b \in Admins : b # a => admin'[b] = admin[b]
        BY <1>4, EndTypes DEF ReloadWrite, Abandon, IdleAdmin
    <2>2. UNCHANGED <<vars, raced>>
        BY <1>4 DEF ReloadWrite, Abandon
    <2> QED
        BY <2>1, <2>2, HandlerKeeps
<1>5. ASSUME NEW a \in Admins, ResolveRows(a) \/ Forget(a) PROVE Goal
    BY <1>5, ResolveRowsKeeps, ForgetKeeps
<1>6. ASSUME NEW a \in Admins, NEW r \in Rules, DeleteRule(a, r) PROVE Goal
    BY <1>6, DeleteRuleKeeps
<1>7. ASSUME NEW t \in Tasks, InsertChecked(t) PROVE Goal
    <2>1. TypeOK' /\ Kept'
        BY <1>7, EvaluatesFromCache, EvaluatorKeeps DEF Preserves
    <2> QED
        BY <1>7, <2>1, InsertCheckedKeeps
<1>8. CASE Evaluate \/ RestartAndLoad
    <2>1. TypeOK' /\ Kept'
        BY <1>8, EvaluatesFromCache, EvaluatorKeeps DEF Preserves
    <2> QED
        BY <1>8, <2>1, RowsKept
<1>9. CASE UNCHANGED allVars
    <2>1. UNCHANGED <<vars, raced>> /\ admin' = admin
        BY <1>9 DEF allVars, ruleVars
    <2> QED
        BY <2>1, HandlerKeeps
<1> QED
    BY <1>1, <1>2, <1>3, <1>4, <1>5, <1>6, <1>7, <1>8, <1>9 DEF RulesNext

-----------------------------------------------------------------------------
(* The cache.                                                              *)

\* A handler that begins ends everyone's being alone but its own, if it is.
LEMMA BeginsCached ==
    ASSUME RulesTypeOK, CacheInv, NEW a \in Admins, NEW r \in Rules,
           NEW pc \in {"read", "toggled", "forget"}, BeginAdmin(a, pc, r)
    PROVE  CacheInv'
<1>1. /\ admin'[a].pc = pc /\ admin'[a].alone = AdminsIdle
      /\ \A b \in Admins : b # a => ~admin'[b].alone /\ admin'[b].pc = admin[b].pc
    BY BeginAdminTypes
<1>2. AloneIsAlone'
    BY <1>1 DEF AloneIsAlone, AdminsIdle
<1>3. SnapCurrent'
    BY <1>1 DEF SnapCurrent
<1>4. CacheCurrent'
    BY <1>1 DEF CacheCurrent, AdminsIdle
<1> QED
    BY <1>2, <1>3, <1>4 DEF CacheInv

\* A handler goes on, the table and the cache unchanged.
LEMMA GoesOnCached ==
    ASSUME CacheInv, NEW a \in Admins, admin[a].pc # "idle",
           admin'[a].pc # "idle", admin'[a].alone = admin[a].alone,
           \A b \in Admins : b # a => admin'[b] = admin[b],
           admin'[a].pc = "write" => admin'[a].snap = IF admin'[a].failed THEN {} ELSE Enabled,
           status' = status
    PROVE  CacheInv'
<1>1. AloneIsAlone'
    BY DEF CacheInv, AloneIsAlone
<1>2. SnapCurrent'
    BY DEF CacheInv, SnapCurrent, Enabled
<1>3. CacheCurrent'
    BY DEF CacheCurrent, AdminsIdle
<1> QED
    BY <1>1, <1>2, <1>3 DEF CacheInv

\* What a handler that was alone writes is the table.
LEMMA WritesCached ==
    ASSUME RulesTypeOK, CacheInv, NEW a \in Admins, ReloadWrite(a)
    PROVE  CacheInv'
<1>1. admin'[a] = IdleAdmin /\ \A b \in Admins : b # a => admin'[b] = admin[b]
    BY EndTypes DEF ReloadWrite
<1>2. /\ admin[a].pc = "write" /\ status' = status
      /\ rule_cache' = admin[a].snap /\ blank' = admin[a].failed /\ unloaded' = ~admin[a].alone
    BY DEF ReloadWrite
<1>3. AloneIsAlone' /\ SnapCurrent'
    BY <1>1, <1>2 DEF CacheInv, AloneIsAlone, SnapCurrent, Enabled, IdleAdmin
<1>4. CacheCurrent'
    <2>1. admin[a].alone => admin[a].snap = IF admin[a].failed THEN {} ELSE Enabled
        BY <1>2 DEF CacheInv, SnapCurrent
    <2>2. Enabled' = Enabled
        BY <1>2 DEF Enabled
    <2> QED
        BY <1>2, <2>1, <2>2 DEF CacheCurrent
<1> QED
    BY <1>3, <1>4 DEF CacheInv

\* The cache under administration, step by step.
LEMMA CacheStep ==
    ASSUME RulesTypeOK, CacheInv, [RulesNext]_allVars
    PROVE  CacheInv'
<1>1. ASSUME NEW a \in Admins, NEW r \in Rules,
             CreateRule(a, r) \/ ToggleRule(a, r) \/ DeleteRule(a, r)
      PROVE  CacheInv'
    BY <1>1, BeginsCached DEF CreateRule, ToggleRule, DeleteRule
<1>2. ASSUME NEW a \in Admins, ReadEnabled(a) \/ ResolveRows(a) \/ Forget(a) PROVE CacheInv'
    <2>1. admin[a].pc # "idle" /\ status' = status
        BY <1>2 DEF ReadEnabled, ResolveRows, Forget
    <2>2. PICK pc \in {"read", "resolve", "forget"} : AdminGoto(a, pc, admin[a].rule)
        BY <1>2 DEF ReadEnabled, ResolveRows, Forget
    <2> QED
        BY <2>1, <2>2, GotoTypes, GoesOnCached
<1>3. ASSUME NEW a \in Admins, ReloadRead(a) PROVE CacheInv'
    <2>1. admin[a].pc # "idle" /\ status' = status
        BY <1>3 DEF ReloadRead
    <2>2. /\ admin'[a].pc = "write" /\ admin'[a].alone = admin[a].alone
          /\ admin'[a].snap = IF admin'[a].failed THEN {} ELSE Enabled
          /\ \A b \in Admins : b # a => admin'[b] = admin[b]
        BY <1>3, ReadTypes
    <2> QED
        BY <2>1, <2>2, GoesOnCached
<1>4. ASSUME NEW a \in Admins, ReloadWrite(a) PROVE CacheInv'
    BY <1>4, WritesCached
<1>5. ASSUME NEW a \in Admins, Abandon(a) PROVE CacheInv'
    <2>1. admin'[a] = IdleAdmin /\ \A b \in Admins : b # a => admin'[b] = admin[b]
        BY <1>5, EndTypes DEF Abandon
    <2>2. status' = status /\ unloaded'
        BY <1>5 DEF Abandon
    <2> QED
        BY <2>1, <2>2 DEF CacheInv, AloneIsAlone, SnapCurrent, CacheCurrent, Enabled, IdleAdmin
<1>6. ASSUME \/ Evaluate \/ UNCHANGED allVars
             \/ \E t \in Tasks : InsertChecked(t)
      PROVE  CacheInv'
    <2>1. UNCHANGED <<status, rule_cache, admin, blank, unloaded>>
        BY <1>6 DEF Evaluate, InsertChecked, allVars, ruleVars
    <2> QED
        BY <2>1 DEF CacheInv, AloneIsAlone, SnapCurrent, CacheCurrent, AdminsIdle, Enabled
<1>7. CASE RestartAndLoad
    <2>1. \A a \in Admins : admin'[a] = IdleAdmin
        BY <1>7 DEF RestartAndLoad
    <2>2. status' = status /\ (rule_cache' = Enabled \/ (blank' /\ rule_cache' = {}))
        BY <1>7 DEF RestartAndLoad
    <2>3. AloneIsAlone' /\ SnapCurrent'
        BY <2>1 DEF AloneIsAlone, SnapCurrent, IdleAdmin
    <2>4. CacheCurrent'
        BY <2>2 DEF CacheCurrent, Enabled
    <2> QED
        BY <2>3, <2>4 DEF CacheInv
<1> QED
    BY <1>1, <1>2, <1>3, <1>4, <1>5, <1>6, <1>7 DEF RulesNext

-----------------------------------------------------------------------------
(* The theorems about administration.                                      *)

LEMMA RulesStart == RulesInit => RulesInv
<1> SUFFICES ASSUME RulesInit PROVE RulesInv
    OBVIOUS
<1>1. TypeOK /\ Kept
    BY SafetyInit DEF RulesInit, SafetyInv
<1>2. RulesTypeOK
    BY RulesAssumption DEF RulesInit, RulesTypeOK, IdleAdmin, AdminState
<1>3. ForgetWindow /\ OrphanOnlyInWindow
    BY DEF RulesInit, Init, ForgetWindow, OrphanOnlyInWindow, IdleAdmin
<1>4. CacheInv
    <2>1. rule_cache = Enabled
        BY RulesAssumption DEF RulesInit, Enabled
    <2> QED
        BY <2>1 DEF RulesInit, CacheInv, AloneIsAlone, SnapCurrent, CacheCurrent, IdleAdmin
<1> QED
    BY <1>1, <1>2, <1>3, <1>4 DEF RulesInv

LEMMA RulesStep == RulesInv /\ [RulesNext]_allVars => RulesInv'
BY RulesKept, RulesTypeStep, CacheStep DEF RulesInv

\* The inductive invariant of the evaluator under administration: any number of
\* handlers and of evaluations, interleaved at every await.
THEOREM AdministrationInvariant == RulesSpec => []RulesInv
BY RulesStart, RulesStep, PTL DEF RulesSpec

\* The cache is the set of enabled rules when no handler is on its way
\* (reload_rules), unless the last ones overlapped, or one broke off, or the
\* SELECT failed.
THEOREM CacheFollowsTable == RulesSpec => []CacheCurrent
<1>1. RulesInv => CacheCurrent
    BY DEF RulesInv, CacheInv
<1> QED
    BY <1>1, AdministrationInvariant, PTL

\* A row without a holder, whose UPDATE did not fail, was inserted between the two
\* halves of resolve_rule_events, however many rules are administered at once.
THEOREM OrphansOnlyInWindow == RulesSpec => []OrphanOnlyInWindow
<1>1. RulesInv => OrphanOnlyInWindow
    BY DEF RulesInv
<1> QED
    BY <1>1, AdministrationInvariant, PTL

\* What NoSilentAlert, RecoveryFollowsAlert and RecoveryAnnouncedOnce promise of the
\* evaluator, no administrator can break: cells that are forgotten and rows that
\* are deleted under a running evaluation drop no alert of another rule, and
\* make no notice appear twice or without its pair.
THEOREM NoticesUnderAdministration ==
    RulesSpec => [](NoSilentAlert /\ RecoveryFollowsAlert /\ RecoveryAnnouncedOnce)
<1>1. RulesInv => NoSilentAlert /\ RecoveryFollowsAlert /\ RecoveryAnnouncedOnce
    BY DEF RulesInv, Kept
<1> QED
    BY <1>1, AdministrationInvariant, PTL

=============================================================================
