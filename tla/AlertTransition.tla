-------------------------- MODULE AlertTransition --------------------------
(***************************************************************************)
(* The alert evaluator of crates/server/src/alerts.rs with its             *)
(* interleavings: every stored sample spawns an on_metrics task, the       *)
(* offline patrol is one more task, and `transition` decides under a lock, *)
(* gives the lock up for the INSERT or UPDATE of alert_events, and takes   *)
(* it again to write the new event id back.  A step of a task is a stretch *)
(* of code between two awaits or one locked section.                       *)
(*                                                                         *)
(* Whether a sample breaches is data: it is chosen at each evaluation.     *)
(* Administration of rules is added by AlertRules, exact patrol times by   *)
(* OfflinePatrol.                                                          *)
(***************************************************************************)
EXTENDS AlertRuntime

CONSTANTS
    Rules,        \* ids of alert_rules
    Nodes,        \* ids of nodes
    Offline,      \* the rules whose metric is "offline"
    Duration,     \* Duration[r]: debounce of a metric rule, duration_secs
    Confirm,      \* OFFLINE_CONFIRM_SECS: debounce of an offline rule
    Workers,      \* spawned on_metrics tasks that may be alive together
    Patrol,       \* the patrol task
    MaxTime,      \* bound: the clock stops here
    MaxEvents     \* bound: no evaluation starts once this many events exist

ASSUME EvaluatorAssumption ==
    /\ Offline \subseteq Rules
    /\ Duration \in [Rules -> Nat]
    /\ Confirm \in Nat
    /\ Patrol \notin Workers
    /\ MaxTime \in Nat
    /\ MaxEvents \in Nat

Key == Rules \X Nodes
NoKey == <<>>
Tasks == Workers \cup {Patrol}

VARIABLES
    now,        \* unix_now()
    rt,         \* AlertRuntime.inner: the cell of every key
    open,       \* rows of alert_events with resolved_at IS NULL
    resolved,   \* rows of alert_events with resolved_at set
    nextId,     \* next AUTOINCREMENT rowid
    task,       \* the tasks in flight
    pushed,     \* notices handed to the UI and the channels since the start
    stuck,      \* history: open events whose closing UPDATE returned an error
    silent      \* history: keys left firing by a failed INSERT

vars == <<now, rt, open, resolved, nextId, task, pushed, stuck, silent>>

Row == [id : EventId, key : Key]
Notice == [id : EventId, firing : BOOLEAN]

\* Control points of a task: between two rules, before the INSERT, before the
\* write-back, before the UPDATE that undoes the insert or resolves the event,
\* before the two forms of push_and_notify.
Holding == {"recheck", "undo", "resolve", "alert", "recover"}
Pc == {"idle", "eval", "insert"} \cup Holding

Task == [ pc : Pc, now : Time, todo : SUBSET Key,
          key : Key \cup {NoKey}, eid : EventId \cup {NoEvent} ]

Idle == [pc |-> "idle", now |-> 0, todo |-> {}, key |-> NoKey, eid |-> NoEvent]

TypeOK ==
    /\ now \in Time
    /\ rt \in [Key -> Breach]
    /\ open \subseteq Row
    /\ resolved \subseteq Row
    /\ nextId \in EventId
    /\ task \in [Tasks -> Task]
    /\ pushed \subseteq Notice
    /\ stuck \subseteq EventId
    /\ silent \subseteq Key

Init ==
    /\ now = 0
    /\ rt = [k \in Key |-> Fresh]
    /\ open = {}
    /\ resolved = {}
    /\ nextId = 1
    /\ task = [t \in Tasks |-> Idle]
    /\ pushed = {}
    /\ stuck = {}
    /\ silent = {}

-----------------------------------------------------------------------------
(* Starting and ending an evaluation.                                      *)

Start(t, keys) ==
    /\ task[t].pc = "idle"
    /\ nextId <= MaxEvents
    /\ task' = [task EXCEPT ![t] =
           [pc |-> "eval", now |-> now, todo |-> keys, key |-> NoKey, eid |-> NoEvent]]
    /\ UNCHANGED <<now, rt, open, resolved, nextId, pushed, stuck, silent>>

\* on_metrics: a stored sample of node n is matched with a snapshot of the rules.
BeginMetrics(t, n, rules) ==
    /\ t \in Workers
    /\ Start(t, {<<r, n>> : r \in rules \ Offline})

\* A patrol round over the registered, unrevoked nodes ns.
BeginPatrol(ns, rules) == Start(Patrol, (rules \cap Offline) \X ns)

EndMetrics(t) ==
    /\ t \in Workers
    /\ task[t].pc = "eval"
    /\ task[t].todo = {}
    /\ task' = [task EXCEPT ![t] = Idle]
    /\ UNCHANGED <<now, rt, open, resolved, nextId, pushed, stuck, silent>>

\* The round ends with prune_runtime.  The renotify sweep before it writes
\* last_notified_at only, which nothing here reads.
EndPatrol ==
    /\ task[Patrol].pc = "eval"
    /\ task[Patrol].todo = {}
    /\ rt' = [k \in Key |-> Pruned(rt[k], task[Patrol].now)]
    /\ task' = [task EXCEPT ![Patrol] = Idle]
    /\ UNCHANGED <<now, open, resolved, nextId, pushed, stuck, silent>>

-----------------------------------------------------------------------------
(* transition.                                                             *)

\* The debounce transition is called with: patrol gives OFFLINE_CONFIRM_SECS,
\* on_metrics the rule's duration_secs.
Base(k) == IF k[1] \in Offline THEN Confirm ELSE Duration[k[1]]

\* The next control point of task t, which keeps its clock reading.
Goto(t, pc, k, e) ==
    task' = [task EXCEPT ![t].pc = pc, ![t].todo = @ \ {k}, ![t].key = k, ![t].eid = e]

Continue(t) ==
    task' = [task EXCEPT ![t].pc = "eval", ![t].key = NoKey, ![t].eid = NoEvent]

\* metric_value is None: the rule is skipped.
SkipRule(t, k) ==
    /\ task[t].pc = "eval"
    /\ k \in task[t].todo
    /\ k[1] \notin Offline
    /\ task' = [task EXCEPT ![t].todo = @ \ {k}]
    /\ UNCHANGED <<now, rt, open, resolved, nextId, pushed, stuck, silent>>

\* Locked phase, breaching sample: arm the timer, and fire when it has run out.
Breaching(t, k) ==
    LET b == rt[k]
        offline == k[1] \in Offline
    IN  /\ task[t].pc = "eval"
        /\ k \in task[t].todo
        /\ rt' = [rt EXCEPT ![k] = OnBreach(b, offline, Base(k), task[t].now)]
        /\ IF MustFire(b, offline, Base(k), task[t].now)
           THEN Goto(t, "insert", k, NoEvent)
           ELSE task' = [task EXCEPT ![t].todo = @ \ {k}]
        /\ UNCHANGED <<now, open, resolved, nextId, pushed, stuck, silent>>

\* Locked phase, sample within bounds: take the event id out of a firing cell.
Clearing(t, k) ==
    LET b == rt[k]
    IN  /\ task[t].pc = "eval"
        /\ k \in task[t].todo
        /\ rt' = [rt EXCEPT ![k] = OnClear(b, k[1] \in Offline, task[t].now)]
        /\ silent' = silent \ {k}
        /\ IF b.firing /\ b.event_id # NoEvent
           THEN Goto(t, "resolve", k, b.event_id)
           ELSE task' = [task EXCEPT ![t].todo = @ \ {k}]
        /\ UNCHANGED <<now, open, resolved, nextId, pushed, stuck>>

\* Variant with a fault: the rowid is read before the INSERT has moved it on.
InsertReadsOldRowid(t) ==
    /\ task[t].pc = "insert"
    /\ open' = open \cup {[id |-> nextId - 1, key |-> task[t].key]}
    /\ nextId' = nextId + 1
    /\ Goto(t, "recheck", task[t].key, nextId - 1)
    /\ UNCHANGED <<now, rt, resolved, pushed, stuck, silent>>

\* INSERT INTO alert_events succeeds; the id comes back to the task.
Insert(t) ==
    /\ task[t].pc = "insert"
    /\ open' = open \cup {[id |-> nextId, key |-> task[t].key]}
    /\ nextId' = nextId + 1
    /\ Goto(t, "recheck", task[t].key, nextId)
    /\ UNCHANGED <<now, rt, resolved, pushed, stuck, silent>>

\* The INSERT fails: the error is logged and the cell stays firing.
InsertFails(t) ==
    /\ task[t].pc = "insert"
    /\ silent' = silent \cup {task[t].key}
    /\ Continue(t)
    /\ UNCHANGED <<now, rt, open, resolved, nextId, pushed, stuck>>

\* Variants with a fault: an event that lost its cell is dropped, the id is not
\* written back, the alert is not announced.
RecheckDropsEvent(t) ==
    LET k == task[t].key
    IN  /\ task[t].pc = "recheck"
        /\ IF rt[k].firing /\ rt[k].event_id = NoEvent
           THEN /\ rt' = [rt EXCEPT ![k].event_id = task[t].eid]
                /\ Goto(t, "alert", k, task[t].eid)
           ELSE rt' = rt /\ Continue(t)
        /\ UNCHANGED <<now, open, resolved, nextId, pushed, stuck, silent>>
RecheckKeepsId(t) ==
    /\ task[t].pc = "recheck"
    /\ Goto(t, "alert", task[t].key, task[t].eid)
    /\ UNCHANGED <<now, rt, open, resolved, nextId, pushed, stuck, silent>>
RecheckSaysNothing(t) ==
    LET k == task[t].key
    IN  /\ task[t].pc = "recheck"
        /\ IF rt[k].firing /\ rt[k].event_id = NoEvent
           THEN rt' = [rt EXCEPT ![k].event_id = task[t].eid] /\ Continue(t)
           ELSE rt' = rt /\ Goto(t, "undo", k, task[t].eid)
        /\ UNCHANGED <<now, open, resolved, nextId, pushed, stuck, silent>>

\* Second lock: the id is written back only into a cell that still waits for one.
Recheck(t) ==
    LET k == task[t].key
        e == task[t].eid
    IN  /\ task[t].pc = "recheck"
        /\ IF rt[k].firing /\ rt[k].event_id = NoEvent
           THEN /\ rt' = [rt EXCEPT ![k].event_id = e]
                /\ Goto(t, "alert", k, e)
           ELSE /\ rt' = rt
                /\ Goto(t, "undo", k, e)
        /\ UNCHANGED <<now, open, resolved, nextId, pushed, stuck, silent>>

\* UPDATE alert_events SET resolved_at on the open rows given, which works ...
Close(rows) ==
    /\ open' = open \ rows
    /\ resolved' = resolved \cup rows
    /\ UNCHANGED stuck

\* ... or fails, and the error is dropped (`let _ =`).
CloseFails(rows) ==
    /\ stuck' = stuck \cup {x.id : x \in rows}
    /\ UNCHANGED <<open, resolved>>

OpenRow(e) == {x \in open : x.id = e}

\* Variant with a fault: the event is left as it is.
UndoLeavesRow(t) ==
    /\ task[t].pc = "undo"
    /\ Continue(t)
    /\ UNCHANGED <<now, rt, open, resolved, nextId, pushed, stuck, silent>>

\* The event this task inserted lost its cell meanwhile: close it again.
Undo(t) ==
    /\ task[t].pc = "undo"
    /\ Close(OpenRow(task[t].eid)) \/ CloseFails(OpenRow(task[t].eid))
    /\ Continue(t)
    /\ UNCHANGED <<now, rt, nextId, pushed, silent>>

\* Close the event taken out of the cell; the recovery notice follows either way.
Resolve(t) ==
    /\ task[t].pc = "resolve"
    /\ Close(OpenRow(task[t].eid)) \/ CloseFails(OpenRow(task[t].eid))
    /\ Goto(t, "recover", task[t].key, task[t].eid)
    /\ UNCHANGED <<now, rt, nextId, pushed, silent>>

\* push_and_notify: the notice leaves the process.
Push(t) ==
    /\ task[t].pc \in {"alert", "recover"}
    /\ pushed' = pushed \cup {[id |-> task[t].eid, firing |-> task[t].pc = "alert"]}
    /\ Continue(t)
    /\ UNCHANGED <<now, rt, open, resolved, nextId, stuck, silent>>

-----------------------------------------------------------------------------
(* Around the evaluator.                                                   *)

\* POST /api/alerts/events/clear: only resolved rows go.
ClearEvents ==
    /\ resolved' = {}
    /\ UNCHANGED <<now, rt, open, nextId, task, pushed, stuck, silent>>

\* The server dies at any point and starts again: memory is gone, and
\* reconcile_on_startup closes what the table still shows as firing (or
\* fails, which is not reported).
Restart ==
    /\ rt' = [k \in Key |-> Fresh]
    /\ task' = [t \in Tasks |-> Idle]
    /\ silent' = {}
    /\ pushed' = {}
    /\ Close(open) \/ CloseFails(open)
    /\ UNCHANGED <<now, nextId>>

Tick ==
    /\ now < MaxTime
    /\ now' = now + 1
    /\ UNCHANGED <<rt, open, resolved, nextId, task, pushed, stuck, silent>>

\* What task t does once it has been started.
TaskStep(t) ==
    \/ \E k \in Key : SkipRule(t, k) \/ Breaching(t, k) \/ Clearing(t, k)
    \/ Insert(t) \/ InsertFails(t)
    \/ Recheck(t)
    \/ Undo(t) \/ Resolve(t)
    \/ Push(t)
    \/ EndMetrics(t)
    \/ t = Patrol /\ EndPatrol

Next ==
    \/ \E t \in Workers, n \in Nodes : BeginMetrics(t, n, Rules)
    \/ \E ns \in SUBSET Nodes : BeginPatrol(ns, Rules)
    \/ \E t \in Tasks : TaskStep(t)
    \/ ClearEvents
    \/ Restart
    \/ Tick

Spec == Init /\ [][Next]_vars

\* tokio runs a spawned task until it ends.
FairSpec == Spec /\ \A t \in Tasks : WF_vars(TaskStep(t))

-----------------------------------------------------------------------------
(* Properties.                                                             *)

\* Task t inserted event e, or took it out of a cell, and has yet to deal with it.
Carries(t, e) == task[t].eid = e /\ task[t].pc \in {"recheck", "undo", "resolve"}

\* Cell k is firing on event e.
Names(k, e) == rt[k].firing /\ rt[k].event_id = e

\* No ghost: a row that the table shows as firing is the event its own cell
\* fires on, or is carried by a task that will write it back or close it; the
\* one exception is a row whose closing UPDATE failed.  (The write-back check
\* of transition is there to ensure this.)
NoGhostEvent ==
    \A x \in open :
        \/ Names(x.key, x.id)
        \/ \E t \in Tasks : Carries(t, x.id) /\ task[t].key = x.key
        \/ x.id \in stuck

\* The reverse: what a cell fires on is an open row of the same key, so a
\* recovery has a row to close, and clearing the history never takes it away.
CellNamesOpenRow ==
    \A k \in Key : rt[k].event_id # NoEvent =>
        /\ rt[k].firing
        /\ [id |-> rt[k].event_id, key |-> k] \in open

\* A raised alert is not dropped on the way: a firing cell has its event, or
\* some task is still to give it one, or the INSERT failed.
NoSilentAlert ==
    \A k \in Key : rt[k].firing /\ rt[k].event_id = NoEvent =>
        \/ \E t \in Tasks : task[t].key = k /\ task[t].pc \in {"insert", "recheck"}
        \/ k \in silent

\* The alert of event e was announced, or is about to be.
Announced(e) ==
    \/ [id |-> e, firing |-> TRUE] \in pushed
    \/ \E t \in Tasks : task[t].eid = e /\ task[t].pc = "alert"

\* Task t owes the world the recovery of event e.
Recovers(t, e) == task[t].eid = e /\ task[t].pc \in {"resolve", "recover"}

\* Notices come in pairs: a recovery is announced, or about to be, only for an
\* event whose alert was announced or is about to be, so nobody learns of the
\* end of something they will never hear of (within one run of the server) ...
RecoveryFollowsAlert ==
    /\ \A m \in pushed : ~m.firing => Announced(m.id)
    /\ \A t \in Tasks : task[t].pc \in {"resolve", "recover"} => Announced(task[t].eid)

\* ... and it is announced once, whichever of the concurrent tasks sees the
\* metric back within bounds first.
RecoveryAnnouncedOnce ==
    \A t \in Tasks : Recovers(t, task[t].eid) =>
        /\ [id |-> task[t].eid, firing |-> FALSE] \notin pushed
        /\ \A u \in Tasks \ {t} : ~Recovers(u, task[t].eid)

\* A row that lost its cell is closed in the end, without waiting for a restart,
\* unless its UPDATE fails: the tasks that carry such rows run to their end, so
\* that time and again none is left (the instance stops raising alerts).
OrphansClose == []<>(\A x \in open : Names(x.key, x.id) \/ x.id \in stuck)

=============================================================================
