--------------------------- MODULE OfflinePatrol ---------------------------
(***************************************************************************)
(* The offline patrol of crates/server/src/alerts.rs in time: nodes report *)
(* and fall silent, the patrol wakes up, reads last_seen of every node it  *)
(* watches and steps their cells, with the confirmation period and the     *)
(* anti-flap window.  One enabled offline rule applies to all nodes.  Only *)
(* the patrol touches the cells of an offline rule, so the database writes *)
(* that AlertTransition interleaves are left out; what it decides is kept. *)
(*                                                                         *)
(* Times are in units of the patrol period's order: the runs scale the     *)
(* 30/60/300/600 s of the source down and keep their ratios ordered.       *)
(***************************************************************************)
EXTENDS AlertRuntime

CONSTANTS
    Nodes,
    Period,     \* OFFLINE_PATROL_SECS: least time between two rounds
    MaxGap,     \* bound: the longest time from one round to the next
    Grace,      \* max(duration_secs, 60): tolerated silence
    Confirm,    \* OFFLINE_CONFIRM_SECS
    MaxTime     \* bound: the clock stops here

ASSUME PatrolAssumption ==
    /\ Period \in Nat \ {0}
    /\ MaxGap \in Nat /\ Period <= MaxGap
    /\ Grace \in Nat
    /\ Confirm \in Nat
    /\ MaxTime \in Nat

VARIABLES
    now,           \* unix_now()
    watched,       \* nodes with a token_hash that are not revoked
    last_seen,     \* nodes.last_seen; NoTime is NULL
    rt,            \* the cells of the offline rule
    pc,            \* patrol: "sleep", "select" or "scan"
    roundNow,      \* the clock reading of the current or last round
    seen,          \* last_seen as the last SELECT returned it
    todo,          \* selected nodes the round has yet to evaluate
    lastFired,     \* history: round time of the last alert in this server run
    observedFrom,  \* history: since when the patrol could have watched the node
    missed         \* history: rounds that read nothing since the node was last
                   \* found within the grace

vars == <<now, watched, last_seen, rt, pc, roundNow, seen, todo, lastFired, observedFrom, missed>>

MaybeTime == Time \cup {NoTime}

TypeOK ==
    /\ now \in Time
    /\ watched \subseteq Nodes
    /\ last_seen \in [Nodes -> MaybeTime]
    /\ rt \in [Nodes -> Breach]
    /\ pc \in {"sleep", "select", "scan"}
    /\ roundNow \in MaybeTime
    /\ pc # "sleep" => roundNow # NoTime
    /\ seen \in [Nodes -> MaybeTime]
    /\ todo \subseteq Nodes
    /\ lastFired \in [Nodes -> MaybeTime]
    /\ observedFrom \in [Nodes -> Time]
    /\ missed \in [Nodes -> Nat]

Init ==
    /\ now = 0
    /\ watched = Nodes
    /\ last_seen = [n \in Nodes |-> NoTime]
    /\ rt = [n \in Nodes |-> Fresh]
    /\ pc = "sleep"
    /\ roundNow = NoTime
    /\ seen = [n \in Nodes |-> NoTime]
    /\ todo = {}
    /\ lastFired = [n \in Nodes |-> NoTime]
    /\ observedFrom = [n \in Nodes |-> 0]
    /\ missed = [n \in Nodes |-> 0]

-----------------------------------------------------------------------------
(* The patrol.                                                             *)

\* Variant with a fault: the round keeps the clock reading it had.
WakeUpWithoutClock ==
    /\ pc = "sleep"
    /\ roundNow = NoTime \/ now - roundNow >= Period
    /\ pc' = "select"
    /\ UNCHANGED <<now, watched, last_seen, rt, roundNow, seen, todo, lastFired, observedFrom, missed>>

\* The interval ticks: at once after a start, then no sooner than Period
\* after the last tick (MissedTickBehavior::Delay).
WakeUp ==
    /\ pc = "sleep"
    /\ roundNow = NoTime \/ now - roundNow >= Period
    /\ roundNow' = now
    /\ pc' = "select"
    /\ UNCHANGED <<now, watched, last_seen, rt, seen, todo, lastFired, observedFrom, missed>>

\* SELECT id, last_seen ... WHERE token_hash IS NOT NULL AND revoked = 0.  If it
\* fails there are no rows (unwrap_or_default) and the round goes on with none.
Select ==
    /\ pc = "select"
    /\ pc' = "scan"
    /\ \/ /\ seen' = last_seen
          /\ todo' = watched
          /\ UNCHANGED missed
       \/ /\ missed' = [n \in Nodes |-> missed[n] + 1]
          /\ UNCHANGED <<seen, todo>>
    /\ UNCHANGED <<now, watched, last_seen, rt, roundNow, lastFired, observedFrom>>

\* The row the SELECT returned shows more silence than the rule tolerates.
TooSilent(n) == seen[n] = NoTime \/ roundNow - seen[n] > Grace

Fires(n) == TooSilent(n) /\ MustFire(rt[n], TRUE, Confirm, roundNow)

\* One node of the round, with the transition it is given.
Evaluate(n) ==
    /\ pc = "scan"
    /\ n \in todo
    /\ todo' = todo \ {n}
    /\ rt' = [rt EXCEPT ![n] = IF TooSilent(n)
                               THEN OnBreach(@, TRUE, Confirm, roundNow)
                               ELSE OnClear(@, TRUE, roundNow)]
    /\ lastFired' = [lastFired EXCEPT ![n] = IF Fires(n) THEN roundNow ELSE @]
    /\ missed' = [missed EXCEPT ![n] = IF TooSilent(n) THEN @ ELSE 0]
    /\ UNCHANGED <<now, watched, last_seen, pc, roundNow, seen, observedFrom>>

\* The round ends with prune_runtime.
EndRound ==
    /\ pc = "scan"
    /\ todo = {}
    /\ rt' = [n \in Nodes |-> Pruned(rt[n], roundNow)]
    /\ pc' = "sleep"
    /\ UNCHANGED <<now, watched, last_seen, roundNow, seen, todo, lastFired, observedFrom, missed>>

-----------------------------------------------------------------------------
(* Its surroundings.                                                       *)

\* A live sample is accepted: UPDATE nodes SET last_seen WHERE revoked = 0.
Report(n) ==
    /\ n \in watched
    /\ last_seen' = [last_seen EXCEPT ![n] = now]
    /\ UNCHANGED <<now, watched, rt, pc, roundNow, seen, todo, lastFired, observedFrom, missed>>

\* POST /api/nodes/{id}/revoke; regen_key does the same to the row.
Revoke(n) ==
    /\ n \in watched
    /\ watched' = watched \ {n}
    /\ UNCHANGED <<now, last_seen, rt, pc, roundNow, seen, todo, lastFired, observedFrom, missed>>

\* The agent registers with a new key: token_hash set, revoked = 0.
Register(n) ==
    /\ n \notin watched
    /\ watched' = watched \cup {n}
    /\ observedFrom' = [observedFrom EXCEPT ![n] = now]
    /\ missed' = [missed EXCEPT ![n] = 0]
    /\ UNCHANGED <<now, last_seen, rt, pc, roundNow, seen, todo, lastFired>>

\* The server restarts at any point: the runtime is gone, last_seen is not.
Restart ==
    /\ rt' = [n \in Nodes |-> Fresh]
    /\ pc' = "sleep"
    /\ roundNow' = NoTime
    /\ todo' = {}
    /\ lastFired' = [n \in Nodes |-> NoTime]
    /\ observedFrom' = [n \in Nodes |-> now]
    /\ missed' = [n \in Nodes |-> 0]
    /\ UNCHANGED <<now, watched, last_seen, seen>>

\* Time passes, and no round or the wait for the next takes longer than MaxGap.
Tick ==
    /\ now < MaxTime
    /\ roundNow # NoTime /\ now - roundNow < MaxGap
    /\ now' = now + 1
    /\ UNCHANGED <<watched, last_seen, rt, pc, roundNow, seen, todo, lastFired, observedFrom, missed>>

Next ==
    \/ WakeUp \/ Select \/ EndRound
    \/ \E n \in Nodes : Evaluate(n) \/ Report(n) \/ Revoke(n) \/ Register(n)
    \/ Restart
    \/ Tick

Spec == Init /\ [][Next]_vars

-----------------------------------------------------------------------------
(* Properties.                                                             *)

\* The step evaluates node n and raises its alert.
Alerts(n) == lastFired'[n] \notin {lastFired[n], NoTime}

\* A flapping node does not flood the channels: two offline alerts for the same
\* node in one run of the server are at least FlapRefire apart, whatever the
\* node does in between and whatever prune_runtime has dropped.
AlertsSpaced ==
    [][\A n \in Nodes :
          Alerts(n) /\ lastFired[n] # NoTime => lastFired'[n] - lastFired[n] >= FlapRefire]_vars

\* The longest that node n can have gone without being looked at since it was
\* last found within the grace.
LongestBlind(n) == (missed[n] + 1) * MaxGap

\* No alert for a hiccup: a node that the patrol has been watching since its
\* breach began is reported only after a silence of more than the grace and the
\* confirmation period together.  It takes rounds so close, and so few of them
\* without rows, that no report of the node fits unseen between two looks at it.
SilenceConfirmed ==
    [][\A n \in Nodes :
          /\ Alerts(n)
          /\ observedFrom[n] <= BreachStart(rt[n], roundNow)
          /\ LongestBlind(n) <= Grace
          => seen[n] = NoTime \/ roundNow - seen[n] > Grace + Confirm]_vars

LaterOf(a, b) == IF a < b THEN b ELSE a

\* Since when node n has been silent under the eyes of the patrol.
SilentFrom(n) == LaterOf(seen[n], observedFrom[n])

\* A real outage is found in bounded time: after a round, a watched node that
\* has been silent for the grace, the confirmation (the longer one if its last
\* recovery is still remembered), one wait for a round and one more for each
\* round that read nothing is firing.
OutageDetected ==
    pc = "sleep" /\ roundNow # NoTime =>
        \A n \in watched :
            roundNow - SilentFrom(n) > Grace + LongestBlind(n) + LaterOf(Confirm,
                IF rt[n].recovered_at = NoTime THEN 0 ELSE FlapRefire)
            => rt[n].firing

=============================================================================
