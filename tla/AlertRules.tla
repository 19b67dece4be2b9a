----------------------------- MODULE AlertRules -----------------------------
(***************************************************************************)
(* Administration of the alert rules (crates/server/src/handlers/          *)
(* alerts.rs) composed with the evaluator: the rule table, the in-memory   *)
(* cache that every evaluation takes its snapshot from, and the handlers   *)
(* that create, toggle and delete rules, each a sequence of awaited        *)
(* statements that other handlers and evaluations run between.             *)
(***************************************************************************)
EXTENDS AlertTransition

CONSTANTS
    Admins,     \* handler invocations that may be in flight together
    Preset      \* the rules that exist, enabled, when the server first starts

ASSUME RulesAssumption == Preset \subseteq Rules

VARIABLES
    status,      \* alert_rules: "unborn", "on", "off" or "gone" (deleted)
    rule_cache,  \* AppState.rule_cache
    admin,       \* the handlers in flight
    blank,       \* history: the last reload read nothing because its SELECT failed
    raced,       \* history: events inserted between the two halves of resolve_rule_events
    unloaded     \* history: the last handler to end overlapped another, or ended
                 \* after its change and before its reload

ruleVars == <<status, rule_cache, admin, blank, raced, unloaded>>
allVars == <<vars, ruleVars>>

NoRule == "none"

\* A handler's pc: "idle", past its UPDATE enabled ("toggled"), before the
\* UPDATE of the events ("resolve"), before forget_rule ("forget"), before the
\* SELECT of reload_rules ("read"), before its write ("write").  Whether it has
\* been alone in flight so far is history.
IdleAdmin == [pc |-> "idle", rule |-> NoRule, snap |-> {}, failed |-> FALSE, alone |-> FALSE]

AdminsIdle == \A a \in Admins : admin[a].pc = "idle"

Enabled == {r \in Rules : status[r] = "on"}

RulesInit ==
    /\ Init
    /\ status = [r \in Rules |-> IF r \in Preset THEN "on" ELSE "unborn"]
    /\ rule_cache = Preset
    /\ admin = [a \in Admins |-> IdleAdmin]
    /\ blank = FALSE
    /\ raced = {}
    /\ unloaded = FALSE

-----------------------------------------------------------------------------
(* The handlers.                                                           *)

AdminGoto(a, pc, r) == admin' = [admin EXCEPT ![a].pc = pc, ![a].rule = r]

\* A handler has changed rule r.  Those in flight are no longer alone.
BeginAdmin(a, pc, r) ==
    admin' = [b \in Admins |->
        IF b = a THEN [IdleAdmin EXCEPT !.pc = pc, !.rule = r, !.alone = AdminsIdle]
        ELSE [admin[b] EXCEPT !.alone = FALSE]]

\* create_rule: the row is inserted enabled, the cache is reloaded next.
CreateRule(a, r) ==
    /\ admin[a].pc = "idle"
    /\ status[r] = "unborn"
    /\ status' = [status EXCEPT ![r] = "on"]
    /\ BeginAdmin(a, "read", r)
    /\ UNCHANGED <<vars, rule_cache, blank, raced, unloaded>>

\* toggle_rule: UPDATE alert_rules SET enabled = 1 - enabled.
ToggleRule(a, r) ==
    /\ admin[a].pc = "idle"
    /\ status[r] \in {"on", "off"}
    /\ status' = [status EXCEPT ![r] = IF @ = "on" THEN "off" ELSE "on"]
    /\ BeginAdmin(a, "toggled", r)
    /\ UNCHANGED <<vars, rule_cache, blank, raced, unloaded>>

\* Variants with a fault: a rule found enabled needs no reload, a rule found
\* disabled is only forgotten.
ReadEnabledSkipsReload(a) ==
    LET r == admin[a].rule
    IN  /\ admin[a].pc = "toggled"
        /\ IF status[r] = "off" THEN AdminGoto(a, "resolve", r)
                                ELSE admin' = [admin EXCEPT ![a] = IdleAdmin]
        /\ UNCHANGED <<vars, status, rule_cache, blank, raced, unloaded>>
ReadEnabledOnlyForgets(a) ==
    LET r == admin[a].rule
    IN  /\ admin[a].pc = "toggled"
        /\ AdminGoto(a, IF status[r] = "off" THEN "forget" ELSE "read", r)
        /\ UNCHANGED <<vars, status, rule_cache, blank, raced, unloaded>>

\* The SELECT that follows: a rule found disabled has its events resolved.
ReadEnabled(a) ==
    LET r == admin[a].rule
    IN  /\ admin[a].pc = "toggled"
        /\ AdminGoto(a, IF status[r] = "off" THEN "resolve" ELSE "read", r)
        /\ UNCHANGED <<vars, status, rule_cache, blank, raced, unloaded>>

\* resolve_rule_events, first half: close the rule's open rows.
ResolveRows(a) ==
    LET rows == {x \in open : x.key[1] = admin[a].rule}
    IN  /\ admin[a].pc = "resolve"
        /\ Close(rows) \/ CloseFails(rows)
        /\ AdminGoto(a, "forget", admin[a].rule)
        /\ UNCHANGED <<now, rt, nextId, task, pushed, silent>>
        /\ UNCHANGED <<status, rule_cache, blank, raced, unloaded>>

\* delete_rule: DELETE FROM alert_rules takes the rule's events with it.
DeleteRule(a, r) ==
    /\ admin[a].pc = "idle"
    /\ status[r] \in {"on", "off"}
    /\ status' = [status EXCEPT ![r] = "gone"]
    /\ open' = {x \in open : x.key[1] # r}
    /\ resolved' = {x \in resolved : x.key[1] # r}
    /\ BeginAdmin(a, "forget", r)
    /\ UNCHANGED <<now, rt, nextId, task, pushed, stuck, silent>>
    /\ UNCHANGED <<rule_cache, blank, raced, unloaded>>

\* forget_rule: drop the rule's cells.
Forget(a) ==
    /\ admin[a].pc = "forget"
    /\ rt' = [k \in Key |-> IF k[1] = admin[a].rule THEN Fresh ELSE rt[k]]
    /\ silent' = {k \in silent : k[1] # admin[a].rule}
    /\ AdminGoto(a, "read", admin[a].rule)
    /\ UNCHANGED <<now, open, resolved, nextId, task, pushed, stuck>>
    /\ UNCHANGED <<status, rule_cache, blank, raced, unloaded>>

\* reload_rules, the SELECT; on an error unwrap_or_default leaves no rule.
ReloadRead(a) ==
    /\ admin[a].pc = "read"
    /\ \E failed \in BOOLEAN :
          admin' = [admin EXCEPT ![a].pc = "write",
                                 ![a].snap = IF failed THEN {} ELSE Enabled,
                                 ![a].failed = failed]
    /\ UNCHANGED <<vars, status, rule_cache, blank, raced, unloaded>>

\* reload_rules, the write of the cache; then the handler answers.
ReloadWrite(a) ==
    /\ admin[a].pc = "write"
    /\ rule_cache' = admin[a].snap
    /\ blank' = admin[a].failed
    /\ unloaded' = ~admin[a].alone
    /\ admin' = [admin EXCEPT ![a] = IdleAdmin]
    /\ UNCHANGED <<vars, status, raced>>

\* A handler that has changed the table ends before its reload: its client
\* disconnects and it is dropped at an await, or its next SELECT fails.
Abandon(a) ==
    /\ admin[a].pc # "idle"
    /\ admin' = [admin EXCEPT ![a] = IdleAdmin]
    /\ unloaded' = TRUE
    /\ UNCHANGED <<vars, status, rule_cache, blank, raced>>

-----------------------------------------------------------------------------
(* The evaluator under these rules.                                        *)

\* alert_events.rule_id REFERENCES alert_rules: no row for a deleted rule.
InsertChecked(t) ==
    /\ Insert(t)
    /\ status[task[t].key[1]] # "gone"
    /\ raced' = IF \E a \in Admins : admin[a].pc = "forget" /\ admin[a].rule = task[t].key[1]
                THEN raced \cup {nextId}
                ELSE raced
    /\ UNCHANGED <<status, rule_cache, admin, blank, unloaded>>

Evaluate ==
    /\ \/ \E t \in Workers, n \in Nodes : BeginMetrics(t, n, rule_cache)
       \/ \E ns \in SUBSET Nodes : BeginPatrol(ns, rule_cache)
       \/ \E t \in Tasks, k \in Key : SkipRule(t, k) \/ Breaching(t, k) \/ Clearing(t, k)
       \/ \E t \in Tasks :
             \/ InsertFails(t) \/ Recheck(t) \/ Undo(t) \/ Resolve(t) \/ Push(t)
             \/ EndMetrics(t)
       \/ EndPatrol
       \/ ClearEvents
       \/ Tick
    /\ UNCHANGED ruleVars

\* Startup reconciles the events and then loads the cache, before anything runs.
RestartAndLoad ==
    /\ Restart
    /\ admin' = [a \in Admins |-> IdleAdmin]
    /\ \E failed \in BOOLEAN :
          /\ rule_cache' = IF failed THEN {} ELSE Enabled
          /\ blank' = failed
    /\ unloaded' = FALSE
    /\ UNCHANGED <<status, raced>>

RulesNext ==
    \/ \E a \in Admins, r \in Rules :
          CreateRule(a, r) \/ ToggleRule(a, r) \/ DeleteRule(a, r)
    \/ \E a \in Admins :
          \/ ReadEnabled(a) \/ ResolveRows(a) \/ Forget(a)
          \/ ReloadRead(a) \/ ReloadWrite(a) \/ Abandon(a)
    \/ \E t \in Tasks : InsertChecked(t)
    \/ Evaluate
    \/ RestartAndLoad

RulesSpec == RulesInit /\ [][RulesNext]_allVars

-----------------------------------------------------------------------------
(* Properties.                                                             *)

\* Evaluation follows the table: once every handler has answered, the cache is
\* the set of enabled rules, or empty because the last SELECT failed, unless
\* the last handler ended before its reload or overlapped another: reloads are
\* not ordered with each other.
CacheCurrent ==
    AdminsIdle /\ ~unloaded => rule_cache = Enabled \/ (blank /\ rule_cache = {})

\* The only way to a row that no cell fires on, no task carries and no failed
\* UPDATE left behind: it was inserted between the UPDATE and the forget_rule
\* of a resolve_rule_events on its rule.  Deleting a rule, forgetting cells
\* under a pending INSERT and firing from a stale snapshot do not create one.
OrphanOnlyInWindow ==
    \A x \in open :
        \/ Names(x.key, x.id)
        \/ \E t \in Tasks : Carries(t, x.id) /\ task[t].key = x.key
        \/ x.id \in stuck
        \/ x.id \in raced

=============================================================================
