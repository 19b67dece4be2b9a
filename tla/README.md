# Outpost (kongshan-monitor) in TLA+

Outpost is a server monitor: a Rust server (`crates/server`) with an SQLite
database and a web interface, and an agent (`crates/agent`) on every monitored
node that keeps one WebSocket to the server and reports a sample every few
seconds. This directory models the parts of it whose correctness depends on the
order of steps: alerts from the evaluation of a sample to the notice in a channel,
the rules and their cache, the offline patrol, the registration of nodes, the
agent's session with its buffer and back-fill, what becomes of its reports in the
tables, the remote upgrade channel, the settings that agents follow, and accounts
with their sessions and second factor. Paths below are relative to the repository;
`alerts.rs` without a directory is `crates/server/src/alerts.rs`.

## 1. Inventory

| Part (main files) | State it keeps | Operations | What makes it correct | Here |
|---|---|---|---|---|
| Alert evaluator (`alerts.rs`) | `AlertRuntime`: a debounce cell per (rule, node), in memory; `alert_events` rows | `on_metrics` per stored sample (spawned), `patrol` every 30 s, `transition` for both, `prune_runtime`, `reconcile_on_startup`, clearing of the history | cells, rows and notices agree under every interleaving, failure and restart | modelled |
| Rule administration (`handlers/alerts.rs`) | `alert_rules`, `rule_cache` | create, toggle, delete, each followed by `reload_rules` | the cache follows the table; no event outlives its rule | partly |
| Offline patrol in time (`alerts.rs`) | `nodes.last_seen`, the cells of offline rules | rounds, grace, confirmation, anti-flap window | outages found in bounded time, no alert for a hiccup, no flood | modelled |
| Notification dispatch (`alerts.rs`, `handlers/alerts.rs`) | `notify_throttle`, silences, channels, `last_notified_at` | `push_and_notify`, `notify_all`, `renotify_sweep`, the handlers | one send per window, silences respected, lasting alerts repeated | partly |
| Remote upgrade channel (`handlers/ws_agent.rs`, `handlers/nodes.rs`, `state.rs`) | `upgrade_tx`, `pending_upgrade` | connect, register, resend, deliver, leave; batch upgrade | a trigger is sent once, to a loop that reads it | modelled |
| Node registration and administration (`handlers/agent_api.rs`, `handlers/nodes.rs`) | `nodes`, `register_keys` | create, register, revoke, regenerate key, batch, delete, patch, reorder | a key is used once; a revoked node stays revoked and is cut off | partly |
| Agent session and ingest (`agent/src/main.rs`, `handlers/ws_agent.rs`, `common`) | agent buffer, back-off; `metrics` rows, token bucket | connect, sample, buffer, back-fill, validate, store | samples survive an outage up to the buffer's size; a well-behaved agent is not cut off | partly |
| Traffic accounting (`traffic.rs`) | counters and period start on `nodes` | accumulate, hourly reset, change of the reset day | each second counted in one period, once | modelled |
| Retention, roll-up, backup (`retention.rs`, `handlers/account.rs`) | `metrics_rollup`, its cursor; backup files | roll up, purge, expire; back up, rotate | an hour is rolled up, with its late points, before its samples go | partly |
| Views (`handlers/nodes.rs`, `handlers/dataout.rs`) | none of their own | trend, history, summary, detail, export | no view shows more in use than there is | partly |
| Accounts (`handlers/auth.rs`, `users.rs`, `twofa.rs`, `account.rs`, `session.rs`) | users, sessions, recovery codes | set-up, login, roles, passwords, second factor | an administrator remains; sessions end with what they stood on; a code works once | partly |
| Settings (`handlers/settings.rs`, `main.rs`) | settings table, `NetCfg`, the watch channel of the interval | forms, start of the server, agents that follow | copies agree with the table; every agent ends up at the interval in use | modelled |
| Rate limiting (`ratelimit.rs`) | token buckets, `LoginGuard` | check, record, prune | limits hold at the map's bound | not modelled |
| API tokens (`handlers/dataout.rs`) | `api_tokens` | create, revoke, look up | | not modelled |
| Start-up, configuration, TLS, audit log | | wiring and parsing | | not modelled, except what a start does to alerts, settings and requests |
| Agent collectors and parsers | | parse `/proc`, docker, configuration | | not modelled |
| Browser code, shell scripts, deployment | | | | not modelled |

How the parts meet. A connection loop of `ws_agent` stores a sample, updates
`last_seen` and spawns a task that evaluates the sample and adds its traffic up; the
patrol reads `last_seen` of every registered, unrevoked node. Both call
`transition`, which steps a cell under a mutex, releases it for the INSERT or
UPDATE, and locks again to write the event id back; what fires or ends goes to
`push_and_notify`, where silences, channels and the throttle decide who is told.
The handlers for rules change `alert_rules`, close rows and drop cells, and
rewrite the cache that evaluations take their snapshot from. An hourly task rolls
samples up, deletes old ones and resets counters that an administrator's patch may
be re-basing. The batch handler for upgrades and the connection loops share two
maps under two locks. A settings form writes the table, then the copies in
memory, then the watch channel that connection loops pass on.

The hard behaviours: everything runs as tokio tasks that interleave at every
await; a handler is a chain of statements without a transaction, and is dropped
at an await when its client goes away; database errors are often ignored
(`let _ =`, `unwrap_or_default`); the alert runtime, the throttle, the copies of the
settings and the upgrade maps live in memory and vanish at a restart while the
tables stay; links die without the server noticing for two minutes; timers race
with late events. `PROJECT.json` lists the hazards at their lines, with the
properties that cover them.

## 2. Modules

| Module | Models | Where in the code |
|---|---|---|
| `AlertRuntime` | the debounce cell and the pure steps on it | `alerts.rs` |
| `AlertTransition` | the evaluator: tasks, rows, notices, failures, restarts | `alerts.rs`; `handlers/alerts.rs` (clearing) |
| `AlertRules` | `AlertTransition` under rule administration and the cache | `handlers/alerts.rs`, `alerts.rs` |
| `OfflinePatrol` | the patrol in time, built on `AlertRuntime` | `alerts.rs`, `ws_agent.rs`, revoke, register |
| `Notify` | silences, channels, throttle, reminders | `alerts.rs`, `handlers/alerts.rs` |
| `Connections` | the constants that the two modules about the way down share | |
| `UpgradeChannel` | senders, resend windows, connection loops | `ws_agent.rs`, `nodes.rs` |
| `NodeRegistration` | keys, tokens, revocation, who may report | `nodes.rs`, `agent_api.rs`, `ws_agent.rs` |
| `AgentSession` | the agent's session and buffer, its connections, and the loops that store what arrives | `agent/src/main.rs`, `ws_agent.rs` |
| `SampleLog` | what the reporting promises: the abstract specification of `AgentSession` | |
| `Calendar` | periods and the civil calendar, with a second definition to compare with | `traffic.rs` |
| `Telemetry` | what is stored of reports, their traffic, the hourly task, the views; built on `Calendar` | `ws_agent.rs`, `traffic.rs`, `retention.rs`, `nodes.rs`, `dataout.rs` |
| `Settings` | forms, copies, the watch channel, the agents that follow it | `settings.rs`, `main.rs`, `ws_agent.rs` |
| `Accounts` | accounts, sessions, second factor, recovery codes | `auth.rs`, `users.rs`, `twofa.rs`, `account.rs`, `session.rs` |
| `MC*` | the small instances for TLC | |
| `*Proofs` | theorems and proofs; `AlertProofs` is about `AlertTransition` and `AlertRules`, `DownlinkProofs` about `Settings` and `UpgradeChannel` | |

`PROJECT.json` maps every definition to its lines. Definitions introduced as
"Variant with a fault" are used by no specification: they stand in for the
definition after them to show that a property notices the fault.

Common to the modules: one action is one SQL statement, one turn under a lock,
or one send; a handler is a record (`req`, `admin`, `task`, `job`) whose `pc` names its
next statement and whose fields hold what it has read. A statement that may fail
unnoticed is an action with both outcomes. Variables called history in
the comments (`stuck`, `silent`, `raced`, `blank`, `unloaded`, `owed`, `missed`,
`oldest`, `mixed`, `hushed`, `handed`, `grant`, `excused`, `clash`,
`torn`, `unheard`) steer no action; they let a property name exactly the
overlaps or failures after which it is not claimed.

**AlertRuntime.** A cell is the record `Breach` of the source. `Option` is an
integer with a value for `None`; a key missing from the map is `Fresh`, since
every reader uses `entry().or_default()`. `OnBreach` and `OnClear` are the two
branches of the locked phase of `transition`.

**AlertTransition.** `task[t].pc` is where a spawned task stands between two
awaits. `BeginMetrics` / `BeginPatrol` read the clock and take the snapshot of
the rules; `Breaching` / `Clearing` are the locked phase (whether the sample
breaches is data, hence chosen; `SkipRule` is a metric the sample does not
carry); `Insert` / `InsertFails` are the INSERT; `Recheck` is the second lock;
`Undo` and `Resolve` are the two UPDATEs, each of which may fail unnoticed;
`Push` is `push_and_notify`. Rules of one task are taken in any order, which
admits the order of the `Vec`. `EndPatrol` prunes, with the clock reading the
round began with. `Restart` drops memory and closes the open rows, as
`reconcile_on_startup` does, or fails to. `stuck` and `silent` name the two places
where the code gives an error up.

**AlertRules.** A handler is a chain of statements (`toggled`, `resolve`,
`forget`, `read`, `write`), one action each, and `Abandon` ends it at any of them.
`ReloadRead` may fail and then reads nothing, as `unwrap_or_default` does.
`InsertChecked` is the INSERT under the foreign key to `alert_rules`. The
evaluator's actions are those of `AlertTransition` with `rule_cache` as the snapshot.

**OfflinePatrol.** Only the patrol steps the cells of offline rules, so the
database writes are left out and time is put in: `WakeUp`, `Select` (the rows as
the SELECT returned them, or none when it fails, as `unwrap_or_default` has it),
`Evaluate` for each, `EndRound` with the pruning. `missed[n]` counts the rounds
without rows since `n` was last found within the grace.
`Report`, `Revoke`, `Register` and `Restart` may come at any point of a round.

**Notify.** `job[p]` is a task between `is_silenced`, the SELECT of the channels,
their loop and the stamp. `Offer` is one channel under the throttle's lock: prune, ask,
charge. The clock reading is taken before the loop, so tasks with older readings
meet younger entries; `saturating_sub` on signed numbers goes negative, which counts
as recent. A failed query for silences counts as not silenced. `SweepBegins`
reads the rows, `SweepRow` judges each by the silences as they are then and the
time as it was, and `SweepStamp` may fail. Whether a send that was started
succeeds is logged and changes nothing, so it is no step. Two events of one rule on one
node have the same text.

**UpgradeChannel.** `conn[c]` is a connection loop, `link[c]` whether its socket
still reaches the agent, `session[n]` which connection the agent of `n` is using.
A loop whose link is dead may go on for a while; that is how one node comes to
have two loops. `Register` and `Upgrade` are the two critical sections that take
both locks in the same order. A send on a dead link may be accepted by the
socket (the message is lost) or fail.

**NodeRegistration.** `revoke`, `regen_key` and `batch` are one chain (UPDATE, wipe of
the key, and for a new key its INSERT) over a set of nodes; `register` is SELECT,
mark, activate. The token that a registration mints is named by its key. `Connect` is
the authentication of `upgrade` in `ws_agent.rs`, `Hear` the guarded UPDATE a loop makes for a Hello or a
report. `grant` is the key an administrator gave last, `None` from a revocation on.

**AgentSession.** `agent.pc` follows `run` and `session`: dialling, sending the
buffer, reporting, waiting. A sample is its number; `samples` keeps the agent's
clock when it was taken. `FlushChunk` is one round of `flush_backfill` with the
length `backfill_chunk_len` gives, `Report` and `WaitSample` are the two ticks.
`wire[c]` is what the socket has accepted and the loop has not read; a link that
dies (`Cut`) delivers a prefix of it, and a send on a dead link fails or is
swallowed. On the server `Receive` takes a message, charges the bucket and runs
its handler in one step, because a handler meets `metrics` in one statement or one
transaction. `SampleLog` numbers samples too; the mapping takes the buffer for
`kept`, the wires for `transit` and the ids in `rows` for `stored`.

**Telemetry.** `Metrics` and `Backfill` are the two branches of `handle_msg` that
store, after `Cleaned` (`validate_and_clean_metrics`); a report spawns a member of
`pending`, which `Accumulate` takes in any order, and whose UPDATE may fail. The hourly
task goes through `RollUp`, `Purge`, `Expire`, `SweepRead` and one `SweepWrite` per
row; each statement may fail, and `Rename` may come between a sweep's read and its
write. A cursor that cannot be read is 0 (`setting_i64`), so every hour that still has
samples is aggregated again. The clock may be set back, which the cursor follows.
`owed` are the samples the long views have to show: a stored sample enters it, and
leaves it in the cases that section 4 names. A roll-up row holds the samples it
was computed from; `Trend`, `History`, `Summary` and `Detail` compute means and
maxima where they read it. One measure with its capacity stands for memory, swap and
disk, one direction for both.

**Calendar.** `current_period_start` and the two conversions are the code's; the
second definition adds up month lengths.

**Settings.** `set` writes its keys one at a time (`WriteKey`), then `NetCfg`
(`WriteNet`), then the watch channel (`SendInterval`), which as tokio has it keeps
nothing when there is no receiver. `follower[c]` is a connection loop as far as it
follows the channel: it subscribes when it is made, tells the interval at once, and
passes on the latest value it has not seen. `Restart` is `build_state`: unreadable keys
count as missing and are written back.

**Accounts.** Each endpoint is a chain: `Begin` is the extractor (the session, and the
role of that moment), then for example `CountAdmins`, `SetRole`; `PasswordRead`,
`PasswordUpdate`, `WipeSessions`; `LoginRead`, `ConsumeRecovery`,
`CreateSession`. `Drop` ends a request at any of them. `totp` is the secret whose code
`enable` verified, `secret` the one logins are verified against; the code keeps one
column and a flag. Wrong passwords and codes end a request without
touching this state and are left out.

## 3. Runs

| Run | Bounds | Checks |
|---|---|---|
| `AlertTransition` | one metric rule with a debounce, one offline rule, one node, two samples in flight and the patrol, clock 0..1, evaluations start while fewer than 2 events exist | `TypeOK`, `NoGhostEvent`, `CellNamesOpenRow`, `NoSilentAlert`, `RecoveryFollowsAlert`, `RecoveryAnnouncedOnce`; `OrphansClose` under fairness |
| `AlertRules` | one rule that does not exist yet, two handlers, one sample in flight, one event before the last evaluation starts | `CacheCurrent`, `OrphanOnlyInWindow` |
| `OfflinePatrol` | one node; period 1, gap at most 2, grace 4, confirmation 1, re-fire 7, window 12, clock 0..13, at most 2 failed SELECTs while a node is silent | `TypeOK`, `OutageDetected`, `AlertsSpaced`, `SilenceConfirmed` |
| `Notify` | two rules, one node, two channels, two workers and the patrol; window 2, kept 3, throttle limit 1, sweep limit 1, clock 0..4, two events, four calls; three scenes | `SilenceRespected`, `DueReminded`, `ThrottleExact` |
| `UpgradeChannel` | two nodes, two loops, two requests per node, window 1, clock 0..1 | `TypeOK`, `SenderHasLoop`, `WindowOnlyWithoutSender`, `NoDoubleUpgrade`, `TriggerArrives` |
| `UpgradeChannelReconnect` (violation) | one node, two loops, one request | `LiveConnectionHasSender` |
| `NodeRegistration` | two nodes, two keys, two requests, one connection | `KeySpentOnce`, `ActiveByCurrentKey`, `RevokedCutOff` |
| `AgentSession` | three samples, the third large; buffer 2, chunk 2 points or 2 bytes, frame 3 bytes, two loops, agent's clock one ahead, bucket 5, delay 1, clock 0..3, two troubles | `BufferIsNewest`, `NothingLostOnLink`, `NotCutOff`, `ImplementsLog`, `Drains` |
| `Telemetry` | interval 5, skew 300, two samples, two tasks pending, limits scaled down, views of a day and of 40 days; three scenes | `CountedOnce`, `PeriodClean`, `PeriodStartRight`, `HistoryComplete`, `UsedWithinTotal` |
| `Settings` | two forms, two requests, one node, two loops, two calls, two troubles | `CopiesAgree`, `AgentsFollow` |
| `SettingsUnheard` (violation) | two forms, one request, one node, one loop, one call, no trouble | `IntervalCurrent` |
| `Accounts` | two accounts, requests, sessions, passwords, secrets and recovery codes, at most two accounts; five families of operations | `AdminRemains`, `SessionMatchesAccount`, `EnabledSecretProven`, `RecoveryCodeOnce` |

Why the bounds are enough. The cells of different keys never meet, except in the
id sequence and the table, so one key per kind of rule and the two kinds suffice;
two samples and the patrol in flight give every overlap of one INSERT with a
clear, a second fire and a second INSERT. The event bound lets a cell fire,
clear and fire again, with a restart between. The patrol's clock is long enough
for an alert, a recovery, a second outage inside the window and its end; one
node suffices because rounds step nodes independently. The source's period,
confirmation, re-fire time and window (30, 30, 300 and 600 s) are 1, 1, 10 and 20
units, and a rule's grace is 2 units or more; the run keeps their order, and keeps
the re-fire time longer than grace and confirmation together, without which the
anti-flap window would never matter. Its grace is that of a rule of 120 s, the least
into which a round without rows fits at the longest gap; with the second failed SELECT
`SilenceConfirmed` no longer applies, and `OutageDetected` has its longest delay
before the clock ends. Two loops of one node are
the least that overlap, and the two nodes show that dropping passed windows does
not touch another node's.

For `AgentSession`, three samples fill the buffer and push one out, and make chunks
that either limit ends; two troubles give a session that fails while it sends its
buffer and an old connection that is still worked off during the next. The bucket
is the smallest with which the instance passes: with 4 the agent is cut off. What
the constants must satisfy is: one Hello, a full buffer in its smallest chunks, and
the reports of one `MaxDelay` cost no more than `Bucket`; `ChunkBytes` and the
largest sample fit `MaxMessage`; `Chunk` is at most `MaxPoints` (`SessionAssumption`
states this one, on which the proofs rest). In the source:
120 tokens pay for 1 + 50 + 9 (full chunks) and leave 60 reports, a minute's delay
at the shortest interval; chunks of 15 points leave about two. A server
configured with a frame limit below the agent's 192 KiB budget breaks the second.

Three instances are unions of smaller ones: a variable of the MC module, chosen at
the start, says what a behaviour is about. `Telemetry` has the counters (one node,
a clock around the turn of a year and a leap day, reset days changed), the tables (two
nodes that back-fill around hours, a day and a week) and the calendar (the days of
early 2000, a leap century, and of December 2023 to March 2025). Interval, skew,
back-fill age, re-rolled hours and the week of roll-up rows are those of the
source; bytes and rates are small numbers in the source's order.
`Notify` has the throttle (two workers, two channels, a map that overflows at once),
logins repeated over time, and the sweep. `Accounts` lets a behaviour use
one family of operations beside logins; the families together hold every
operation and every pair whose overlap a property names, and symmetry is over
model values that no action tells apart.
`NodeRegistration` needs two nodes for a batch and for keys that must not be
mixed up, and two requests for every overlap of a registration with a revocation.

What is bounded, by name: `MaxTime` (clock), `MaxEvents` (no evaluation starts
beyond it), `MaxGap` (the longest distance of two patrol rounds), `MaxMissed` (failed
SELECTs while a node is silent, in the run of `OfflinePatrol` only), `MaxRequests`,
`MaxSamples`, `MaxPending` (spawned tasks), `MaxTroubles` (broken links, failed
dials and statements, restarts), `MaxCalls` (forms; in `Notify` logins,
administration and restarts), `Years`, `Instants`, `SilenceIds`, and the sizes of
the sets of requests, workers and connections. `MaxUsers`, `MaxChannels`,
`MaxSilences`, `ThrottleLimit` and `SweepLimit` are the code's own limits, made
small. Deadlock checking is off because all these bounds stop the model where the
program goes on.

Fairness. `AlertTransition` assumes that a task that has been started goes
on (`WF_vars(TaskStep(t))`): tokio polls every spawned task and SQLite answers or
fails. `UpgradeChannel` assumes the same of a loop's registration, resend and
delivery. `AgentSession` assumes that the agent's loop goes on, that the server goes
on serving some connection that has work, and that its clock runs up to the
bound, where a wait counts as over. `NodeRegistration` assumes that a connection
that stays is heard (an agent reports once an interval). `Settings` assumes that
handlers and loops are polled and that a link that holds delivers. Nothing
else is assumed of samples, links or administrators.

Assumptions on the environment. In `AgentSession` a message that is not lost arrives
within `MaxDelay`; there and in the alert modules the clock does not step back
(in `Telemetry` it may). In `Notify` a clock reading is used within `MaxLag`, as
no await lies between `unix_now` and the last lock, and `Dedup + MaxLag` is at
most `KeepSecs` (60 s against an hour). `SilenceConfirmed` asks that what the patrol
may not have seen fits into the grace (section 4). Handlers may be dropped in
`AlertRules`, `Notify`, `NodeRegistration`, `Settings` and `Accounts`.

## 4. What the checks show

Two statements of the repository do not hold:

* **An old connection unregisters the new one** (`UpgradeChannelReconnect`):
  `ws_agent.rs:234` removes the node's sender whoever registered it, and a
  connected node is told to wait for its next reconnect, against `nodes.rs:679`.
* **An interval nobody heard is forgotten** (`SettingsUnheard`): `settings.rs:145`
  sends to a watch channel whose first receiver `main.rs:129` dropped. Without an
  agent connected `send` is an error that keeps nothing, and agents that connect
  later are told the old interval (`ws_agent.rs:113`) until the server restarts.

Where a property names exceptions, these are what the code lets happen:

* *The cache* (`CacheCurrent`). It follows the table after every handler that ran
  alone from its change to its reload, whatever the handlers before it left in the
  cache. Two overlapping handlers may write the older read last; one that is
  dropped reloads nothing; a failed SELECT leaves no rules.
* *Events of a disabled rule* (`OrphanOnlyInWindow`). An INSERT between the UPDATE
  and `forget_rule` of `resolve_rule_events` leaves a row that only a restart
  closes. This is the only opening, for any number of handlers, rules and tasks.
* *Late samples.* Evaluations of one node are not ordered (`ws_agent.rs:363`); a late
  sample may re-arm a breach a younger one has ended. Rows, cells and
  notices stay consistent all the same.
* *The anti-flap window* is measured at each round, so a breach that began inside
  it may fire when the window ends; two alerts are still `FlapRefire` apart.
* *Rounds without rows* (`SilenceConfirmed`, `OutageDetected`). A failed SELECT is a round
  that evaluates nobody (`alerts.rs:313`). A breach is then confirmed by rounds
  further apart, and a report in between goes unseen: no alert for a hiccup is claimed
  while one wait for a round, and one more for each failed SELECT since the node was
  last found within the grace, fit into the grace. With rounds 30 s apart and a grace
  of 60 s that is one failed SELECT; two in a row may report a silence of 85 s where
  grace and confirmation are 90 s. An outage is found one wait later for each failed
  SELECT.
* *Reminders* (`DueReminded`). A sweep reads 200 rows in no order and never stamps a
  silenced one, so it is claimed for sweeps that read all that was due.
* *Registration* (`ActiveByCurrentKey`). A registration whose key was marked
  between the two statements of a revocation activates the node again; a
  revocation dropped between them leaves a key that still works.
* *Administrators* (`AdminRemains`). Two demotions or deletions of different accounts
  that are both past their COUNT can remove the last one.
* *Sessions* (`SessionMatchesAccount`). A login that verified the old password
  may insert its session after the others were revoked; a dropped request does
  not get to its DELETE.
* *Second factor* (`EnabledSecretProven`). A set-up between the read and the write of
  an enable replaces the verified secret.
* *Counters* (`PeriodClean`). A patch that changes the reset day keeps what has been
  counted; between a sweep's read and its write it is overwritten by the sweep, with the
  counters zeroed (`traffic.rs:122`). A clock set back counts into a period
  that has begun.
* *History* (`HistoryComplete`). Late points of two hours are inside the six
  hours that are rolled up again. What is not owed, besides rows past their
  retention: samples stored while the clock stood hours behind the cursor; samples
  that a purge deleted while the next roll-up still reached them, after hours of
  failing statements or with a clock far ahead; the deleted samples of an hour that a
  purge has cut, when the cursor could not be read and the hour was rolled up from the
  rest (`retention.rs:187` through `db.rs:33-41`); and deleted samples of the hours
  that a cursor set back with the clock opens again. The guard after `retention.rs:187`
  stops a step back of six hours or more, but the cursor follows smaller ones. Each of
  these is needed: without it the run finds a counterexample.
* *Settings* (`CopiesAgree`). Two overlapping forms, or one dropped between its
  statements, may leave the copies and the table with different winners.

## 5. Proofs

TLAPS proves these for every value of the constants that meets the named
assumptions of the modules (`FlapAssumption`, `EvaluatorAssumption`,
`RulesAssumption`, `PatrolAssumption`, `NotifyAssumption`, `UpgradeAssumption`,
`SessionAssumption`, `RegistrationAssumption`, `TelemetryAssumption`,
`SettingsAssumption`, `AccountsAssumption`). They give the constants their types,
keep the special values apart, and hold in the source; the ones that say more are
`NotifyAssumption` (`Dedup + MaxLag` at most `KeepSecs`) and `SessionAssumption`
(`Chunk` at most `MaxPoints`, `MaxBackfillPoints` in the source). Two theorems
have a hypothesis beside them, stated below: `NotCutOff` (`RateFits`) and
`PeriodStartRight` (`YearsCovered`). The others claim what their property says, with
the exceptions it names (section 4).

* `AlertProofs`, the evaluator: `TypeOK`, `NoGhostEvent`, `CellNamesOpenRow`,
  `NoSilentAlert`, `RecoveryFollowsAlert` and `RecoveryAnnouncedOnce`. None is
  inductive alone. `Kept` adds that a task's control point determines which
  of its fields are set (`TaskShape`); that rowids are fresh, so the next INSERT
  gives an id that nothing mentions (`IdsUsedOnce`); that an id is in one hand at
  a time, a cell's or one task's (`OneHolder`); and that an event in somebody's
  hand has not had its recovery announced (`HeldNotEnded`). `SafetyInv` is `Kept`
  and that held events are open rows. There is one lemma per action.
* `AlertProofs`, under administration (`AlertRules`): `CacheCurrent`,
  `OrphanOnlyInWindow`, and `NoSilentAlert` again. The lemmas of the evaluator say of
  each step that it keeps `Kept` and that it lets go of no row (`LetsGoOfNone`),
  from whatever rules its evaluation started, so they serve here unchanged.
  What administrators break is that held events are open. The argument for
  `OrphanOnlyInWindow` is `ForgetWindow`: between the two halves of
  `resolve_rule_events` the only open rows of its rule are those of `raced`. For
  the cache, a handler that is alone is alone (`AloneIsAlone`) and what it has read
  is still what the table holds (`SnapCurrent`).
* `OfflinePatrolProofs`: `TypeOK`, `AlertsSpaced`, `SilenceConfirmed`,
  `OutageDetected`. For the spacing, `SpacingInv` remembers for each node that has
  alerted that its cell is still firing, or that its recovery is remembered and
  not older than the alert, or that the alert is already a full window ago;
  pruning preserves it because it keeps cells whose recovery is recent. For the
  other two, `RoundInv` says how old the last round may be, and that what a node in
  breach reported since its row was read is no older than the waits that passed
  unseen (`UnseenIsYoung`), which a failed SELECT lengthens by one wait at most
  (`BlindGrows`); `ConfirmInv` that the row was too old when the breach began, or
  is young enough to end it; `OutageInv` that a breach begins in the first round
  with rows after the grace.
* `NotifyProofs`: `SilenceRespected`, `DueReminded`, `ThrottleExact`, each with an
  invariant of its own. `SilenceInv`: what a notice and a silence are about never
  changes, so a silence in force when the notice was taken up and in force later
  was in force at the check. `SweepInv`: a complete sweep has yet to reach, or has
  dealt with, each event that is due. `ThrottleInv`: what was pruned is older than
  any reading still in use and a window together.
* `DownlinkProofs`, upgrades: `TypeOK`, `SenderHasLoop`, `WindowOnlyWithoutSender`,
  with the strengthening `LoopHasNode`, that a loop that is in use has a node; and
  `NoDoubleUpgrade`. What a node has coming is a finite set of triggers (`CountInv`):
  a step brings in one at most, paid for by a request or by the window that a
  registration takes (`LoopTakes`), or lets one go, which arrives once or is
  lost (`LoopSends`).
* `DownlinkProofs`, settings: `CopiesAgree`, by `CopiesInv`: a request that believes
  itself alone is the only one (`AloneIsOnly`) and has written exactly the
  keys before its control point (`AloneHasWritten`).
* `AgentSessionProofs`: `BufferIsNewest`, `NothingLostOnLink`, and `ImplementsLog`,
  that the session implements `SampleLog`. The first is inductive with the types
  of the agent's part of the state. The others need what may be on a wire: only
  the agent's own link can be up (`LinkInv`), and a sample on a wire is older than
  all the agent keeps and is on one wire once (`WireInv`). The refinement is shown
  action by action: each maps to a step of the log or to none.
* `AgentSessionProofs`, the rate limit: `NotCutOff`, that an open connection can
  always pay for its next message, given `RateFits`. `RateInv` says that
  each wire is paid for: what is on it adds up to no more than the tokens of its
  loop. Two bounds keep it so. While the buffer goes out (`Flushing`), the
  bucket is short of what Hello and the chunks sent have cost at most, each chunk
  being of at least `SureChunk` points, the number whose bytes always fit;
  afterwards (`Reporting`) it is short of that and of the reports that may be
  late: those on the wire are an interval apart, in which the bucket regains the
  price of one, and a message arrives within `MaxDelay`. The sum over
  a wire is a bill of partial sums that grows and shrinks with it (`Costs`), and the
  bytes of a chunk are bounded as the sums of `TelemetryProofs` are, by a least
  counterexample. `RateFits` asks that the bucket hold
  Hello, a full buffer in its smallest chunks and `Delayed + 2` reports. In tokens
  of one point the source has a bucket of 2400 refilled at 160 a second, 20 a
  message, 1000 points kept and 120 or 192 KiB a chunk. If points have at most
  10 KB, a chunk holds 19 at least, a full buffer with Hello costs
  20 + 1000 + 20 * 53 = 2080, and 16 messages are left: a delay of 14 intervals.
  Points of more than 13 KB, or a longer stall, are outside the theorem. The run's
  bucket is smaller than `RateFits` asks, which is enough and not necessary.
* `NodeRegistrationProofs`: `TypeOK`, `KeySpentOnce`, `ActiveByCurrentKey`.
  `GrantInv` adds that valid keys are in no node's row and spent keys in one place
  (`SpendingInv`); that a registration that overlaps a revocation is marked late
  (`LateKnown`); that a valid key is the one granted last, unless a revocation is
  about to delete it (`ValidGranted`); that a registration that is not late has
  spent the key granted last (`SpentGranted`); and that an active node has its key
  row, which nobody is about to delete (`ActiveHasKey`).
* `TelemetryProofs`: `CountedOnce`, `PeriodClean`, `HistoryComplete`. `CountInv` says
  what a counter holds fits between its earliest second and its last, so the next
  report, which adds the seconds since the last at the highest rate at most, keeps
  it; and that an empty counter has no earliest second. `PeriodInv` adds the reports
  that wait: those of a node that is not mixed are of its period. `RollupInv` says
  that the cursor stands on a full hour, so that an hour is never cut by the window,
  and that an owed sample the next roll-up reaches is still there. So a row it
  replaces loses nothing that is owed; where the window starts at 0 instead, because
  the cursor could not be read, a row is replaced only if its hour has samples
  left, and then all of those owed are.
* `TelemetryProofs`, the views: `UsedWithinTotal`. `MeasureInv` says that every
  stored measure, and every sample a row of the roll-up was computed from, is
  consistent and that rows have samples, finitely many. `ViewsWithin` then goes
  through the views: a mean is at most the greatest capacity, a sum of means at most
  the sum of these. Sums are those of `MapThenSumSet`, about which the
  library's induction would need a predicate: instead, a set on which the sum is
  wrong has a smallest, and what is added to that last refutes it (`SumBounded`,
  `SumGrows`).
* `TelemetryProofs`, the calendar: `PeriodStartRight` for every instant, given
  `YearsCovered`: `Years` are of 1969 and later and hold the year of each
  instant and the year before (any range does, one year ahead of the clock). The
  second definition counts leap years one by one and adds months up, so first its
  sums get closed forms (`MonthsAddUp`, `YearStarts`: least counterexamples
  again). Then the code's arithmetic is taken step by step: `days_from_civil`
  is the calendar's number of a day (`DaysRight`); in an era of 146097 days
  the year is 0 to 399, and has a day 365 only before a 29 February (`EraDivided`);
  so `civil_from_days` names a date that exists and `days_from_civil` returns the
  day (`DayBack`). Months follow each other without overlap (`NoStartInside`),
  so no other day of the number lies between the period's start and today.
* `AccountsProofs`: `AdminRemains`, `SessionMatchesAccount`, `EnabledSecretProven` and
  `RecoveryCodeOnce`, and the shape of the state. `AccountsInv` says of every
  request that what it has read is still so, as far as the requests beside it
  allow: requests have the fields of their control point (`ShapeKept`); overlaps
  are in `clash` (`ClashKnown`); a demotion past its count leaves an administrator
  (`RolesKept`); a verified secret is the one in the row (`SecretsKept`); a recovery
  code is unused, in one login or on one session (`CodesKept`); and a session that
  does not fit its account is about to be revoked (`SessionsKept`).

Only model-checked, and why: `OrphansClose`, `TriggerArrives`, `Drains`,
`RevokedCutOff` and `AgentsFollow` are liveness, which with ENABLED is beyond the
prover. Every invariant and every action property that a passing run checks has
a theorem.

## 6. Not modelled

Of the modelled parts: values, comparators and the rate-of-change look-up of a
sample (either outcome is chosen); message texts; node-scoped rules and the
clean-up `forget_node` when a node is deleted (a scope only narrows the snapshot);
validation of forms and the limit on rules; the HTTP and SMTP clients; a node revoked while
firing keeps its open event, which the patrol no longer visits; a trigger in
the channel of a loop that is leaving is lost; `pushed` starts empty at a restart, so
pairing of notices is claimed within one run of the server, and the
reconciliation announces nothing.

Of the agent's session: a new interval restarts the tick at once, one report
more than `NotCutOff` counts; the shutdown signal (as a restart), jitter, the connect
time-out's length, and pings of a live link, which an agent that reads answers.
Samples sent on a half-open link are lost, and the code promises nothing for
them. Of the ingest: the text fields of Hello, the container list and the live view.

Of accounts: cookies, CSRF checks, hashing and the arithmetic of TOTP, and the
login lock. Rate limiting is not modelled: floating-point buckets and a failure
counter per address, each behind one lock with one caller, on which no other
state depends. API tokens are one statement per operation.

Of the retention: the clearing of details and the deletion of audit entries, events
and sessions by age, each a single statement; backups, which are file work. Two
backups started by hand at the same time share `.outpost-backup.tmp`
(`account.rs:89`). Of the views: the export formats, the status page and the
push to browsers, which format what the modelled views compute.

Start-up, configuration, TLS, the agent's collectors and parsers, the browser
code and the scripts are wiring, parsing and I/O.

## 7. Open ends

1. Proofs: that `Restart` of `AlertTransition` alone closes what
   `OrphanOnlyInWindow` leaves; `NotCutOff` down to the smallest bucket.
2. `AlertRules` with node-scoped rules, deleted nodes and their cascade, on top of
   `NodeRegistration`; `AgentSession` with revocation.
3. An abstract specification of an alert episode (raise, announce, end, announce)
   implemented by `AlertTransition` together with `Notify`.
