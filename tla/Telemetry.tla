----------------------------- MODULE Telemetry -----------------------------
(***************************************************************************)
(* What becomes of an agent's reports: handle_msg of ws_agent.rs stores    *)
(* them, traffic.rs adds up their rates, the hourly task of retention.rs   *)
(* rolls them up, deletes the old ones and resets the counters, and the    *)
(* views of nodes.rs and dataout.rs read what is left.                     *)
(*                                                                         *)
(* A stored sample keeps one measure with its capacity (mem_used and       *)
(* mem_total, which stand for swap and disk too), and of receiving and     *)
(* sending, which are counted alike, one direction is kept.  A row of the  *)
(* roll-up table holds the samples it was computed from; the averages and  *)
(* maxima over them are taken where a view reads the row.                  *)
(***************************************************************************)
EXTENDS Calendar, FiniteSets, TLC

CONSTANTS
    Nodes,
    Instants,       \* unix seconds the clock may show; it may be set back
    Reports,        \* what a report may say, sound or not
    ResetDays,      \* reset days an administrator asks for, valid or not
    RetentionDays,  \* values of the setting retention_days
    Interval,       \* the report interval, in seconds
    Skew,           \* metrics.ts_skew_secs
    MaxBytes, MaxBps, MaxRate, MaxTotal,  \* the limits, scaled down
    Views,          \* lengths of time a view is asked for, in seconds
    MaxPending      \* bound: spawned tasks that have not accumulated yet

ASSUME TelemetryAssumption ==
    /\ {Interval, Skew, MaxBytes, MaxBps, MaxRate, MaxTotal} \subseteq Nat
    /\ Instants \subseteq Nat \ {0}
    /\ Reports \subseteq [finite : BOOLEAN, used : Nat, total : Nat, rate : Nat]
    /\ RetentionDays \subseteq Nat /\ ResetDays \subseteq Int

VARIABLES
    clock,      \* what unix_now() returns
    row,        \* the traffic columns of the nodes table
    pending,    \* spawned tasks on their way to accumulate
    raw,        \* the metrics table
    rollup,     \* the metrics_rollup table
    cursor,     \* the setting rollup_cursor_ts
    task,       \* where the hourly task stands
    due,        \* the rows its sweep_resets is working through
    oldest,     \* history: the earliest second in a node's counters, 0 if none
    mixed,      \* history: nodes whose counters may hold traffic of an earlier
                \* period although the sweep did its work
    owed        \* history: samples the long views have to show

vars == <<clock, row, pending, raw, rollup, cursor, task, due,
          oldest, mixed, owed>>
traffic == <<row, pending, oldest, mixed>>
tables == <<raw, rollup, cursor, owed>>
-----------------------------------------------------------------------------
HourSecs == 3600
MaxBackfillAge == 2 * HourSecs
RerollSecs == 6 * HourSecs

Hour(t) == (t \div HourSecs) * HourSecs
MinOf(a, b) == IF a < b THEN a ELSE b
MaxOf(a, b) == IF a < b THEN b ELSE a

Cap == MaxOf(3 * Interval, 30)

\* validate_and_clean_metrics: the report made consistent, or none at all.
Cleaned(r) ==
    IF ~r.finite \/ r.total > MaxBytes \/ r.rate > MaxBps THEN {}
    ELSE {[r EXCEPT !.used = MinOf(@, r.total)]}

\* Both INSERTs pass over a sample whose second is taken (UNIQUE node_id, ts).
Stored(s) == IF \E o \in raw : o.node = s.node /\ o.t = s.t THEN {} ELSE {s}

\* A sample has to reach the long views unless the server's clock has been set
\* back by more than the re-roll window allows for.
OnTime(t) == t >= cursor - (RerollSecs - MaxBackfillAge)

-----------------------------------------------------------------------------
(* Reports.                                                                *)

\* A report, dated ts by its agent: stored under the server's time; a task is
\* spawned that evaluates it and then adds its rate up.
Metrics(n, ts, report) ==
    /\ MaxOf(ts - clock, clock - ts) <= Skew
    /\ Cardinality(pending) < MaxPending
    /\ \E r \in Cleaned(report) :
         LET new == Stored([node |-> n, t |-> clock, used |-> r.used, total |-> r.total])
         IN /\ raw' = raw \cup new
            /\ owed' = owed \cup (IF OnTime(clock) THEN new ELSE {})
            /\ pending' = pending \cup {[node |-> n, at |-> clock, rate |-> r.rate]}
    /\ mixed' = IF clock < row[n].start THEN mixed \cup {n} ELSE mixed
    /\ UNCHANGED <<clock, row, rollup, cursor, task, due, oldest>>

\* A back-filled point keeps its own time, if that is not too far back.
Backfill(n, ts, report) ==
    /\ clock - MaxBackfillAge <= ts /\ ts <= clock + Skew
    /\ \E r \in Cleaned(report) :
         LET new == Stored([node |-> n, t |-> ts, used |-> r.used, total |-> r.total])
         IN /\ raw' = raw \cup new
            /\ owed' = owed \cup (IF OnTime(clock) THEN new ELSE {})
    /\ UNCHANGED <<clock, traffic, rollup, cursor, task, due>>

\* Variant with a fault: the seconds are counted without looking at the order
\* of the reports.
AccumulateUnordered(p) ==
    /\ pending' = pending \ {p}
    /\ LET r    == row[p.node]
           secs == IF r.last > 0 THEN MinOf(MaxOf(p.at - r.last, r.last - p.at), Cap) ELSE 0
           more == MinOf(p.rate, MaxRate) * secs
       IN /\ row' = [row EXCEPT ![p.node] =
               [@ EXCEPT !.total = MinOf(r.total + more, MaxTotal), !.last = p.at]]
          /\ oldest' = IF more > 0 /\ oldest[p.node] = 0
                       THEN [oldest EXCEPT ![p.node] = p.at - secs] ELSE oldest
    /\ UNCHANGED <<clock, tables, task, due, mixed>>

\* accumulate: one UPDATE, which counts the seconds since the last report, at
\* most Cap of them, and none when a later report has been counted.  It may fail.
Accumulate(p) ==
    /\ pending' = pending \ {p}
    /\ LET r    == row[p.node]
           secs == IF r.last > 0 THEN MinOf(p.at - r.last, Cap) ELSE 0
           more == MinOf(p.rate, MaxRate) * secs
       IN \/ /\ p.at > r.last
             /\ row' = [row EXCEPT ![p.node] =
                    [@ EXCEPT !.total = MinOf(r.total + more, MaxTotal), !.last = p.at]]
             /\ oldest' = IF more > 0 /\ oldest[p.node] = 0
                          THEN [oldest EXCEPT ![p.node] = p.at - secs] ELSE oldest
          \/ UNCHANGED <<row, oldest>>
    /\ UNCHANGED <<clock, tables, task, due, mixed>>

\* Whether reports of n from before a period are still to be counted.
Straddles(n, start) == \E p \in pending : p.node = n /\ p.at < start

\* rename (and create): the reset day is set and the period re-based; the
\* counters keep what they hold.
Rename(n, on, day) ==
    /\ on => valid_reset_day(day)
    /\ LET start == IF on THEN current_period_start(clock, day) ELSE 0
       IN /\ row' = [row EXCEPT ![n] = [@ EXCEPT !.on = on, !.day = day, !.start = start]]
          /\ mixed' = IF row[n].total > 0 \/ Straddles(n, start)
                      THEN mixed \cup {n} ELSE mixed \ {n}
    /\ UNCHANGED <<clock, pending, oldest, tables, task, due>>

-----------------------------------------------------------------------------
(* The hourly task.                                                        *)

Tick ==
    /\ task = "sleep"
    /\ task' = "rollup"
    /\ UNCHANGED <<clock, traffic, tables, due>>

\* One row for each node and hour with samples in the window.
Aggregated(from, to) ==
    LET window == {s \in raw : from <= s.t /\ s.t < to} IN
      {[node |-> s.node, hour |-> Hour(s.t),
        of |-> {o \in window : o.node = s.node /\ Hour(o.t) = Hour(s.t)}] : s \in window}

\* INSERT OR REPLACE under the key (node_id, hour_ts).
Replacing(rows) ==
    {r \in rollup : \A o \in rows : <<o.node, o.hour>> # <<r.node, r.hour>>} \cup rows

\* Variant with a fault: each hour is rolled up once.
RollUpOnce ==
    /\ task = "rollup"
    /\ task' = "purge"
    /\ LET cur == Hour(clock) IN
         IF cur <= cursor THEN UNCHANGED <<rollup, cursor>>
         ELSE \E written, moved \in BOOLEAN :
                /\ moved => written
                /\ rollup' = IF written THEN Replacing(Aggregated(cursor, cur)) ELSE rollup
                /\ cursor' = IF moved THEN cur ELSE cursor
    /\ UNCHANGED <<clock, traffic, raw, owed, due>>

\* The sample is deleted and another one of its node and hour is not.
Torn(s) == s \notin raw /\ \E o \in raw : o.node = s.node /\ Hour(o.t) = Hour(s.t)

\* rollup: the completed hours since the cursor and the six before it are
\* aggregated again.  Either statement may fail; so may the reading of the
\* cursor, which then counts as 0.  No longer owed is what was deleted of the
\* hours that are aggregated from the rest because of that, and of those that
\* a clock behind the cursor opens again.
RollUp ==
    /\ task = "rollup"
    /\ task' = "purge"
    /\ \E read \in {cursor, 0} :
         LET cur  == Hour(clock)
             from == MaxOf(read - RerollSecs, 0)
         IN IF cur <= read - RerollSecs
            THEN UNCHANGED <<rollup, cursor, owed>>
            ELSE \E written, moved \in BOOLEAN :
                   /\ moved => written
                   /\ rollup' = IF written THEN Replacing(Aggregated(from, cur)) ELSE rollup
                   /\ cursor' = IF moved THEN cur ELSE cursor
                   /\ owed' = {s \in owed :
                        /\ written /\ read # cursor => ~Torn(s)
                        /\ moved /\ cur < cursor => s \in raw \/ s.t < cur - RerollSecs}
    /\ UNCHANGED <<clock, traffic, raw, due>>

\* The samples past retention_days go in batches; a batch may fail, which
\* leaves the rest for the next hour.  A purge that overtakes the roll-up
\* deletes what it still reads; that is no longer owed.
Purge ==
    /\ task = "purge"
    /\ task' = "expire"
    /\ \E days \in RetentionDays :
         LET old == {s \in raw : s.t < clock - days * DaySecs} IN
         \E gone \in SUBSET old :
            /\ raw' = raw \ gone
            /\ owed' = owed \ {s \in gone : Hour(s.t) >= cursor - RerollSecs}
    /\ UNCHANGED <<clock, traffic, rollup, cursor, due>>

\* Roll-up rows are kept for rollup_retention_days, a week at least.
Expire ==
    /\ task = "expire"
    /\ task' = "sweep"
    /\ LET cutoff == clock - 7 * DaySecs IN
         \E ok \in BOOLEAN :
            /\ rollup' = IF ok THEN {r \in rollup : r.hour >= cutoff} ELSE rollup
            /\ owed' = IF ok THEN {s \in owed : Hour(s.t) >= cutoff} ELSE owed
    /\ UNCHANGED <<clock, traffic, raw, cursor, due>>

\* sweep_resets: the rows whose period has passed, as they are now.
SweepRead ==
    /\ task = "sweep"
    /\ task' = "write"
    /\ due' = {d \in [node : Nodes, start : {row[n].start : n \in Nodes},
                      expected : {current_period_start(clock, row[n].day) : n \in Nodes}] :
                 /\ row[d.node].on
                 /\ d.start = row[d.node].start
                 /\ d.expected = current_period_start(clock, row[d.node].day)
                 /\ d.start # d.expected}
    /\ UNCHANGED <<clock, traffic, tables>>

\* Variant with a fault: the new period is noted and the counters are kept.
SweepWriteStartOnly(d) ==
    /\ task = "write" /\ d \in due
    /\ due' = due \ {d}
    /\ row' = [row EXCEPT ![d.node].start = d.expected]
    /\ UNCHANGED <<clock, pending, oldest, mixed, tables, task>>

\* Its UPDATEs, one row after the other.  A start that was never noted is
\* noted; one that has passed is replaced and the counters are zeroed.
SweepWrite(d) ==
    /\ task = "write" /\ d \in due
    /\ due' = due \ {d}
    /\ LET n == d.node IN
         \/ UNCHANGED <<row, oldest, mixed>>
         \/ /\ d.start = 0
            /\ IF row[n].start = 0
               THEN /\ row' = [row EXCEPT ![n].start = d.expected]
                    /\ mixed' = mixed \cup {n}
               ELSE UNCHANGED <<row, mixed>>
            /\ UNCHANGED oldest
         \/ /\ d.start # 0
            /\ row' = [row EXCEPT ![n] = [@ EXCEPT !.total = 0, !.start = d.expected]]
            /\ oldest' = [oldest EXCEPT ![n] = 0]
            /\ mixed' = IF Straddles(n, d.expected) THEN mixed \cup {n} ELSE mixed \ {n}
    /\ UNCHANGED <<clock, pending, tables, task>>

RoundEnds ==
    /\ task = "write" /\ due = {}
    /\ task' = "sleep"
    /\ UNCHANGED <<clock, traffic, tables, due>>

\* The server restarts: what was spawned is gone; the first round is at once.
Restart ==
    /\ task' = "rollup"
    /\ due' = {} /\ pending' = {}
    /\ UNCHANGED <<clock, row, oldest, mixed, tables>>

ClockShows(t) ==
    /\ clock' = t
    /\ UNCHANGED <<traffic, tables, task, due>>

-----------------------------------------------------------------------------
(* The views.  A point is a measure with its capacity.                     *)

SumOf(f(_), S) == MapThenSumSet(f, S)
Used(s) == s.used
Total(s) == s.total
Mean(S) == SumOf(Used, S) \div Cardinality(S)
Greatest(S) == Max({s.total : s \in S})

\* Past two days a view reads the roll-up, where a row is the mean and the
\* maximum of its samples, else the samples.
Long(secs) == secs > 2 * DaySecs

Rows(secs) ==
    {s \in IF Long(secs)
           THEN {[node |-> r.node, t |-> r.hour, used |-> Mean(r.of), total |-> Greatest(r.of)] :
                   r \in rollup}
           ELSE raw : s.t >= clock - secs}

\* A view of secs seconds has about `points' of them, an hour or more apart
\* when it reads the roll-up.
Bucket(t, secs, points) ==
    LET wide == MaxOf(secs \div points, 1)
        step == IF Long(secs) THEN MaxOf(wide, HourSecs) ELSE wide
    IN  (t \div step) * step

InBucket(rows, t, secs, points) == {r \in rows : Bucket(r.t, secs, points) = t}

\* history: the points of one node.
History(n, secs) ==
    LET rows == {r \in Rows(secs) : r.node = n} IN
      {LET b == InBucket(rows, t, secs, 360) IN [t |-> t, used |-> Mean(b), total |-> Greatest(b)] :
         t \in {Bucket(r.t, secs, 360) : r \in rows}}

\* Variant with a fault: the samples of a bucket are added up as they come.
TrendOfRows(secs) ==
    LET rows == Rows(secs) IN
      {LET b == InBucket(rows, t, secs, 240) IN
         [t |-> t, used |-> SumOf(Used, b),
          total |-> SumOf(Total, {[node |-> n, total |-> Greatest({r \in b : r.node = n})] :
                                    n \in {r.node : r \in b}})] :
         t \in {Bucket(r.t, secs, 240) : r \in rows}}

\* overview_trend: first one point a node and bucket, then their sum.
Trend(secs) ==
    LET rows == Rows(secs) IN
      {LET b     == InBucket(rows, t, secs, 240)
           nodes == {[node |-> n, used |-> Mean({r \in b : r.node = n}),
                      total |-> Greatest({r \in b : r.node = n})] : n \in {r.node : r \in b}}
       IN [t |-> t, used |-> SumOf(Used, nodes), total |-> SumOf(Total, nodes)] :
         t \in {Bucket(r.t, secs, 240) : r \in rows}}

\* node_summary: a node's samples of its latest second.
Summary(n) ==
    LET mine == {s \in raw : s.node = n} IN {s \in mine : \A o \in mine : o.t <= s.t}

\* detail: the first of a node's samples, latest first.
Detail(n) ==
    LET mine == {s \in raw : s.node = n} IN
      IF mine = {} THEN {} ELSE {CHOOSE s \in mine : \A o \in mine : o.t <= s.t}

-----------------------------------------------------------------------------
Init ==
    /\ clock \in Instants
    /\ row \in [Nodes -> {[total |-> 0, last |-> 0, on |-> o, day |-> 1, start |-> 0] :
                            o \in BOOLEAN}]
    /\ pending = {} /\ raw = {} /\ rollup = {} /\ cursor = 0
    /\ task = "rollup" /\ due = {}
    /\ oldest = [n \in Nodes |-> 0]
    /\ mixed = {} /\ owed = {}

Round ==
    \/ Tick \/ RollUp \/ Purge \/ Expire \/ SweepRead \/ RoundEnds
    \/ \E d \in due : SweepWrite(d)

Next ==
    \/ Round \/ Restart
    \/ \E t \in Instants : ClockShows(t)
    \/ \E p \in pending : Accumulate(p)
    \/ \E n \in Nodes, t \in Instants, r \in Reports : Metrics(n, t, r) \/ Backfill(n, t, r)
    \/ \E n \in Nodes, on \in BOOLEAN, d \in ResetDays : Rename(n, on, d)

Spec == Init /\ [][Next]_vars
-----------------------------------------------------------------------------
(* Properties.                                                             *)

\* "同一节点两条上报并发 ... 重复累加(C8)": however the spawned tasks are
\* ordered, no second is counted twice: the counter never exceeds the highest
\* rate held from its earliest second to its last.
CountedOnce ==
    \A n \in Nodes : row[n].total > 0 =>
        row[n].total <= MaxRate * (row[n].last - oldest[n])

\* "若已跨过当前统计周期边界则清零": the counters of a node with a reset day hold
\* nothing of an earlier period, apart from the stretch before the first
\* report of this one, unless they are mixed for a reason of their own.
PeriodClean ==
    \A n \in Nodes \ mixed :
        row[n].on /\ row[n].total > 0 => oldest[n] >= row[n].start - Cap

\* The instants whose periods begin at the last midnight that opened a day with
\* the reset day's number.
RightlyPlaced ==
    {t \in Instants : \A d \in ResetDays : valid_reset_day(d) =>
       LET today == t \div DaySecs
           start == current_period_start(t, d)
       IN  /\ start % DaySecs = 0 /\ start <= t
           /\ {day \in start \div DaySecs .. today : IsNumbered(day, d)}
                = {start \div DaySecs}}

\* The period of any moment the clock shows begins where the calendar says: no
\* month is too short, no year's end or leap day in the way.
PeriodStartRight == clock \in RightlyPlaced

\* "聚合完整小时", "纳入乱序/断线补传的迟到点": every stored sample is in the
\* roll-up or will be in the next one, whatever statement fails and however
\* late it came.  Not owed is what has passed the retention of the roll-up, what
\* was stored while the clock stood hours behind the cursor (OnTime), and of the
\* deleted samples those that a purge took before the roll-up was done with them,
\* those of an hour partly deleted when the cursor could not be read, and those of
\* the hours that the roll-up opened again after the clock was set back.
HistoryComplete ==
    \A s \in owed :
        \/ \E r \in rollup : s \in r.of
        \/ s \in raw /\ Hour(s.t) >= cursor - RerollSecs

\* "mem_used > mem_total 等矛盾 → 收敛, 避免图表被污染", "避免同节点桶内多点导致
\* 合计被重复累加": no point of any view, short or long, of one node or of all,
\* shows more in use than there is.
UsedWithinTotal ==
    \A secs \in Views :
        \A p \in Trend(secs) \cup UNION {History(n, secs) \cup Summary(n) \cup Detail(n) : n \in Nodes} :
            p.used <= p.total
=============================================================================
