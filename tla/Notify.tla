------------------------------- MODULE Notify -------------------------------
(***************************************************************************)
(* Who is told of an alert: alerts.rs (push_and_notify, is_silenced,       *)
(* notify_all, renotify_sweep) and the handlers for channels, silences and *)
(* the reminder interval in handlers/alerts.rs.                            *)
(*                                                                         *)
(* The alert evaluator hands each raised or resolved event to a worker;    *)
(* the patrol's task goes through the lasting ones in a sweep.  Both, and  *)
(* a login from a new address, end in notify_all, which offers the text to *)
(* every channel and is throttled by a map all of them share.  A step is   *)
(* one SQL statement or one turn under the map's lock.                     *)
(*                                                                         *)
(* A text is what it is about; its wording, the measured value and the     *)
(* hash are left out, so two events of one rule on one node have the same  *)
(* text.  Whether a send that was started succeeds is logged and changes   *)
(* nothing.                                                                *)
(***************************************************************************)
EXTENDS Integers, Sequences, FiniteSets, Functions

CONSTANTS
    Rules, Nodes,
    Severity,       \* the rank of each rule's severity, 0 to 2
    Channels,       \* channel ids, which AUTOINCREMENT never uses twice
    Workers,        \* tasks that announce an event or a login
    Patrol,         \* the patrol's task
    None,
    Dedup,          \* NOTIFY_DEDUP_SECS
    KeepSecs,       \* what the throttle keeps when it is pruned: 3600 s
    ThrottleLimit,  \* 4096 entries
    SweepLimit,     \* LIMIT 200
    Intervals,      \* what alert_renotify_secs is set to, besides 0
    Durations,      \* how long a silence may last
    MaxChannels, MaxSilences,   \* of handlers/alerts.rs
    \* bounds of the instance
    MaxTime, MaxEvents, SilenceIds, MaxCalls,
    MaxLag          \* a worker's clock reading is used this soon: there is
                    \* no await between unix_now and the last lock

ASSUME NotifyAssumption ==
    /\ Severity \in [Rules -> 0..2]
    /\ Dedup \in Nat \ {0} /\ KeepSecs \in Nat /\ MaxLag \in Nat
    /\ Dedup + MaxLag <= KeepSecs
    /\ ThrottleLimit \in Nat /\ SweepLimit \in Nat \ {0}
    /\ Intervals \subseteq Nat \ {0} /\ Durations \subseteq Nat \ {0}
    /\ MaxChannels \in Nat /\ MaxSilences \in Nat
    /\ MaxTime \in Nat /\ MaxEvents \in Nat /\ MaxCalls \in Nat
    /\ Patrol \notin Workers
    /\ None \notin Rules /\ None \notin Nodes

VARIABLES
    now,        \* unix_now
    events,     \* alert_events
    silences,   \* alert_silences
    channels,   \* notify_channels
    secs,       \* the setting alert_renotify_secs
    throttle,   \* notify_throttle: (channel, text) to time of last send
    job,        \* what each worker and the patrol are doing
    sweep,      \* the sweep under way, or the last one
    admin,      \* the administrator's request in flight
    calls,      \* requests and logins so far
    handed      \* history: how often each text was sent to each channel,
                \* and when last

vars == <<now, events, silences, channels, secs, throttle, job, sweep,
          admin, calls, handed>>
-----------------------------------------------------------------------------
Open == {e \in DOMAIN events : events[e].status = "open"}

\* A notice is of a login, or of a raised, lasting or resolved alert.
Text(kind, e) ==
    IF kind = "login" THEN <<"login">>
    ELSE <<kind, events[e].rule, events[e].node>>

\* pc: is_silenced, the SELECT of the channels, their loop, the UPDATE of
\* last_notified_at.  hushed is history: the silences in force when the
\* task took the notice up, none if it could not look for them.
Idle == [pc |-> "idle", kind |-> "login", ev |-> 0, hushed |-> {},
         clock |-> 0, todo |-> {}]

NoSweep == [at |-> 0, secs |-> 0, rows |-> {}, hushed |-> {},
            whole |-> FALSE, quiet |-> {}, unstamped |-> {}]

\* The rank of a notice, which channels compare with their min_severity.
sev_rank(kind, e) == IF kind = "login" THEN 0 ELSE Severity[events[e].rule]

\* NULL in a silence stands for every node or rule.
Covers(s, e) ==
    /\ s.node \in {None, events[e].node}
    /\ s.rule \in {None, events[e].rule}

Active(s, t) == s.status = "live" /\ s.start <= t /\ t < s.end

InForce == {i \in SilenceIds : Active(silences[i], now)}

\* Variant with a fault: NULL matches nothing.
silenced_exactly(e, t) ==
    \E i \in SilenceIds : /\ Active(silences[i], t)
                          /\ silences[i].node = events[e].node
                          /\ silences[i].rule = events[e].rule

\* Where the query fails, nothing is silenced: ok is FALSE at its callers.
is_silenced(e, t) ==
    \E i \in SilenceIds : Active(silences[i], t) /\ Covers(silences[i], e)

Live(f) == {i \in DOMAIN f : f[i].status = "live"}

NoSilence == [status |-> "new", node |-> None, rule |-> None,
              start |-> 0, end |-> 0]

NoChannel == [status |-> "new", min |-> 0]

NoRequest == [op |-> "idle", min |-> 0, rule |-> None, node |-> None, secs |-> 0]

Notice == [pc : {"idle", "check", "select", "offer", "stamp"},
           kind : {"login", "raised", "lasting", "resolved"}, ev : Nat,
           hushed : SUBSET SilenceIds, clock : Nat, todo : SUBSET Channels]
Event == [status : {"open", "resolved"}, rule : Rules, node : Nodes, last : Nat]
Silence == [status : {"new", "live", "gone"}, node : Nodes \cup {None},
            rule : Rules \cup {None}, start : Nat, end : Nat]
Channel == [status : {"new", "live", "gone"}, min : 0..2]
Sweep == [at : Nat, secs : Nat, rows : SUBSET Nat, hushed : SUBSET SilenceIds,
          whole : BOOLEAN, quiet : SUBSET Nat, unstamped : SUBSET Nat]
Request == [op : {"idle", "channel", "silence"}, min : 0..2,
            rule : Rules \cup {None}, node : Nodes \cup {None}, secs : Nat]
Charge == [times : Nat, last : Nat]

TypeOK ==
    /\ now \in Nat /\ calls \in Nat
    /\ events \in Seq(Event)
    /\ silences \in [SilenceIds -> Silence]
    /\ channels \in [Channels -> Channel]
    /\ secs \in Intervals \cup {0}
    /\ throttle \in [DOMAIN throttle -> Nat]
    /\ job \in [Workers \cup {Patrol} -> Notice]
    /\ sweep \in Sweep
    /\ admin \in Request
    /\ handed \in [DOMAIN handed -> Charge]

\* The server starts; channels, silences and the interval are those of an
\* earlier run.
Init ==
    /\ now = 0
    /\ events = <<>>
    /\ silences \in [SilenceIds -> {NoSilence} \cup
         [status : {"live"}, node : Nodes \cup {None}, rule : Rules \cup {None},
          start : {0}, end : Durations]]
    /\ channels \in [Channels -> {NoChannel} \cup [status : {"live"}, min : 0..2]]
    /\ secs \in Intervals \cup {0}
    /\ throttle = <<>>
    /\ job = [p \in Workers \cup {Patrol} |-> Idle]
    /\ sweep = NoSweep
    /\ admin = NoRequest
    /\ calls = 0
    /\ handed = <<>>
-----------------------------------------------------------------------------
(* The evaluator raises and resolves events; a login is announced too.     *)

\* Task p takes up a notice.  A login's has no silence to look for.
Takes(p, kind, e) ==
    job' = [job EXCEPT ![p] =
        [Idle EXCEPT !.pc = IF kind = "login" THEN "select" ELSE "check",
                     !.kind = kind, !.ev = e, !.hushed = InForce]]

\* transition: the INSERT sets last_notified_at to the event's start.  The
\* evaluator keeps one open event for a rule and node.
Raise(w, r, n) ==
    /\ job[w] = Idle
    /\ Len(events) < MaxEvents
    /\ ~\E e \in Open : events[e].rule = r /\ events[e].node = n
    /\ events' = Append(events, [status |-> "open", rule |-> r, node |-> n,
                                 last |-> now])
    /\ Takes(w, "raised", Len(events) + 1)
    /\ UNCHANGED <<now, silences, channels, secs, throttle, sweep, admin,
                   calls, handed>>

\* transition: the UPDATE of the end of an alert, then its notice.
Resolve(w, e) ==
    /\ job[w] = Idle
    /\ e \in Open
    /\ events' = [events EXCEPT ![e].status = "resolved"]
    /\ Takes(w, "resolved", e)
    /\ UNCHANGED <<now, silences, channels, secs, throttle, sweep, admin,
                   calls, handed>>

\* login: the notice is spawned.
Login(w) ==
    /\ job[w] = Idle
    /\ calls < MaxCalls
    /\ calls' = calls + 1
    /\ Takes(w, "login", 0)
    /\ UNCHANGED <<now, events, silences, channels, secs, throttle, sweep,
                   admin, handed>>
-----------------------------------------------------------------------------
(* The sweep over the events that last.                                    *)

\* Variant with a fault: an event that is due this very second has to wait.
DueStrictly(e) == e \in Open /\ events[e].last < now - secs

Due(e) == e \in Open /\ events[e].last <= now - secs

\* renotify_sweep: the setting is read, then at most LIMIT rows that are
\* due, in no stated order.  The SELECT may fail, which leaves no rows.
SweepBegins(rows) ==
    /\ job[Patrol] = Idle /\ sweep.rows = {}
    /\ secs > 0
    /\ LET due == {e \in Open : Due(e)} IN
         /\ rows \subseteq due
         /\ rows # {} => Cardinality(rows) = SweepLimit \/ rows = due
         /\ Cardinality(rows) <= SweepLimit
         /\ sweep' = [at |-> now, secs |-> secs, rows |-> rows,
                      hushed |-> InForce, whole |-> rows = due,
                      quiet |-> {}, unstamped |-> {}]
    /\ UNCHANGED <<now, events, silences, channels, secs, throttle, job,
                   admin, calls, handed>>

\* The next row.  Silence is judged at the time the sweep began, by the
\* table as it is now.
SweepRow(e, ok) ==
    /\ job[Patrol] = Idle
    /\ e \in sweep.rows
    /\ IF ok /\ is_silenced(e, sweep.at)
       THEN /\ sweep' = [sweep EXCEPT !.rows = @ \ {e}, !.quiet = @ \cup {e}]
            /\ UNCHANGED job
       ELSE /\ job' = [job EXCEPT ![Patrol] =
                 [Idle EXCEPT !.pc = "select", !.kind = "lasting", !.ev = e,
                              !.hushed = IF ok THEN sweep.hushed ELSE {}]]
            /\ UNCHANGED sweep
    /\ UNCHANGED <<now, events, silences, channels, secs, throttle, admin,
                   calls, handed>>

\* UPDATE last_notified_at, whose failure nobody sees; the row may have been
\* resolved in the meantime.
SweepStamp(ok) ==
    /\ job[Patrol].pc = "stamp"
    /\ LET e == job[Patrol].ev IN
         /\ events' = IF ok THEN [events EXCEPT ![e].last = sweep.at] ELSE events
         /\ sweep' = [sweep EXCEPT !.rows = @ \ {e},
                        !.unstamped = IF ok THEN @ ELSE @ \cup {e}]
    /\ job' = [job EXCEPT ![Patrol] = Idle]
    /\ UNCHANGED <<now, silences, channels, secs, throttle, admin, calls, handed>>
-----------------------------------------------------------------------------
(* A notice on its way to the channels.                                    *)

\* push_and_notify: the panel is told whatever follows; the channels only
\* when no silence is in force.
CheckSilence(w, ok) ==
    /\ job[w].pc = "check"
    /\ job' = [job EXCEPT ![w] =
         IF ok /\ is_silenced(job[w].ev, now) THEN Idle
         ELSE [job[w] EXCEPT !.pc = "select", !.hushed = IF ok THEN @ ELSE {}]]
    /\ UNCHANGED <<now, events, silences, channels, secs, throttle, sweep,
                   admin, calls, handed>>

\* The end of notify_all: a worker is done, the patrol stamps the event.
Offered(p) == IF p = Patrol THEN [job[p] EXCEPT !.pc = "stamp", !.todo = {}] ELSE Idle

\* notify_all: the SELECT of the channels, none if it fails, and the reading
\* of the clock.  A channel that wants more severe alerts only is skipped.
SelectChannels(p, ok) ==
    /\ job[p].pc = "select"
    /\ LET fit == {c \in Live(channels) :
                     channels[c].min <= sev_rank(job[p].kind, job[p].ev)} IN
         job' = [job EXCEPT ![p] =
           IF ok /\ fit # {}
           THEN [@ EXCEPT !.pc = "offer", !.clock = now, !.todo = fit]
           ELSE Offered(p)]
    /\ UNCHANGED <<now, events, silences, channels, secs, throttle, sweep,
                   admin, calls, handed>>

\* The map with old entries dropped, when it has grown past its limit.
Pruned(t) ==
    IF Cardinality(DOMAIN throttle) > ThrottleLimit
    THEN Restrict(throttle, {k \in DOMAIN throttle : t - throttle[k] < KeepSecs})
    ELSE throttle

\* Was k sent less than the window before t?  A reading t older than the
\* send counts as now: saturating_sub on signed numbers is negative.
Recent(f, k, t) == k \in DOMAIN f /\ t - f[k] < Dedup

With(f, k, v) == [x \in DOMAIN f \cup {k} |-> IF x = k THEN v ELSE f[x]]

Sent(k, t) == [times |-> IF k \in DOMAIN handed THEN handed[k].times + 1 ELSE 1,
               last |-> t]

\* Variant with a fault: a skipped notice renews the window.
OfferRenewing(p, c) ==
    /\ job[p].pc = "offer"
    /\ c \in job[p].todo
    /\ LET k == <<c, Text(job[p].kind, job[p].ev)>>
           t == job[p].clock
           send == ~Recent(Pruned(t), k, t) IN
         /\ throttle' = With(Pruned(t), k, t)
         /\ handed' = IF send THEN With(handed, k, Sent(k, t)) ELSE handed
    /\ job' = [job EXCEPT ![p] =
         IF job[p].todo = {c} THEN Offered(p)
         ELSE [job[p] EXCEPT !.todo = @ \ {c}]]
    /\ UNCHANGED <<now, events, silences, channels, secs, sweep, admin, calls>>

\* One channel: under the lock the map is pruned, asked and charged; the
\* send is spawned after the charge, and the charge stays if it fails.
Offer(p, c) ==
    /\ job[p].pc = "offer"
    /\ c \in job[p].todo
    /\ LET k == <<c, Text(job[p].kind, job[p].ev)>>
           t == job[p].clock
           send == ~Recent(Pruned(t), k, t) IN
         /\ throttle' = IF send THEN With(Pruned(t), k, t) ELSE Pruned(t)
         /\ handed' = IF send THEN With(handed, k, Sent(k, t)) ELSE handed
    /\ job' = [job EXCEPT ![p] =
         IF job[p].todo = {c} THEN Offered(p)
         ELSE [job[p] EXCEPT !.todo = @ \ {c}]]
    /\ UNCHANGED <<now, events, silences, channels, secs, sweep, admin, calls>>
-----------------------------------------------------------------------------
(* The administrator.  A creation counts the rows, then inserts.           *)

Asks(request) ==
    /\ admin = NoRequest
    /\ calls < MaxCalls
    /\ calls' = calls + 1
    /\ admin' = request
    /\ UNCHANGED <<now, events, silences, channels, secs, throttle, job,
                   sweep, handed>>

\* create_channel and create_silence: validation and the COUNT.  Silences
\* that are over still count: nothing deletes them but delete_silence.
CountChannels(min) ==
    /\ Cardinality(Live(channels)) < MaxChannels
    /\ Asks([NoRequest EXCEPT !.op = "channel", !.min = min])

CountSilences(r, n, d) ==
    /\ Cardinality(Live(silences)) < MaxSilences
    /\ Asks([op |-> "silence", min |-> 0, rule |-> r, node |-> n, secs |-> d])

\* The INSERTs; a silence begins when it is inserted.  A handler may also be
\* dropped here, with its client gone or its statement failed.
InsertChannel(c) ==
    /\ admin.op = "channel"
    /\ channels[c].status = "new"
    /\ channels' = [channels EXCEPT ![c] = [status |-> "live", min |-> admin.min]]
    /\ admin' = NoRequest
    /\ UNCHANGED <<now, events, silences, secs, throttle, job, sweep, calls, handed>>

InsertSilence(i) ==
    /\ admin.op = "silence"
    /\ silences[i].status = "new"
    /\ silences' = [silences EXCEPT ![i] =
         [status |-> "live", rule |-> admin.rule, node |-> admin.node,
          start |-> now, end |-> now + admin.secs]]
    /\ admin' = NoRequest
    /\ UNCHANGED <<now, events, channels, secs, throttle, job, sweep, calls, handed>>

Drop ==
    /\ admin # NoRequest
    /\ admin' = NoRequest
    /\ UNCHANGED <<now, events, silences, channels, secs, throttle, job,
                   sweep, calls, handed>>

DeleteChannel(c) ==
    /\ calls < MaxCalls
    /\ c \in Live(channels)
    /\ calls' = calls + 1
    /\ channels' = [channels EXCEPT ![c].status = "gone"]
    /\ UNCHANGED <<now, events, silences, secs, throttle, job, sweep, admin, handed>>

DeleteSilence(i) ==
    /\ calls < MaxCalls
    /\ i \in Live(silences)
    /\ calls' = calls + 1
    /\ silences' = [silences EXCEPT ![i].status = "gone"]
    /\ UNCHANGED <<now, events, channels, secs, throttle, job, sweep, admin, handed>>

set_renotify(s) ==
    /\ calls < MaxCalls
    /\ s # secs
    /\ calls' = calls + 1
    /\ secs' = s
    /\ UNCHANGED <<now, events, silences, channels, throttle, job, sweep,
                   admin, handed>>
-----------------------------------------------------------------------------
(* Time, and a restart.                                                    *)

Tick ==
    /\ now < MaxTime
    /\ \A p \in DOMAIN job : job[p].pc = "offer" => now < job[p].clock + MaxLag
    /\ now' = now + 1
    /\ UNCHANGED <<events, silences, channels, secs, throttle, job, sweep,
                   admin, calls, handed>>

\* Memory is gone.  reconcile_on_startup closes the open events, or fails to.
Restart(ok) ==
    /\ calls < MaxCalls
    /\ calls' = calls + 1
    /\ events' = IF ok
                 THEN [e \in DOMAIN events |-> [events[e] EXCEPT !.status = "resolved"]]
                 ELSE events
    /\ throttle' = <<>> /\ handed' = <<>>
    /\ job' = [p \in DOMAIN job |-> Idle]
    /\ sweep' = NoSweep
    /\ admin' = NoRequest
    /\ UNCHANGED <<now, silences, channels, secs>>

Next ==
    \/ \E w \in Workers :
         \/ \E r \in Rules, n \in Nodes : Raise(w, r, n)
         \/ \E e \in Open : Resolve(w, e)
         \/ Login(w)
         \/ \E ok \in BOOLEAN : CheckSilence(w, ok)
    \/ \E rows \in SUBSET Open : SweepBegins(rows)
    \/ \E e \in sweep.rows, ok \in BOOLEAN : SweepRow(e, ok)
    \/ \E ok \in BOOLEAN : SweepStamp(ok) \/ Restart(ok)
    \/ \E p \in DOMAIN job : \/ \E ok \in BOOLEAN : SelectChannels(p, ok)
                             \/ \E c \in job[p].todo : Offer(p, c)
    \/ \E min \in 0..2 : CountChannels(min)
    \/ \E r \in Rules \cup {None}, n \in Nodes \cup {None}, d \in Durations :
         CountSilences(r, n, d)
    \/ \E c \in Channels : InsertChannel(c) \/ DeleteChannel(c)
    \/ \E i \in SilenceIds : InsertSilence(i) \/ DeleteSilence(i)
    \/ \E s \in Intervals \cup {0} : set_renotify(s)
    \/ Drop
    \/ Tick

Spec == Init /\ [][Next]_vars
-----------------------------------------------------------------------------
(* Properties.                                                             *)

\* alerts.rs:606: a channel gets the same text once in NOTIFY_DEDUP_SECS,
\* however the tasks that offer it overlap and whenever the map is pruned;
\* and nothing is held back that was not sent within that time.
ThrottleExact ==
    [][\A p \in DOMAIN job : \A c \in job[p].todo \ job'[p].todo :
         LET k == <<c, Text(job[p].kind, job[p].ev)>> IN
         calls' = calls =>
            (handed' = handed <=>
               k \in DOMAIN handed /\ job[p].clock - handed[k].last < Dedup)]_vars

\* A silence that was in force when the evaluator or the sweep took a notice
\* up, and still is, keeps it from every channel.
SilenceRespected ==
    \A p \in DOMAIN job :
        job[p].pc \in {"select", "offer"} /\ job[p].kind # "login" =>
            \A i \in job[p].hushed :
                Active(silences[i], now) => ~Covers(silences[i], job[p].ev)

\* After a sweep that read all that was due, an event that is still due was
\* silenced, or its stamp failed.  (The LIMIT takes rows in no order and a
\* silenced row is never stamped: 200 of them can keep others waiting.)
DueReminded ==
    job[Patrol] = Idle /\ sweep.rows = {} /\ sweep.whole =>
        \A e \in Open : events[e].last <= sweep.at - sweep.secs =>
            e \in sweep.quiet \cup sweep.unstamped
=============================================================================
