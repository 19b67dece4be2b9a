---------------------------- MODULE NotifyProofs ----------------------------
(***************************************************************************)
(* The three promises of Notify, for every number of workers, channels,    *)
(* silences and events, every severity and every length of the windows.    *)
(* Each has an invariant of its own:                                       *)
(*                                                                         *)
(*   SilenceInv   A silence in force when a notice was taken up is in      *)
(*                force at the check if it is in force later, since it is  *)
(*                changed only by its end; and what a notice and a silence *)
(*                are about never changes.                                 *)
(*   SweepInv     A stamp is later than what was due when its sweep began. *)
(*   ThrottleInv  What has been pruned is older than a reading of the      *)
(*                clock and a window together (NotifyAssumption).          *)
(***************************************************************************)
EXTENDS Notify, SequenceTheorems, TLAPS

Procs == Workers \cup {Patrol}

\* What is known of a task's notice n: if it is of an alert, the event is in
\* the table; the silences that were in force when it was taken up had begun
\* then; and beyond the check, those that still are in force do not cover it.
KeptFor(n) ==
    /\ n.pc # "idle" /\ n.kind # "login" => n.ev \in DOMAIN events
    /\ \A i \in n.hushed : silences[i].status # "new" /\ silences[i].start <= now
    /\ n.pc \in {"select", "offer"} /\ n.kind # "login" =>
          \A i \in n.hushed : Active(silences[i], now) => ~Covers(silences[i], n.ev)

\* The same of the sweep and its rows.
KeptForSweep ==
    /\ sweep.rows \subseteq DOMAIN events
    /\ \A i \in sweep.hushed :
          silences[i].status # "new" /\ silences[i].start <= sweep.at
    /\ sweep.at <= now

SilenceInv == (\A p \in Procs : KeptFor(job[p])) /\ KeptForSweep

\* A sweep that read all that was due has yet to reach, or has dealt with, each
\* event that still is.
DueAccounted ==
    sweep.whole =>
        /\ sweep.secs > 0
        /\ \A e \in Open : events[e].last <= sweep.at - sweep.secs =>
              e \in sweep.rows \cup sweep.quiet \cup sweep.unstamped

SweepInv == sweep.at <= now /\ DueAccounted

\* A task holds channels only while it offers, and by a recent reading of the
\* clock.
OfferFresh ==
    \A p \in Procs :
        /\ job[p].pc # "offer" => job[p].todo = {}
        /\ job[p].pc = "offer" => job[p].clock <= now /\ now <= job[p].clock + MaxLag

\* The throttle knows when each text was sent, or that was long ago.
ThrottleKnows ==
    /\ \A k \in DOMAIN throttle : k \in DOMAIN handed /\ throttle[k] = handed[k].last
    /\ \A k \in DOMAIN handed : k \notin DOMAIN throttle => now - handed[k].last >= KeepSecs

ThrottleInv == OfferFresh /\ ThrottleKnows

-----------------------------------------------------------------------------
(* The table of events.                                                    *)

\* A sequence of events is a table with numbered rows.
LEMMA EventRows ==
    ASSUME events \in Seq(Event)
    PROVE  /\ Len(events) \in Nat /\ DOMAIN events = 1..Len(events)
           /\ \A e \in DOMAIN events : events[e] \in Event /\ e \in Nat
<1>1. Len(events) \in Nat /\ DOMAIN events = 1..Len(events)
    BY LenProperties
<1>2. \A e \in 1..Len(events) : events[e] \in Event
    BY ElementOfSeq
<1> QED
    BY <1>1, <1>2

\* A row is changed in place.
LEMMA RowChanged ==
    ASSUME events \in Seq(Event), NEW e \in DOMAIN events, NEW row \in Event,
           events' = [events EXCEPT ![e] = row]
    PROVE  /\ events' \in Seq(Event) /\ DOMAIN events' = DOMAIN events
           /\ events'[e] = row
           /\ \A f \in DOMAIN events : f # e => events'[f] = events[f]
<1>1. e \in 1..Len(events)
    BY EventRows
<1> QED
    BY <1>1, ExceptSeq, EventRows

\* A row is added.
LEMMA RowAdded ==
    ASSUME events \in Seq(Event), NEW row \in Event, events' = Append(events, row)
    PROVE  /\ events' \in Seq(Event)
           /\ DOMAIN events' = DOMAIN events \cup {Len(events) + 1}
           /\ Len(events) + 1 \notin DOMAIN events
           /\ events'[Len(events) + 1] = row
           /\ \A f \in DOMAIN events : events'[f] = events[f]
<1>1. /\ events' \in Seq(Event) /\ Len(events') = Len(events) + 1
      /\ events'[Len(events) + 1] = row
      /\ \A f \in 1..Len(events) : events'[f] = events[f]
    BY AppendProperties
<1> QED
    BY <1>1, LenProperties

\* All are resolved.
LEMMA RowsResolved ==
    ASSUME events \in Seq(Event),
           events' = [e \in DOMAIN events |-> [events[e] EXCEPT !.status = "resolved"]]
    PROVE  /\ events' \in Seq(Event) /\ DOMAIN events' = DOMAIN events
           /\ \A e \in DOMAIN events : events'[e] = [events[e] EXCEPT !.status = "resolved"]
<1>1. \A e \in DOMAIN events : [events[e] EXCEPT !.status = "resolved"] \in Event
    BY EventRows DEF Event
<1>2. events' \in [1..Len(events) -> Event] /\ Len(events) \in Nat
    BY <1>1, EventRows
<1> QED
    BY <1>2, SeqDef

-----------------------------------------------------------------------------
(* Types.                                                                  *)

\* Silences are picked among those there are.
LEMMA InForceType == InForce \in SUBSET SilenceIds
BY DEF InForce

\* A task that takes a notice up, or moves on, is a task.
LEMMA TakesTypes ==
    ASSUME TypeOK, NEW p \in Procs, NEW kind \in {"login", "raised", "resolved"}, NEW e \in Nat,
           Takes(p, kind, e)
    PROVE  /\ job' \in [Procs -> Notice]
           /\ job'[p].pc = IF kind = "login" THEN "select" ELSE "check"
           /\ job'[p].kind = kind /\ job'[p].ev = e /\ job'[p].hushed = InForce
           /\ job'[p].todo = {}
           /\ \A q \in Procs : q # p => job'[q] = job[q]
BY InForceType DEF Takes, TypeOK, Procs, Notice, Idle

\* The end of notify_all leaves the patrol to stamp, and a worker idle.
LEMMA OfferedTypes ==
    ASSUME TypeOK, NEW p \in Procs
    PROVE  /\ Offered(p) \in Notice /\ Offered(p).pc \in {"idle", "stamp"} /\ Offered(p).todo = {}
           /\ Offered(p).pc = "stamp" => p = Patrol
           /\ \/ Offered(p) = Idle
              \/ /\ Offered(p).pc = "stamp" /\ Offered(p).kind = job[p].kind
                 /\ Offered(p).ev = job[p].ev /\ Offered(p).hushed = job[p].hushed
<1>1. job[p] \in Notice
    BY DEF TypeOK, Procs
<1>2. Idle \in Notice /\ Idle.pc = "idle" /\ Idle.todo = {}
    BY DEF Idle, Notice
<1>3. CASE p = Patrol
    BY <1>1, <1>3 DEF Offered, Notice
<1>4. CASE p # Patrol
    BY <1>2, <1>4 DEF Offered
<1> QED
    BY <1>3, <1>4

\* What is left of the throttle when it is pruned, and when it is charged.
LEMMA PrunedTypes ==
    ASSUME TypeOK, NEW t \in Nat
    PROVE  /\ Pruned(t) \in [DOMAIN Pruned(t) -> Nat]
           /\ DOMAIN Pruned(t) \subseteq DOMAIN throttle
           /\ \A k \in DOMAIN Pruned(t) : Pruned(t)[k] = throttle[k]
           /\ \A k \in DOMAIN throttle \ DOMAIN Pruned(t) : t - throttle[k] >= KeepSecs
<1> DEFINE young == {k \in DOMAIN throttle : t - throttle[k] < KeepSecs}
<1>1. \A k \in DOMAIN throttle : throttle[k] \in Nat
    BY DEF TypeOK
<1>2. CASE Cardinality(DOMAIN throttle) > ThrottleLimit
    <2>1. Pruned(t) = [k \in young |-> throttle[k]]
        BY <1>2 DEF Pruned, Restrict
    <2>2. \A k \in DOMAIN throttle \ young : t - throttle[k] >= KeepSecs
        BY <1>1, NotifyAssumption
    <2> HIDE DEF young
    <2>3. young \subseteq DOMAIN throttle
        BY DEF young
    <2> QED
        BY <1>1, <2>1, <2>2, <2>3
<1>3. CASE ~(Cardinality(DOMAIN throttle) > ThrottleLimit)
    BY <1>3 DEF Pruned, TypeOK
<1> QED
    BY <1>2, <1>3

LEMMA WithTypes ==
    ASSUME NEW S, NEW f, f \in [DOMAIN f -> S], NEW k, NEW v \in S
    PROVE  With(f, k, v) \in [DOMAIN With(f, k, v) -> S]
BY DEF With

\* The sweep's stamp, or any change of a row's status or time.
LEMMA RowUpdated ==
    ASSUME events \in Seq(Event), NEW e,
           \/ \E t \in Nat : events' = [events EXCEPT ![e].last = t]
           \/ events' = [events EXCEPT ![e].status = "resolved"]
    PROVE  /\ events' \in Seq(Event) /\ DOMAIN events' = DOMAIN events
           /\ \A f \in DOMAIN events :
                 /\ events'[f].rule = events[f].rule /\ events'[f].node = events[f].node
                 /\ f # e => events'[f] = events[f]
<1>1. CASE e \in DOMAIN events
    <2>1. PICK row \in Event : /\ events' = [events EXCEPT ![e] = row]
                               /\ row.rule = events[e].rule /\ row.node = events[e].node
        <3>1. events[e] \in Event
            BY <1>1, EventRows
        <3>2. CASE \E t \in Nat : events' = [events EXCEPT ![e].last = t]
            <4>1. PICK t \in Nat : events' = [events EXCEPT ![e].last = t]
                BY <3>2
            <4>2. [events[e] EXCEPT !.last = t] \in Event
                BY <3>1 DEF Event
            <4> QED
                BY <1>1, <3>1, <4>1, <4>2 DEF Event
        <3>3. CASE events' = [events EXCEPT ![e].status = "resolved"]
            <4>1. [events[e] EXCEPT !.status = "resolved"] \in Event
                BY <3>1 DEF Event
            <4> QED
                BY <1>1, <3>1, <3>3, <4>1 DEF Event
        <3> QED
            BY <3>2, <3>3
    <2> QED
        BY <1>1, <2>1, RowChanged
<1>2. CASE e \notin DOMAIN events
    <2>1. events = [f \in 1..Len(events) |-> events[f]]
        BY EventRows, LenProperties
    <2>2. events' = events
        BY <1>2, <2>1
    <2> QED
        BY <2>2
<1> QED
    BY <1>1, <1>2

LEMMA IdleTyped == Idle \in Notice /\ Idle.pc = "idle" /\ Idle.todo = {} /\ Idle.hushed = {}
BY DEF Idle, Notice

\* What the check for a silence leaves of a task.
LEMMA CheckMoves ==
    ASSUME TypeOK, NEW w \in Workers, NEW ok \in BOOLEAN, CheckSilence(w, ok)
    PROVE  /\ job' \in [Procs -> Notice]
           /\ \A q \in Procs : q # w => job'[q] = job[q]
           /\ \/ job'[w] = Idle
              \/ /\ ~(ok /\ is_silenced(job[w].ev, now))
                 /\ job'[w].pc = "select" /\ job'[w].kind = job[w].kind
                 /\ job'[w].ev = job[w].ev /\ job'[w].todo = job[w].todo
                 /\ job'[w].hushed = IF ok THEN job[w].hushed ELSE {}
<1> DEFINE quiet == ok /\ is_silenced(job[w].ev, now)
           next == IF quiet THEN Idle
                   ELSE [job[w] EXCEPT !.pc = "select",
                                       !.hushed = IF ok THEN job[w].hushed ELSE {}]
<1>1. w \in Procs /\ job \in [Procs -> Notice]
    BY DEF Procs, TypeOK
<1>2. job' = [job EXCEPT ![w] = next]
    BY DEF CheckSilence
<1>3. job[w] \in Notice
    BY <1>1
<1>4. next \in Notice
    <2>1. [job[w] EXCEPT !.pc = "select", !.hushed = IF ok THEN job[w].hushed ELSE {}] \in Notice
        BY <1>3 DEF Notice
    <2> QED
        BY <2>1, IdleTyped
<1>5. \/ next = Idle
      \/ /\ ~quiet
         /\ next.pc = "select" /\ next.kind = job[w].kind
         /\ next.ev = job[w].ev /\ next.todo = job[w].todo
         /\ next.hushed = IF ok THEN job[w].hushed ELSE {}
    BY <1>3 DEF Notice
<1>6. job' \in [Procs -> Notice] /\ job'[w] = next /\ \A q \in Procs : q # w => job'[q] = job[q]
    <2> HIDE DEF next
    <2> QED
        BY <1>1, <1>2, <1>4
<1> HIDE DEF next
<1> QED
    BY <1>5, <1>6

\* What the SELECT of the channels leaves of a task.
LEMMA SelectMoves ==
    ASSUME TypeOK, NEW p \in Procs, NEW ok \in BOOLEAN, SelectChannels(p, ok)
    PROVE  /\ job' \in [Procs -> Notice]
           /\ \A q \in Procs : q # p => job'[q] = job[q]
           /\ \/ job'[p] = Offered(p)
              \/ /\ job'[p].pc = "offer" /\ job'[p].clock = now /\ job'[p].kind = job[p].kind
                 /\ job'[p].ev = job[p].ev /\ job'[p].hushed = job[p].hushed
<1> DEFINE fit == {c \in Live(channels) : channels[c].min <= sev_rank(job[p].kind, job[p].ev)}
           next == IF ok /\ fit # {}
                   THEN [job[p] EXCEPT !.pc = "offer", !.clock = now, !.todo = fit]
                   ELSE Offered(p)
<1>1. job \in [Procs -> Notice] /\ job[p] \in Notice /\ now \in Nat
    BY DEF Procs, TypeOK
<1>2. job' = [job EXCEPT ![p] = next]
    BY DEF SelectChannels
<1>3. fit \in SUBSET Channels
    BY DEF Live, TypeOK
<1> HIDE DEF fit
<1>4. next \in Notice
    <2>1. [job[p] EXCEPT !.pc = "offer", !.clock = now, !.todo = fit] \in Notice
        BY <1>1, <1>3 DEF Notice
    <2> QED
        BY <2>1, OfferedTypes
<1>5. \/ next = Offered(p)
      \/ /\ next.pc = "offer" /\ next.clock = now /\ next.kind = job[p].kind
         /\ next.ev = job[p].ev /\ next.hushed = job[p].hushed
    BY <1>1 DEF Notice
<1> HIDE DEF next
<1>6. job' \in [Procs -> Notice] /\ job'[p] = next /\ \A q \in Procs : q # p => job'[q] = job[q]
    BY <1>1, <1>2, <1>4
<1> QED
    BY <1>5, <1>6

\* What the turn of a channel leaves of a task.
LEMMA OfferMoves ==
    ASSUME TypeOK, NEW p \in Procs, NEW c \in job[p].todo, Offer(p, c)
    PROVE  /\ job' \in [Procs -> Notice]
           /\ \A q \in Procs : q # p => job'[q] = job[q]
           /\ job'[p].todo = job[p].todo \ {c}
           /\ \/ job'[p] = Offered(p)
              \/ /\ job'[p].pc = "offer" /\ job'[p].clock = job[p].clock
                 /\ job'[p].kind = job[p].kind /\ job'[p].ev = job[p].ev
                 /\ job'[p].hushed = job[p].hushed
<1> DEFINE next == IF job[p].todo = {c} THEN Offered(p)
                   ELSE [job[p] EXCEPT !.todo = job[p].todo \ {c}]
<1>1. job \in [Procs -> Notice] /\ job[p] \in Notice /\ job[p].pc = "offer"
    BY DEF Procs, TypeOK, Offer
<1>2. job' = [job EXCEPT ![p] = next]
    BY DEF Offer
<1>3. next \in Notice
    <2>1. [job[p] EXCEPT !.todo = job[p].todo \ {c}] \in Notice
        BY <1>1 DEF Notice
    <2> QED
        BY <2>1, OfferedTypes
<1>4. /\ next.todo = job[p].todo \ {c}
      /\ \/ next = Offered(p)
         \/ /\ next.pc = "offer" /\ next.clock = job[p].clock
            /\ next.kind = job[p].kind /\ next.ev = job[p].ev
            /\ next.hushed = job[p].hushed
    BY <1>1, OfferedTypes DEF Notice
<1> HIDE DEF next
<1>5. job' \in [Procs -> Notice] /\ job'[p] = next /\ \A q \in Procs : q # p => job'[q] = job[q]
    BY <1>1, <1>2, <1>3
<1> QED
    BY <1>4, <1>5

LEMMA NoRequestTyped == NoRequest \in Request
BY DEF NoRequest, Request

\* Types are kept by every step.
LEMMA TypeStep == TypeOK /\ [Next]_vars => TypeOK'
<1> SUFFICES ASSUME TypeOK, [Next]_vars PROVE TypeOK'
    OBVIOUS
<1>0. events \in Seq(Event) /\ job \in [Procs -> Notice] /\ now \in Nat
    BY DEF TypeOK, Procs
<1>1. ASSUME NEW w \in Workers, NEW r \in Rules, NEW n \in Nodes, Raise(w, r, n) PROVE TypeOK'
    <2> DEFINE row == [status |-> "open", rule |-> r, node |-> n, last |-> now]
    <2>1. row \in Event
        BY <1>0 DEF Event
    <2>2. events' = Append(events, row)
        BY <1>1 DEF Raise
    <2> HIDE DEF row
    <2>3. events' \in Seq(Event)
        BY <1>0, <2>1, <2>2, RowAdded
    <2>4. Len(events) + 1 \in Nat
        BY <1>0, EventRows
    <2>5. job' \in [Procs -> Notice]
        BY <1>1, <2>4, TakesTypes DEF Raise, Procs
    <2> QED
        BY <1>1, <2>3, <2>5 DEF Raise, TypeOK, Procs
<1>2. ASSUME NEW w \in Workers, NEW e \in Open, Resolve(w, e) PROVE TypeOK'
    <2>1. events' \in Seq(Event)
        BY <1>0, <1>2, RowUpdated DEF Resolve
    <2>2. e \in Nat
        BY <1>0, EventRows DEF Open
    <2>3. job' \in [Procs -> Notice]
        BY <1>2, <2>2, TakesTypes DEF Resolve, Procs
    <2> QED
        BY <1>2, <2>1, <2>3 DEF Resolve, TypeOK, Procs
<1>3. ASSUME NEW w \in Workers, Login(w) PROVE TypeOK'
    <2>1. job' \in [Procs -> Notice]
        BY <1>3, TakesTypes DEF Login, Procs
    <2> QED
        BY <1>3, <2>1 DEF Login, TypeOK, Procs
<1>4. ASSUME NEW rows \in SUBSET Open, SweepBegins(rows) PROVE TypeOK'
    <2>1. rows \in SUBSET Nat /\ InForce \in SUBSET SilenceIds
        BY <1>0, EventRows, InForceType DEF Open
    <2>2. \E whole \in BOOLEAN :
             sweep' = [at |-> now, secs |-> secs, rows |-> rows, hushed |-> InForce,
                       whole |-> whole, quiet |-> {}, unstamped |-> {}]
        BY <1>4 DEF SweepBegins
    <2>3. sweep' \in Sweep
        BY <1>0, <1>4, <2>1, <2>2, NotifyAssumption DEF SweepBegins, TypeOK, Sweep
    <2> QED
        BY <1>4, <2>3 DEF SweepBegins, TypeOK
<1>5. ASSUME NEW e \in sweep.rows, NEW ok \in BOOLEAN, SweepRow(e, ok) PROVE TypeOK'
    <2>1. e \in Nat /\ sweep.hushed \in SUBSET SilenceIds /\ sweep \in Sweep
        BY DEF TypeOK, Sweep
    <2>2. CASE ok /\ is_silenced(e, sweep.at)
        <3>1. sweep' = [sweep EXCEPT !.rows = sweep.rows \ {e}, !.quiet = sweep.quiet \cup {e}]
            BY <1>5, <2>1, <2>2 DEF SweepRow
        <3>2. sweep' \in Sweep
            BY <2>1, <3>1 DEF Sweep
        <3> QED
            BY <1>5, <2>2, <3>2 DEF SweepRow, TypeOK
    <2>3. CASE ~(ok /\ is_silenced(e, sweep.at))
        <3>1. job' = [job EXCEPT ![Patrol] =
                  [Idle EXCEPT !.pc = "select", !.kind = "lasting", !.ev = e,
                               !.hushed = IF ok THEN sweep.hushed ELSE {}]]
            BY <1>5, <2>3 DEF SweepRow
        <3>2. [Idle EXCEPT !.pc = "select", !.kind = "lasting", !.ev = e,
                           !.hushed = IF ok THEN sweep.hushed ELSE {}] \in Notice
            BY <2>1 DEF Idle, Notice
        <3>3. job' \in [Procs -> Notice]
            BY <1>0, <3>1, <3>2
        <3> QED
            BY <1>5, <2>3, <3>3 DEF SweepRow, TypeOK, Procs
    <2> QED
        BY <2>2, <2>3
<1>6. ASSUME NEW ok \in BOOLEAN, SweepStamp(ok) PROVE TypeOK'
    <2>1. events' \in Seq(Event)
        <3>1. sweep.at \in Nat
            BY DEF TypeOK, Sweep
        <3> QED
            BY <1>0, <1>6, <3>1, RowUpdated DEF SweepStamp
    <2>2. job' \in [Procs -> Notice]
        BY <1>0, <1>6, IdleTyped DEF SweepStamp
    <2>3. job[Patrol].ev \in Nat
        BY <1>0 DEF Procs, Notice
    <2>4. sweep' \in Sweep
        BY <1>6, <2>3 DEF SweepStamp, TypeOK, Sweep
    <2> QED
        BY <1>6, <2>1, <2>2, <2>4 DEF SweepStamp, TypeOK, Procs
<1>7. ASSUME NEW w \in Workers, NEW ok \in BOOLEAN, CheckSilence(w, ok) PROVE TypeOK'
    <2>1. job' \in [Procs -> Notice]
        BY <1>7, CheckMoves
    <2> QED
        BY <1>7, <2>1 DEF CheckSilence, TypeOK, Procs
<1>8. ASSUME NEW p \in Procs, NEW ok \in BOOLEAN, SelectChannels(p, ok) PROVE TypeOK'
    <2>3. job' \in [Procs -> Notice]
        BY <1>8, SelectMoves
    <2> QED
        BY <1>8, <2>3 DEF SelectChannels, TypeOK, Procs
<1>9. ASSUME NEW p \in Procs, NEW c \in job[p].todo, Offer(p, c) PROVE TypeOK'
    <2> DEFINE k == <<c, Text(job[p].kind, job[p].ev)>>
               t == job[p].clock
               send == ~Recent(Pruned(t), k, t)
    <2>1. t \in Nat
        BY <1>0 DEF Notice
    <2>2. /\ throttle' = IF send THEN With(Pruned(t), k, t) ELSE Pruned(t)
          /\ handed' = IF send THEN With(handed, k, Sent(k, t)) ELSE handed
        BY <1>9 DEF Offer
    <2>3. Sent(k, t) \in Charge
        BY <2>1 DEF Sent, TypeOK, Charge
    <2>4. job' \in [Procs -> Notice]
        BY <1>9, OfferMoves
    <2> HIDE DEF k, t, send
    <2>5. throttle' \in [DOMAIN throttle' -> Nat]
        BY <2>1, <2>2, PrunedTypes, WithTypes
    <2>6. handed' \in [DOMAIN handed' -> Charge]
        <3>1. handed \in [DOMAIN handed -> Charge]
            BY DEF TypeOK
        <3> QED
            BY <2>2, <2>3, <3>1, WithTypes
    <2> QED
        BY <1>9, <2>4, <2>5, <2>6 DEF Offer, TypeOK, Procs
<1>10. ASSUME NEW min \in 0..2, CountChannels(min) PROVE TypeOK'
    <2>1. admin' \in Request
        BY <1>10 DEF CountChannels, Asks, NoRequest, Request
    <2> QED
        BY <1>10, <2>1 DEF CountChannels, Asks, TypeOK
<1>11. ASSUME NEW r \in Rules \cup {None}, NEW n \in Nodes \cup {None}, NEW d \in Durations,
              CountSilences(r, n, d)
       PROVE  TypeOK'
    <2>1. admin' \in Request
        BY <1>11, NotifyAssumption DEF CountSilences, Asks, Request
    <2> QED
        BY <1>11, <2>1 DEF CountSilences, Asks, TypeOK
<1>12. ASSUME NEW c \in Channels, InsertChannel(c) PROVE TypeOK'
    <2>1. [status |-> "live", min |-> admin.min] \in Channel
        BY DEF TypeOK, Request, Channel
    <2> QED
        BY <1>12, <2>1, NoRequestTyped DEF InsertChannel, TypeOK
<1>13. ASSUME NEW c \in Channels, DeleteChannel(c) PROVE TypeOK'
    <2>1. [channels[c] EXCEPT !.status = "gone"] \in Channel
        <3>1. channels[c] \in Channel
            BY DEF TypeOK
        <3> QED
            BY <3>1 DEF Channel
    <2> QED
        BY <1>13, <2>1 DEF DeleteChannel, TypeOK
<1>14. ASSUME NEW i \in SilenceIds, InsertSilence(i) PROVE TypeOK'
    <2>1. [status |-> "live", rule |-> admin.rule, node |-> admin.node,
           start |-> now, end |-> now + admin.secs] \in Silence
        BY DEF TypeOK, Request, Silence
    <2> QED
        BY <1>14, <2>1, NoRequestTyped DEF InsertSilence, TypeOK
<1>15. ASSUME NEW i \in SilenceIds, DeleteSilence(i) PROVE TypeOK'
    <2>1. [silences[i] EXCEPT !.status = "gone"] \in Silence
        <3>1. silences[i] \in Silence
            BY DEF TypeOK
        <3> QED
            BY <3>1 DEF Silence
    <2> QED
        BY <1>15, <2>1 DEF DeleteSilence, TypeOK
<1>16. ASSUME NEW s \in Intervals \cup {0}, set_renotify(s) PROVE TypeOK'
    BY <1>16 DEF set_renotify, TypeOK
<1>17. ASSUME NEW ok \in BOOLEAN, Restart(ok) PROVE TypeOK'
    <2>1. events' \in Seq(Event)
        BY <1>0, <1>17, RowsResolved DEF Restart
    <2>2. job' \in [Procs -> Notice]
        BY <1>0, <1>17, IdleTyped DEF Restart
    <2>3. NoSweep \in Sweep
        BY DEF NoSweep, Sweep
    <2>4. throttle' = <<>> /\ handed' = <<>> /\ DOMAIN <<>> = {}
        BY <1>17 DEF Restart
    <2> QED
        BY <1>17, <2>1, <2>2, <2>3, <2>4, NoRequestTyped DEF Restart, TypeOK, Procs
<1>18. CASE Drop
    BY <1>18, NoRequestTyped DEF Drop, TypeOK
<1>19. CASE Tick \/ UNCHANGED vars
    BY <1>19 DEF Tick, vars, TypeOK
<1> QED
    BY <1>0, <1>1, <1>2, <1>3, <1>4, <1>5, <1>6, <1>7, <1>8, <1>9, <1>10, <1>11, <1>12,
       <1>13, <1>14, <1>15, <1>16, <1>17, <1>18, <1>19 DEF Next, TypeOK, Procs

-----------------------------------------------------------------------------
(* What every step leaves as it was.                                       *)

\* What an event is about never changes, and no event leaves the table.
EventsKeep ==
    \A e \in DOMAIN events :
        /\ e \in DOMAIN events'
        /\ events'[e].rule = events[e].rule /\ events'[e].node = events[e].node

\* A silence is changed once it is there only by its end.
SilencesKeep ==
    \A i \in SilenceIds : silences[i].status # "new" =>
        /\ silences'[i].status # "new"
        /\ silences'[i].status = "live" => silences[i].status = "live"
        /\ silences'[i].rule = silences[i].rule /\ silences'[i].node = silences[i].node
        /\ silences'[i].start = silences[i].start /\ silences'[i].end = silences[i].end

LEMMA StepKeeps == TypeOK /\ [Next]_vars => EventsKeep /\ SilencesKeep /\ now <= now'
<1> SUFFICES ASSUME TypeOK, [Next]_vars PROVE EventsKeep /\ SilencesKeep /\ now <= now'
    OBVIOUS
<1>0. /\ events \in Seq(Event) /\ silences \in [SilenceIds -> Silence] /\ now \in Nat
    BY DEF TypeOK
<1>1. ASSUME NEW w \in Workers, NEW r \in Rules, NEW n \in Nodes, Raise(w, r, n)
      PROVE  EventsKeep /\ SilencesKeep /\ now <= now'
    <2> DEFINE row == [status |-> "open", rule |-> r, node |-> n, last |-> now]
    <2>1. row \in Event
        BY <1>0 DEF Event
    <2>2. events' = Append(events, row)
        BY <1>1 DEF Raise
    <2> HIDE DEF row
    <2>3. EventsKeep
        BY <1>0, <2>1, <2>2, RowAdded DEF EventsKeep
    <2> QED
        BY <1>0, <1>1, <2>3 DEF Raise, SilencesKeep
<1>2. ASSUME NEW w \in Workers, NEW e \in Open, Resolve(w, e)
      PROVE  EventsKeep /\ SilencesKeep /\ now <= now'
    BY <1>0, <1>2, RowUpdated DEF Resolve, EventsKeep, SilencesKeep
<1>3. ASSUME NEW ok \in BOOLEAN, SweepStamp(ok) PROVE EventsKeep /\ SilencesKeep /\ now <= now'
    <2>1. sweep.at \in Nat
        BY DEF TypeOK, Sweep
    <2>2. events' = events \/ events' = [events EXCEPT ![job[Patrol].ev].last = sweep.at]
        BY <1>3 DEF SweepStamp
    <2>3. EventsKeep
        BY <1>0, <2>1, <2>2, RowUpdated DEF EventsKeep
    <2> QED
        BY <1>0, <1>3, <2>3 DEF SweepStamp, SilencesKeep
<1>4. ASSUME NEW i \in SilenceIds, InsertSilence(i) \/ DeleteSilence(i)
      PROVE  EventsKeep /\ SilencesKeep /\ now <= now'
    <2>1. events' = events /\ now' = now
        BY <1>4 DEF InsertSilence, DeleteSilence
    <2>2. \A j \in SilenceIds : silences[j] \in Silence
        BY <1>0
    <2>3. SilencesKeep
        BY <1>0, <1>4, <2>2 DEF InsertSilence, DeleteSilence, SilencesKeep, Live, Silence
    <2> QED
        BY <1>0, <2>1, <2>3 DEF EventsKeep
<1>5. ASSUME NEW ok \in BOOLEAN, Restart(ok) PROVE EventsKeep /\ SilencesKeep /\ now <= now'
    <2>1. \A e \in DOMAIN events : events[e] \in Event
        BY <1>0, EventRows
    <2>2. EventsKeep
        BY <1>0, <1>5, <2>1, RowsResolved DEF Restart, EventsKeep, Event
    <2> QED
        BY <1>0, <1>5, <2>2 DEF Restart, SilencesKeep
<1>6. CASE Tick
    BY <1>0, <1>6 DEF Tick, EventsKeep, SilencesKeep
<1>7. CASE UNCHANGED <<events, silences, now>>
    BY <1>0, <1>7 DEF EventsKeep, SilencesKeep
<1>8. ASSUME NEW w \in Workers, NEW ok \in BOOLEAN, Login(w) \/ CheckSilence(w, ok)
      PROVE  UNCHANGED <<events, silences, now>>
    BY <1>8 DEF Login, CheckSilence
<1>9. ASSUME NEW rows, NEW e, NEW ok \in BOOLEAN, SweepBegins(rows) \/ SweepRow(e, ok)
      PROVE  UNCHANGED <<events, silences, now>>
    BY <1>9 DEF SweepBegins, SweepRow
<1>10. ASSUME NEW p \in Procs, NEW c, NEW ok \in BOOLEAN, SelectChannels(p, ok) \/ Offer(p, c)
       PROVE  UNCHANGED <<events, silences, now>>
    BY <1>10 DEF SelectChannels, Offer
<1>11. ASSUME NEW min, NEW r, NEW n, NEW d, CountChannels(min) \/ CountSilences(r, n, d)
       PROVE  UNCHANGED <<events, silences, now>>
    BY <1>11 DEF CountChannels, CountSilences, Asks
<1>12. ASSUME NEW c, NEW s, InsertChannel(c) \/ DeleteChannel(c) \/ set_renotify(s) \/ Drop
       PROVE  UNCHANGED <<events, silences, now>>
    BY <1>12 DEF InsertChannel, DeleteChannel, set_renotify, Drop
<1>13. DOMAIN job = Procs
    BY DEF TypeOK, Procs
<1> QED
    BY <1>1, <1>2, <1>3, <1>4, <1>5, <1>6, <1>7, <1>8, <1>9, <1>10, <1>11, <1>12, <1>13
       DEF Next, vars

-----------------------------------------------------------------------------
(* How a task's notice may change in a step, other than to Idle.           *)

\* It is taken up.
Taken(q) ==
    /\ UNCHANGED <<silences, now>>
    /\ job'[q].pc \in {"check", "select"} /\ job'[q].todo = {}
    /\ job'[q].pc = "select" => job'[q].kind = "login"
    /\ job'[q].kind # "login" => job'[q].ev \in DOMAIN events'
    /\ job'[q].hushed = InForce

\* It is checked, and found not to be silenced, or the query failed.
Checked(q) ==
    /\ UNCHANGED <<events, silences, now>>
    /\ job[q].pc = "check" /\ job'[q].pc = "select" /\ job'[q].todo = job[q].todo
    /\ job'[q].kind = job[q].kind /\ job'[q].ev = job[q].ev
    /\ \/ job'[q].hushed = {}
       \/ job'[q].hushed = job[q].hushed /\ ~is_silenced(job[q].ev, now)

\* It is a row of the sweep, found not to be silenced, or the query failed.
FromRow(q) ==
    /\ UNCHANGED <<events, silences, now>>
    /\ job'[q].pc = "select" /\ job'[q].kind = "lasting" /\ job'[q].todo = {}
    /\ job'[q].ev \in sweep.rows
    /\ \/ job'[q].hushed = {}
       \/ job'[q].hushed = sweep.hushed /\ ~is_silenced(job'[q].ev, sweep.at)

\* It is on its way to the channels, or past them.
MovesOn(q) ==
    /\ UNCHANGED <<events, silences, now>>
    /\ job[q].pc \in {"select", "offer"} /\ job'[q].pc \in {"offer", "stamp"}
    /\ job'[q].kind = job[q].kind /\ job'[q].ev = job[q].ev
    /\ job'[q].hushed = job[q].hushed
    /\ job'[q].pc = "stamp" => job'[q].todo = {}
    /\ job'[q].pc = "offer" =>
          job'[q].clock = IF job[q].pc = "offer" THEN job[q].clock ELSE now

LEMMA JobMoves ==
    ASSUME TypeOK, [Next]_vars, NEW q \in Procs
    PROVE  \/ job'[q] \in {job[q], Idle}
           \/ Taken(q) \/ Checked(q) \/ FromRow(q) \/ MovesOn(q)
<1> DEFINE Goal == \/ job'[q] \in {job[q], Idle}
                   \/ Taken(q) \/ Checked(q) \/ FromRow(q) \/ MovesOn(q)
<1>0. events \in Seq(Event) /\ job \in [Procs -> Notice]
    BY DEF TypeOK, Procs
<1>1. ASSUME NEW w \in Workers, NEW r \in Rules, NEW n \in Nodes, Raise(w, r, n) PROVE Goal
    <2> DEFINE row == [status |-> "open", rule |-> r, node |-> n, last |-> now]
    <2>1. row \in Event
        BY DEF Event, TypeOK
    <2>2. events' = Append(events, row)
        BY <1>1 DEF Raise
    <2> HIDE DEF row
    <2>3. Len(events) + 1 \in Nat /\ Len(events) + 1 \in DOMAIN events'
        BY <1>0, <2>1, <2>2, RowAdded, EventRows
    <2>4. Takes(w, "raised", Len(events) + 1) /\ UNCHANGED <<silences, now>> /\ w \in Procs
        BY <1>1 DEF Raise, Procs
    <2> QED
        BY <2>3, <2>4, TakesTypes DEF Taken
<1>2. ASSUME NEW w \in Workers, NEW e \in Open, Resolve(w, e) PROVE Goal
    <2>1. e \in Nat /\ e \in DOMAIN events'
        BY <1>0, <1>2, RowUpdated, EventRows DEF Resolve, Open
    <2>2. Takes(w, "resolved", e) /\ UNCHANGED <<silences, now>> /\ w \in Procs
        BY <1>2 DEF Resolve, Procs
    <2> QED
        BY <2>1, <2>2, TakesTypes DEF Taken
<1>3. ASSUME NEW w \in Workers, Login(w) PROVE Goal
    <2>1. Takes(w, "login", 0) /\ UNCHANGED <<silences, now>> /\ w \in Procs
        BY <1>3 DEF Login, Procs
    <2> QED
        BY <2>1, TakesTypes DEF Taken
<1>4. ASSUME NEW w \in Workers, NEW ok \in BOOLEAN, CheckSilence(w, ok) PROVE Goal
    <2>1. UNCHANGED <<events, silences, now>> /\ job[w].pc = "check"
        BY <1>4 DEF CheckSilence
    <2> QED
        BY <1>4, <2>1, CheckMoves DEF Checked
<1>5. ASSUME NEW e \in sweep.rows, NEW ok \in BOOLEAN, SweepRow(e, ok) PROVE Goal
    <2>1. UNCHANGED <<events, silences, now>> /\ Patrol \in Procs
        BY <1>5 DEF SweepRow, Procs
    <2>2. CASE ok /\ is_silenced(e, sweep.at)
        BY <1>5, <2>2 DEF SweepRow
    <2>3. CASE ~(ok /\ is_silenced(e, sweep.at))
        <3> DEFINE n == [Idle EXCEPT !.pc = "select", !.kind = "lasting", !.ev = e,
                                     !.hushed = IF ok THEN sweep.hushed ELSE {}]
        <3>1. job' = [job EXCEPT ![Patrol] = n]
            BY <1>5, <2>3 DEF SweepRow
        <3>2. /\ n.pc = "select" /\ n.kind = "lasting" /\ n.todo = {} /\ n.ev = e
              /\ n.hushed = IF ok THEN sweep.hushed ELSE {}
            BY DEF Idle
        <3> HIDE DEF n
        <3>3. job'[Patrol] = n /\ (q # Patrol => job'[q] = job[q])
            BY <1>0, <2>1, <3>1
        <3> QED
            BY <2>1, <2>3, <3>2, <3>3 DEF FromRow
    <2> QED
        BY <2>2, <2>3
<1>6. ASSUME NEW ok \in BOOLEAN, SweepStamp(ok) PROVE Goal
    BY <1>0, <1>6 DEF SweepStamp
<1>7. ASSUME NEW p \in Procs, NEW ok \in BOOLEAN, SelectChannels(p, ok) PROVE Goal
    <2>1. UNCHANGED <<events, silences, now>> /\ job[p].pc = "select"
        BY <1>7 DEF SelectChannels
    <2> QED
        BY <1>7, <2>1, SelectMoves, OfferedTypes DEF MovesOn
<1>8. ASSUME NEW p \in Procs, NEW c \in job[p].todo, Offer(p, c) PROVE Goal
    <2>1. UNCHANGED <<events, silences, now>> /\ job[p].pc = "offer"
        BY <1>8 DEF Offer
    <2> QED
        BY <1>8, <2>1, OfferMoves, OfferedTypes DEF MovesOn
<1>9. ASSUME NEW ok \in BOOLEAN, Restart(ok) PROVE Goal
    BY <1>0, <1>9 DEF Restart
<1>10. ASSUME job' = job PROVE Goal
    BY <1>10
<1>11. ASSUME NEW rows, SweepBegins(rows) PROVE job' = job
    BY <1>11 DEF SweepBegins
<1>12. ASSUME NEW min, NEW r, NEW n, NEW d, CountChannels(min) \/ CountSilences(r, n, d)
       PROVE  job' = job
    BY <1>12 DEF CountChannels, CountSilences, Asks
<1>13. ASSUME NEW c, NEW s, InsertChannel(c) \/ DeleteChannel(c) \/ set_renotify(s) \/ Drop
       PROVE  job' = job
    BY <1>13 DEF InsertChannel, DeleteChannel, set_renotify, Drop
<1>14. ASSUME NEW i, InsertSilence(i) \/ DeleteSilence(i) PROVE job' = job
    BY <1>14 DEF InsertSilence, DeleteSilence
<1>15. ASSUME Tick \/ UNCHANGED vars PROVE job' = job
    BY <1>15 DEF Tick, vars
<1>16. DOMAIN job = Procs
    BY <1>0
<1> HIDE DEF Goal
<1>17. Goal
    BY <1>1, <1>2, <1>3, <1>4, <1>5, <1>6, <1>7, <1>8, <1>9, <1>10, <1>11, <1>12,
       <1>13, <1>14, <1>15, <1>16 DEF Next
<1> QED
    BY <1>17 DEF Goal

-----------------------------------------------------------------------------
(* Silences are respected.                                                 *)

\* What is known of a notice stays so while the notice does.
LEMMA KeptOn ==
    ASSUME TypeOK, EventsKeep, SilencesKeep, now <= now', now' \in Nat,
           NEW n \in Notice, KeptFor(n)
    PROVE  /\ n.pc # "idle" /\ n.kind # "login" => n.ev \in DOMAIN events'
           /\ \A i \in n.hushed : silences'[i].status # "new" /\ silences'[i].start <= now'
           /\ n.pc \in {"select", "offer"} /\ n.kind # "login" =>
                 \A i \in n.hushed : Active(silences'[i], now') => ~Covers(silences[i], n.ev)'
<1>1. n.hushed \subseteq SilenceIds
    BY DEF Notice
<1>2. \A i \in n.hushed : /\ silences[i] \in Silence
                          /\ silences[i].status # "new" /\ silences[i].start <= now
    BY <1>1 DEF TypeOK, KeptFor
<1>3. n.pc # "idle" /\ n.kind # "login" => n.ev \in DOMAIN events /\ n.ev \in DOMAIN events'
    BY DEF KeptFor, EventsKeep
<1>4. \A i \in n.hushed : silences'[i].status # "new" /\ silences'[i].start <= now'
    BY <1>1, <1>2 DEF SilencesKeep, TypeOK, Silence
<1>5. ASSUME n.pc \in {"select", "offer"}, n.kind # "login",
             NEW i \in n.hushed, Active(silences'[i], now')
      PROVE  ~Covers(silences[i], n.ev)'
    <2>1. /\ silences'[i].rule = silences[i].rule /\ silences'[i].node = silences[i].node
          /\ silences'[i].start = silences[i].start /\ silences'[i].end = silences[i].end
          /\ silences[i].status = "live"
        BY <1>1, <1>2, <1>5 DEF SilencesKeep, Active
    <2>2. Active(silences[i], now)
        BY <1>2, <1>5, <2>1 DEF Active, TypeOK, Silence
    <2>3. ~Covers(silences[i], n.ev)
        BY <1>5, <2>2 DEF KeptFor
    <2>4. events'[n.ev].rule = events[n.ev].rule /\ events'[n.ev].node = events[n.ev].node
        BY <1>3, <1>5 DEF EventsKeep
    <2> QED
        BY <2>1, <2>3, <2>4 DEF Covers
<1> QED
    BY <1>3, <1>4, <1>5

LEMMA SilenceInitially == Init => SilenceInv
<1> SUFFICES ASSUME Init PROVE SilenceInv
    OBVIOUS
<1>1. \A p \in Procs : job[p] = Idle
    BY DEF Init, Procs
<1>2. KeptFor(Idle)
    BY DEF KeptFor, Idle
<1>3. KeptForSweep
    BY DEF Init, KeptForSweep, NoSweep
<1> QED
    BY <1>1, <1>2, <1>3 DEF SilenceInv

\* The sweep's rows and the silences in force when it began.
LEMMA SweepStep == TypeOK /\ KeptForSweep /\ [Next]_vars => KeptForSweep'
<1> SUFFICES ASSUME TypeOK, KeptForSweep, [Next]_vars PROVE KeptForSweep'
    OBVIOUS
<1>1. EventsKeep /\ SilencesKeep /\ now <= now'
    BY StepKeeps
<1>2. TypeOK'
    BY TypeStep
<1>3. /\ sweep \in Sweep /\ now \in Nat /\ now' \in Nat
      /\ silences \in [SilenceIds -> Silence] /\ events \in Seq(Event)
    BY <1>2 DEF TypeOK
<1>4. CASE /\ sweep'.rows \subseteq sweep.rows
           /\ sweep'.hushed = sweep.hushed /\ sweep'.at = sweep.at
    BY <1>1, <1>3, <1>4 DEF KeptForSweep, EventsKeep, SilencesKeep, Sweep
<1>5. ASSUME NEW rows \in SUBSET Open, SweepBegins(rows) PROVE KeptForSweep'
    <2>1. /\ sweep'.rows \subseteq Open /\ sweep'.hushed = InForce /\ sweep'.at = now
          /\ UNCHANGED <<events, silences, now>>
        BY <1>5 DEF SweepBegins
    <2> QED
        BY <1>3, <2>1 DEF KeptForSweep, Open, InForce, Active
<1>6. ASSUME NEW e \in sweep.rows, NEW ok \in BOOLEAN, SweepRow(e, ok) PROVE KeptForSweep'
    <2>1. \/ sweep' = sweep
          \/ sweep' = [sweep EXCEPT !.rows = sweep.rows \ {e}, !.quiet = sweep.quiet \cup {e}]
        BY <1>6 DEF SweepRow
    <2> QED
        BY <1>3, <1>4, <2>1 DEF Sweep
<1>7. ASSUME NEW ok \in BOOLEAN, SweepStamp(ok) PROVE KeptForSweep'
    <2>1. /\ sweep'.rows \subseteq sweep.rows
          /\ sweep'.hushed = sweep.hushed /\ sweep'.at = sweep.at
        BY <1>3, <1>7 DEF SweepStamp, Sweep
    <2> QED
        BY <1>4, <2>1
<1>8. ASSUME NEW ok \in BOOLEAN, Restart(ok) PROVE KeptForSweep'
    BY <1>3, <1>8 DEF Restart, NoSweep, KeptForSweep
<1>9. CASE sweep' = sweep
    BY <1>4, <1>9
<1>10. ASSUME NEW w, NEW r, NEW n, NEW e, NEW ok,
              Raise(w, r, n) \/ Resolve(w, e) \/ Login(w) \/ CheckSilence(w, ok)
       PROVE  sweep' = sweep
    BY <1>10 DEF Raise, Resolve, Login, CheckSilence
<1>11. ASSUME NEW p, NEW c, NEW ok, SelectChannels(p, ok) \/ Offer(p, c) PROVE sweep' = sweep
    BY <1>11 DEF SelectChannels, Offer
<1>12. ASSUME NEW min, NEW r, NEW n, NEW d, CountChannels(min) \/ CountSilences(r, n, d)
       PROVE  sweep' = sweep
    BY <1>12 DEF CountChannels, CountSilences, Asks
<1>13. ASSUME NEW c, NEW i, NEW s,
              InsertChannel(c) \/ DeleteChannel(c) \/ InsertSilence(i) \/ DeleteSilence(i)
                \/ set_renotify(s) \/ Drop \/ Tick \/ UNCHANGED vars
       PROVE  sweep' = sweep
    BY <1>13 DEF InsertChannel, DeleteChannel, InsertSilence, DeleteSilence, set_renotify,
                 Drop, Tick, vars
<1> QED
    BY <1>5, <1>6, <1>7, <1>8, <1>9, <1>10, <1>11, <1>12, <1>13 DEF Next

LEMMA SilenceStep == TypeOK /\ SilenceInv /\ [Next]_vars => SilenceInv'
<1> SUFFICES ASSUME TypeOK, SilenceInv, [Next]_vars PROVE SilenceInv'
    OBVIOUS
<1>1. EventsKeep /\ SilencesKeep /\ now <= now'
    BY StepKeeps
<1>2. TypeOK'
    BY TypeStep
<1>3. /\ now \in Nat /\ now' \in Nat /\ sweep \in Sweep /\ silences \in [SilenceIds -> Silence]
      /\ job \in [Procs -> Notice] /\ job' \in [Procs -> Notice]
    BY <1>2 DEF TypeOK, Procs
<1>4. KeptForSweep /\ KeptForSweep'
    BY SweepStep DEF SilenceInv
<1>5. ASSUME NEW q \in Procs, NEW n \in Notice, n = job'[q]
      PROVE  /\ n.pc # "idle" /\ n.kind # "login" => n.ev \in DOMAIN events'
             /\ \A i \in n.hushed : silences'[i].status # "new" /\ silences'[i].start <= now'
             /\ n.pc \in {"select", "offer"} /\ n.kind # "login" =>
                   \A i \in n.hushed : Active(silences'[i], now') => ~Covers(silences[i], n.ev)'
    <2>1. KeptFor(job[q]) /\ job[q] \in Notice
        BY <1>3 DEF SilenceInv
    <2>2. CASE KeptFor(n)
        BY <1>1, <1>3, <2>2, KeptOn
    <2>3. CASE job'[q] = job[q]
        BY <1>5, <2>1, <2>2, <2>3
    <2>4. CASE job'[q] = Idle
        BY <1>5, <2>4 DEF Idle
    <2>5. CASE Taken(q)
        BY <1>3, <1>5, <2>5 DEF Taken, InForce, Active, Silence
    <2>6. CASE Checked(q)
        <3>1. KeptFor(n)
            BY <1>5, <2>1, <2>6 DEF Checked, KeptFor, is_silenced, Notice
        <3> QED
            BY <2>2, <3>1
    <2>7. CASE FromRow(q)
        <3>1. n.pc = "select" /\ n.kind = "lasting" /\ n.ev \in DOMAIN events
            BY <1>4, <1>5, <2>7 DEF FromRow, KeptForSweep
        <3>2. \A i \in n.hushed : i \in sweep.hushed /\ ~is_silenced(n.ev, sweep.at)
            BY <1>5, <2>7 DEF FromRow
        <3>3. \A i \in n.hushed :
                 /\ i \in SilenceIds /\ silences[i] \in Silence
                 /\ silences[i].status # "new" /\ silences[i].start <= sweep.at
                 /\ sweep.at <= now /\ sweep.at \in Nat
            BY <1>3, <1>4, <3>2 DEF KeptForSweep, Sweep
        <3>4. \A i \in n.hushed : Active(silences[i], now) => Active(silences[i], sweep.at)
            BY <1>3, <3>3 DEF Active, Silence
        <3>5. \A i \in n.hushed : Active(silences[i], now) => ~Covers(silences[i], n.ev)
            BY <3>2, <3>3, <3>4 DEF is_silenced
        <3>6. \A i \in n.hushed : silences[i].status # "new" /\ silences[i].start <= now
            BY <1>3, <3>3 DEF Silence
        <3>7. KeptFor(n)
            BY <3>1, <3>5, <3>6 DEF KeptFor
        <3> QED
            BY <2>2, <3>7
    <2>8. CASE MovesOn(q)
        <3>1. KeptFor(n)
            BY <1>5, <2>1, <2>8 DEF MovesOn, KeptFor
        <3> QED
            BY <2>2, <3>1
    <2> QED
        BY <2>3, <2>4, <2>5, <2>6, <2>7, <2>8, JobMoves
<1>6. ASSUME NEW q \in Procs PROVE KeptFor(job[q])'
    <2>1. PICK n \in Notice : n = job'[q]
        BY <1>3
    <2> QED
        BY <1>5, <2>1 DEF KeptFor, Covers
<1> QED
    BY <1>4, <1>6 DEF SilenceInv

-----------------------------------------------------------------------------
(* What is due is reminded of.                                             *)

LEMMA SweepInitially == Init => SweepInv
BY DEF Init, SweepInv, DueAccounted, NoSweep

\* A step that leaves the sweep alone and makes no event due keeps its account.
LEMMA AccountKept ==
    ASSUME TypeOK, DueAccounted, sweep' = sweep,
           \A e \in Open' : \/ e \in Open /\ events'[e].last = events[e].last
                            \/ sweep.secs > 0 => ~(events'[e].last <= sweep.at - sweep.secs)
    PROVE  DueAccounted'
BY DEF DueAccounted

LEMMA DueStep == TypeOK /\ SweepInv /\ [Next]_vars => SweepInv'
<1> SUFFICES ASSUME TypeOK, SweepInv, [Next]_vars PROVE SweepInv'
    OBVIOUS
<1>1. now <= now'
    BY StepKeeps
<1>2. TypeOK'
    BY TypeStep
<1>3. /\ sweep \in Sweep /\ now \in Nat /\ now' \in Nat /\ secs \in Nat
      /\ events \in Seq(Event) /\ sweep.at \in Nat /\ sweep.secs \in Nat
    <2>1. /\ sweep \in Sweep /\ now \in Nat /\ now' \in Nat /\ events \in Seq(Event)
          /\ secs \in Intervals \cup {0}
        BY <1>2 DEF TypeOK
    <2>2. Intervals \subseteq Nat
        BY NotifyAssumption
    <2>3. sweep.at \in Nat /\ sweep.secs \in Nat
        BY <2>1 DEF Sweep
    <2> QED
        BY <2>1, <2>2, <2>3
<1>4. sweep.at <= now /\ DueAccounted
    BY DEF SweepInv
<1>5. CASE UNCHANGED <<sweep, events>>
    BY <1>1, <1>3, <1>4, <1>5 DEF SweepInv, DueAccounted, Open
<1>6. ASSUME NEW w \in Workers, NEW r \in Rules, NEW n \in Nodes, Raise(w, r, n) PROVE SweepInv'
    <2> DEFINE row == [status |-> "open", rule |-> r, node |-> n, last |-> now]
               new == Len(events) + 1
    <2>1. row \in Event /\ row.last = now
        BY <1>3 DEF Event
    <2>2. events' = Append(events, row) /\ UNCHANGED <<sweep, now>>
        BY <1>6 DEF Raise
    <2> HIDE DEF row
    <2>3. /\ DOMAIN events' = DOMAIN events \cup {new} /\ events'[new] = row
          /\ \A f \in DOMAIN events : events'[f] = events[f]
        BY <1>3, <2>1, <2>2, RowAdded
    <2> HIDE DEF new
    <2>4. \A e \in Open' : \/ e \in Open /\ events'[e].last = events[e].last
                           \/ sweep.secs > 0 => ~(events'[e].last <= sweep.at - sweep.secs)
        BY <1>3, <1>4, <2>1, <2>3 DEF Open
    <2>5. DueAccounted'
        BY <1>4, <2>2, <2>4, AccountKept
    <2> QED
        BY <1>4, <2>2, <2>5 DEF SweepInv
<1>7. ASSUME NEW w \in Workers, NEW e \in Open, Resolve(w, e) PROVE SweepInv'
    <2>1. UNCHANGED <<sweep, now>> /\ events' = [events EXCEPT ![e].status = "resolved"]
        BY <1>7 DEF Resolve
    <2>2. \A f \in DOMAIN events : f # e => events'[f] = events[f]
        BY <1>3, <2>1, RowUpdated
    <2>3. DOMAIN events' = DOMAIN events
        BY <1>3, <2>1, RowUpdated
    <2>4. events'[e].status = "resolved"
        BY <1>3, <2>1, EventRows DEF Open, Event
    <2>5. \A f \in Open' : f \in Open /\ events'[f].last = events[f].last
        BY <2>2, <2>3, <2>4 DEF Open
    <2>6. DueAccounted'
        BY <1>4, <2>1, <2>5, AccountKept
    <2> QED
        BY <1>4, <2>1, <2>6 DEF SweepInv
<1>8. ASSUME NEW rows \in SUBSET Open, SweepBegins(rows) PROVE SweepInv'
    <2>1. /\ UNCHANGED <<events, now>> /\ secs > 0
          /\ sweep'.at = now /\ sweep'.secs = secs /\ sweep'.rows = rows
          /\ sweep'.whole => rows = {e \in Open : Due(e)}
        BY <1>8 DEF SweepBegins
    <2> QED
        BY <1>3, <2>1 DEF SweepInv, DueAccounted, Open, Due
<1>9. ASSUME NEW e \in sweep.rows, NEW ok \in BOOLEAN, SweepRow(e, ok) PROVE SweepInv'
    <2>1. UNCHANGED <<events, now>>
        BY <1>9 DEF SweepRow
    <2>2. \/ sweep' = sweep
          \/ sweep' = [sweep EXCEPT !.rows = sweep.rows \ {e}, !.quiet = sweep.quiet \cup {e}]
        BY <1>9 DEF SweepRow
    <2>3. /\ sweep'.at = sweep.at /\ sweep'.secs = sweep.secs /\ sweep'.whole = sweep.whole
          /\ sweep.rows \cup sweep.quiet \subseteq sweep'.rows \cup sweep'.quiet
          /\ sweep'.unstamped = sweep.unstamped
        BY <1>3, <2>2 DEF Sweep
    <2> QED
        BY <1>4, <2>1, <2>3 DEF SweepInv, DueAccounted, Open
<1>10. ASSUME NEW ok \in BOOLEAN, SweepStamp(ok) PROVE SweepInv'
    <2> DEFINE e == job[Patrol].ev
    <2>1. /\ events' = IF ok THEN [events EXCEPT ![e].last = sweep.at] ELSE events
          /\ sweep' = [sweep EXCEPT !.rows = @ \ {e}, !.unstamped = IF ok THEN @ ELSE @ \cup {e}]
          /\ now' = now
        BY <1>10 DEF SweepStamp
    <2> HIDE DEF e
    <2>2. /\ sweep'.at = sweep.at /\ sweep'.secs = sweep.secs /\ sweep'.whole = sweep.whole
          /\ sweep'.quiet = sweep.quiet /\ sweep'.rows = sweep.rows \ {e}
          /\ sweep'.unstamped = IF ok THEN sweep.unstamped ELSE sweep.unstamped \cup {e}
        BY <1>3, <2>1 DEF Sweep
    <2>3. CASE ~ok
        BY <1>4, <2>1, <2>2, <2>3 DEF SweepInv, DueAccounted, Open
    <2>4. CASE ok
        <3>1. events' = [events EXCEPT ![e].last = sweep.at]
            BY <2>1, <2>4
        <3>2. /\ DOMAIN events' = DOMAIN events
              /\ \A f \in DOMAIN events : f # e => events'[f] = events[f]
            BY <1>3, <3>1, RowUpdated
        <3>3. e \in DOMAIN events => events'[e].last = sweep.at
            BY <1>3, <3>1, EventRows DEF Event
        <3>4. \A f \in Open' : \/ f \in Open /\ f # e /\ events'[f].last = events[f].last
                               \/ f = e /\ events'[f].last = sweep.at
            BY <3>2, <3>3 DEF Open
        <3>5. DueAccounted'
            BY <1>3, <1>4, <2>2, <2>4, <3>4 DEF DueAccounted
        <3> QED
            BY <1>4, <2>1, <2>2, <3>5 DEF SweepInv
    <2> QED
        BY <2>3, <2>4
<1>11. ASSUME NEW ok \in BOOLEAN, Restart(ok) PROVE SweepInv'
    BY <1>3, <1>11 DEF Restart, NoSweep, SweepInv, DueAccounted
<1>12. ASSUME NEW w, NEW ok, Login(w) \/ CheckSilence(w, ok) PROVE UNCHANGED <<sweep, events>>
    BY <1>12 DEF Login, CheckSilence
<1>13. ASSUME NEW p, NEW c, NEW ok, SelectChannels(p, ok) \/ Offer(p, c)
       PROVE  UNCHANGED <<sweep, events>>
    BY <1>13 DEF SelectChannels, Offer
<1>14. ASSUME NEW min, NEW r, NEW n, NEW d, CountChannels(min) \/ CountSilences(r, n, d)
       PROVE  UNCHANGED <<sweep, events>>
    BY <1>14 DEF CountChannels, CountSilences, Asks
<1>15. ASSUME NEW c, NEW i, NEW s,
              InsertChannel(c) \/ DeleteChannel(c) \/ InsertSilence(i) \/ DeleteSilence(i)
                \/ set_renotify(s) \/ Drop \/ Tick \/ UNCHANGED vars
       PROVE  UNCHANGED <<sweep, events>>
    BY <1>15 DEF InsertChannel, DeleteChannel, InsertSilence, DeleteSilence, set_renotify,
                 Drop, Tick, vars
<1> QED
    BY <1>5, <1>6, <1>7, <1>8, <1>9, <1>10, <1>11, <1>12, <1>13, <1>14, <1>15 DEF Next

-----------------------------------------------------------------------------
(* The throttle.                                                           *)

\* Only time moves the clock.
LEMMA ClockStep == [Next]_vars => now' = now \/ Tick
<1> SUFFICES ASSUME [Next]_vars PROVE now' = now \/ Tick
    OBVIOUS
<1>1. ASSUME NEW w, NEW r, NEW n, NEW e, NEW ok,
             Raise(w, r, n) \/ Resolve(w, e) \/ Login(w) \/ CheckSilence(w, ok)
      PROVE  now' = now
    BY <1>1 DEF Raise, Resolve, Login, CheckSilence
<1>2. ASSUME NEW rows, NEW e, NEW ok,
             SweepBegins(rows) \/ SweepRow(e, ok) \/ SweepStamp(ok) \/ Restart(ok)
      PROVE  now' = now
    BY <1>2 DEF SweepBegins, SweepRow, SweepStamp, Restart
<1>3. ASSUME NEW p, NEW c, NEW ok, SelectChannels(p, ok) \/ Offer(p, c) PROVE now' = now
    BY <1>3 DEF SelectChannels, Offer
<1>4. ASSUME NEW min, NEW r, NEW n, NEW d, CountChannels(min) \/ CountSilences(r, n, d)
      PROVE  now' = now
    BY <1>4 DEF CountChannels, CountSilences, Asks
<1>5. ASSUME NEW c, NEW i, NEW s,
             InsertChannel(c) \/ DeleteChannel(c) \/ InsertSilence(i) \/ DeleteSilence(i)
               \/ set_renotify(s) \/ Drop \/ UNCHANGED vars
      PROVE  now' = now
    BY <1>5 DEF InsertChannel, DeleteChannel, InsertSilence, DeleteSilence, set_renotify,
                Drop, vars
<1> QED
    BY <1>1, <1>2, <1>3, <1>4, <1>5 DEF Next

\* The throttle is touched by a channel's turn and by a restart.
LEMMA ChargeStep ==
    [Next]_vars => \/ UNCHANGED <<throttle, handed>>
                   \/ \E p \in DOMAIN job : \E c \in job[p].todo : Offer(p, c)
                   \/ \E ok \in BOOLEAN : Restart(ok)
<1> DEFINE Goal == \/ UNCHANGED <<throttle, handed>>
                   \/ \E p \in DOMAIN job : \E c \in job[p].todo : Offer(p, c)
                   \/ \E ok \in BOOLEAN : Restart(ok)
<1> SUFFICES ASSUME [Next]_vars PROVE Goal
    OBVIOUS
<1>1. ASSUME NEW w, NEW r, NEW n, NEW e, NEW ok,
             Raise(w, r, n) \/ Resolve(w, e) \/ Login(w) \/ CheckSilence(w, ok)
      PROVE  UNCHANGED <<throttle, handed>>
    BY <1>1 DEF Raise, Resolve, Login, CheckSilence
<1>2. ASSUME NEW rows, NEW e, NEW ok, SweepBegins(rows) \/ SweepRow(e, ok) \/ SweepStamp(ok)
      PROVE  UNCHANGED <<throttle, handed>>
    BY <1>2 DEF SweepBegins, SweepRow, SweepStamp
<1>3. ASSUME NEW p, NEW ok, SelectChannels(p, ok) PROVE UNCHANGED <<throttle, handed>>
    BY <1>3 DEF SelectChannels
<1>4. ASSUME NEW min, NEW r, NEW n, NEW d, CountChannels(min) \/ CountSilences(r, n, d)
      PROVE  UNCHANGED <<throttle, handed>>
    BY <1>4 DEF CountChannels, CountSilences, Asks
<1>5. ASSUME NEW c, NEW i, NEW s,
             InsertChannel(c) \/ DeleteChannel(c) \/ InsertSilence(i) \/ DeleteSilence(i)
               \/ set_renotify(s) \/ Drop \/ Tick \/ UNCHANGED vars
      PROVE  UNCHANGED <<throttle, handed>>
    BY <1>5 DEF InsertChannel, DeleteChannel, InsertSilence, DeleteSilence, set_renotify,
                Drop, Tick, vars
<1> QED
    BY <1>1, <1>2, <1>3, <1>4, <1>5 DEF Next

LEMMA ThrottleInitially == Init => ThrottleInv
<1> SUFFICES ASSUME Init PROVE ThrottleInv
    OBVIOUS
<1>1. \A p \in Procs : job[p] = Idle
    BY DEF Init, Procs
<1>2. throttle = <<>> /\ handed = <<>> /\ DOMAIN <<>> = {}
    BY DEF Init
<1> QED
    BY <1>1, <1>2, IdleTyped DEF ThrottleInv, OfferFresh, ThrottleKnows

LEMMA FreshStep == TypeOK /\ OfferFresh /\ [Next]_vars => OfferFresh'
<1> SUFFICES ASSUME TypeOK, OfferFresh, [Next]_vars, NEW q \in Procs
             PROVE  /\ job'[q].pc # "offer" => job'[q].todo = {}
                    /\ job'[q].pc = "offer" =>
                          job'[q].clock <= now' /\ now' <= job'[q].clock + MaxLag
    BY DEF OfferFresh
<1>1. /\ job[q] \in Notice /\ now \in Nat /\ MaxLag \in Nat
      /\ job[q].pc # "offer" => job[q].todo = {}
      /\ job[q].pc = "offer" => job[q].clock <= now /\ now <= job[q].clock + MaxLag
    BY NotifyAssumption DEF TypeOK, Procs, OfferFresh
<1>2. job[q].clock \in Nat
    BY <1>1 DEF Notice
<1>3. CASE job'[q] = job[q]
    <2>1. CASE now' = now
        BY <1>1, <1>3, <2>1
    <2>2. CASE Tick
        <3>1. now' = now + 1 /\ (job[q].pc = "offer" => now < job[q].clock + MaxLag)
            BY <2>2 DEF Tick, TypeOK, Procs
        <3> QED
            BY <1>1, <1>2, <1>3, <3>1
    <2> QED
        BY <2>1, <2>2, ClockStep
<1>4. CASE job'[q] = Idle
    BY <1>4, IdleTyped
<1>5. CASE Taken(q)
    BY <1>5 DEF Taken
<1>6. CASE Checked(q)
    BY <1>1, <1>6 DEF Checked
<1>7. CASE FromRow(q)
    BY <1>7 DEF FromRow
<1>8. CASE MovesOn(q)
    BY <1>1, <1>2, <1>8 DEF MovesOn
<1> QED
    BY <1>3, <1>4, <1>5, <1>6, <1>7, <1>8, JobMoves

\* A reading of the clock in use, and what has been pruned by it.
LEMMA LongAgo ==
    ASSUME TypeOK, ThrottleInv, NEW p \in Procs, job[p].pc = "offer",
           NEW k \in DOMAIN handed, k \notin DOMAIN Pruned(job[p].clock)
    PROVE  /\ now - handed[k].last >= KeepSecs
           /\ job[p].clock - handed[k].last >= Dedup
<1>1. /\ job[p] \in Notice /\ now \in Nat /\ handed[k] \in Charge
      /\ job[p].clock <= now /\ now <= job[p].clock + MaxLag
    BY DEF TypeOK, Procs, ThrottleInv, OfferFresh
<1>2. job[p].clock \in Nat /\ handed[k].last \in Nat
    BY <1>1 DEF Notice, Charge
<1>3. Dedup \in Nat /\ KeepSecs \in Nat /\ MaxLag \in Nat /\ Dedup + MaxLag <= KeepSecs
    BY NotifyAssumption
<1>4. CASE k \in DOMAIN throttle
    <2>1. job[p].clock - handed[k].last >= KeepSecs
        BY <1>2, <1>4, PrunedTypes DEF ThrottleInv, ThrottleKnows
    <2> QED
        BY <1>1, <1>2, <1>3, <2>1
<1>5. CASE k \notin DOMAIN throttle
    <2>1. now - handed[k].last >= KeepSecs
        BY <1>5 DEF ThrottleInv, ThrottleKnows
    <2> QED
        BY <1>1, <1>2, <1>3, <2>1
<1> QED
    BY <1>4, <1>5

\* A channel's turn sends the text if and only if it was not sent to that
\* channel within the window.
LEMMA OfferExact ==
    ASSUME TypeOK, ThrottleInv, NEW p \in Procs, NEW c \in job[p].todo, Offer(p, c)
    PROVE  LET k == <<c, Text(job[p].kind, job[p].ev)>> IN
           handed' = handed <=>
              k \in DOMAIN handed /\ job[p].clock - handed[k].last < Dedup
<1> DEFINE k == <<c, Text(job[p].kind, job[p].ev)>>
           t == job[p].clock
           send == ~Recent(Pruned(t), k, t)
           told == k \in DOMAIN handed /\ t - handed[k].last < Dedup
<1>1. handed' = IF send THEN With(handed, k, Sent(k, t)) ELSE handed
    BY DEF Offer
<1>2. job[p].pc = "offer"
    BY DEF Offer
<1>3. t \in Nat /\ handed \in [DOMAIN handed -> Charge]
    BY DEF TypeOK, Procs, Notice
<1>4. Sent(k, t) \in Charge
    BY <1>3 DEF Sent, Charge
<1>5. k \in DOMAIN handed => Sent(k, t) # handed[k]
    BY <1>3 DEF Sent, Charge
<1>6. Recent(Pruned(t), k, t) <=> told
    <2>1. CASE k \in DOMAIN Pruned(t)
        <3>1. k \in DOMAIN throttle /\ Pruned(t)[k] = throttle[k]
            BY <1>3, <2>1, PrunedTypes
        <3>2. k \in DOMAIN handed /\ throttle[k] = handed[k].last
            BY <3>1 DEF ThrottleInv, ThrottleKnows
        <3> QED
            BY <2>1, <3>1, <3>2 DEF Recent
    <2>2. CASE k \notin DOMAIN Pruned(t) /\ k \in DOMAIN handed
        <3>1. t - handed[k].last >= Dedup
            BY <1>2, <2>2, LongAgo
        <3>2. handed[k].last \in Nat /\ Dedup \in Nat
            BY <1>3, <2>2, NotifyAssumption DEF Charge
        <3> QED
            BY <1>3, <2>2, <3>1, <3>2 DEF Recent
    <2>3. CASE k \notin DOMAIN Pruned(t) /\ k \notin DOMAIN handed
        BY <2>3 DEF Recent
    <2> QED
        BY <2>1, <2>2, <2>3
<1> HIDE DEF k, t
<1>7. send => handed' # handed
    <2> SUFFICES ASSUME send PROVE handed' # handed
        OBVIOUS
    <2>1. k \in DOMAIN handed' /\ handed'[k] = Sent(k, t)
        BY <1>1 DEF With
    <2> QED
        BY <1>5, <2>1
<1>8. handed' = handed <=> told
    BY <1>1, <1>6, <1>7
<1> QED
    BY <1>8 DEF k, t

LEMMA ThrottleStep == TypeOK /\ ThrottleInv /\ [Next]_vars => ThrottleInv'
<1> SUFFICES ASSUME TypeOK, ThrottleInv, [Next]_vars PROVE ThrottleInv'
    OBVIOUS
<1>1. OfferFresh'
    BY FreshStep DEF ThrottleInv
<1>2. /\ now <= now' /\ now \in Nat /\ now' \in Nat
      /\ throttle \in [DOMAIN throttle -> Nat] /\ handed \in [DOMAIN handed -> Charge]
    BY StepKeeps, TypeStep DEF TypeOK
<1>3. \A k \in DOMAIN handed : handed[k].last \in Nat
    BY <1>2 DEF Charge
<1>4. CASE UNCHANGED <<throttle, handed>>
    <2>1. \A k \in DOMAIN throttle' : k \in DOMAIN handed' /\ throttle'[k] = handed'[k].last
        BY <1>4 DEF ThrottleInv, ThrottleKnows
    <2>2. \A k \in DOMAIN handed : k \notin DOMAIN throttle => now' - handed[k].last >= KeepSecs
        BY <1>2, <1>3, NotifyAssumption DEF ThrottleInv, ThrottleKnows
    <2> QED
        BY <1>1, <1>4, <2>1, <2>2 DEF ThrottleInv, ThrottleKnows
<1>5. ASSUME NEW p \in Procs, NEW c \in job[p].todo, Offer(p, c) PROVE ThrottleInv'
    <2> DEFINE k == <<c, Text(job[p].kind, job[p].ev)>>
               t == job[p].clock
               send == ~Recent(Pruned(t), k, t)
    <2>1. /\ throttle' = IF send THEN With(Pruned(t), k, t) ELSE Pruned(t)
          /\ handed' = IF send THEN With(handed, k, Sent(k, t)) ELSE handed
          /\ now' = now /\ job[p].pc = "offer"
        BY <1>5 DEF Offer
    <2>2. t \in Nat
        BY DEF TypeOK, Procs, Notice
    <2>3. Sent(k, t) \in Charge /\ Sent(k, t).last = t
        BY <1>2, <2>2 DEF Sent, Charge
    <2>4. /\ Pruned(t) \in [DOMAIN Pruned(t) -> Nat]
          /\ \A x \in DOMAIN Pruned(t) : x \in DOMAIN handed /\ Pruned(t)[x] = handed[x].last
        BY <2>2, PrunedTypes DEF ThrottleInv, ThrottleKnows
    <2>5. \A x \in DOMAIN handed : x \notin DOMAIN Pruned(t) => now - handed[x].last >= KeepSecs
        BY <2>1, LongAgo
    <2> HIDE DEF k, t
    <2>6. CASE ~send
        BY <1>1, <2>1, <2>4, <2>5, <2>6 DEF ThrottleInv, ThrottleKnows
    <2>7. CASE send
        <3>1. throttle' = With(Pruned(t), k, t) /\ handed' = With(handed, k, Sent(k, t))
            BY <2>1, <2>7
        <3>2. /\ DOMAIN throttle' = DOMAIN Pruned(t) \cup {k} /\ throttle'[k] = t
              /\ \A x \in DOMAIN Pruned(t) : x # k => throttle'[x] = Pruned(t)[x]
            BY <3>1 DEF With
        <3>3. /\ DOMAIN handed' = DOMAIN handed \cup {k} /\ handed'[k] = Sent(k, t)
              /\ \A x \in DOMAIN handed : x # k => handed'[x] = handed[x]
            BY <3>1 DEF With
        <3> QED
            BY <1>1, <2>1, <2>3, <2>4, <2>5, <3>2, <3>3 DEF ThrottleInv, ThrottleKnows
    <2> QED
        BY <2>6, <2>7
<1>6. ASSUME NEW ok \in BOOLEAN, Restart(ok) PROVE ThrottleInv'
    <2>1. throttle' = <<>> /\ handed' = <<>> /\ DOMAIN <<>> = {}
        BY <1>6 DEF Restart
    <2> QED
        BY <1>1, <2>1 DEF ThrottleInv, ThrottleKnows
<1>7. DOMAIN job = Procs
    BY DEF TypeOK, Procs
<1> QED
    BY <1>4, <1>5, <1>6, <1>7, ChargeStep

\* A task is done with a channel when it had its turn, or when memory is gone.
LEMMA TodoShrinks ==
    ASSUME TypeOK, OfferFresh, [Next]_vars, NEW p \in Procs,
           NEW c \in job[p].todo, c \notin job'[p].todo
    PROVE  Offer(p, c) \/ calls' # calls
<1>1. job[p].pc = "offer" /\ calls \in Nat /\ job \in [Procs -> Notice]
    BY DEF OfferFresh, TypeOK, Procs
<1>2. job'[p] # job[p]
    OBVIOUS
<1>3. ASSUME NEW w \in Workers, NEW r, NEW n, NEW e, NEW ok, job[w].pc # "offer",
             \E f : job' = [job EXCEPT ![w] = f]
      PROVE  FALSE
    BY <1>1, <1>2, <1>3
<1>4. ASSUME NEW w \in Workers, NEW r, NEW n, NEW e, NEW ok,
             Raise(w, r, n) \/ Resolve(w, e) \/ Login(w) \/ CheckSilence(w, ok)
      PROVE  FALSE
    <2>1. job[w].pc # "offer"
        BY <1>4, IdleTyped DEF Raise, Resolve, Login, CheckSilence
    <2>2. \E f : job' = [job EXCEPT ![w] = f]
        BY <1>4 DEF Raise, Resolve, Login, CheckSilence, Takes
    <2> QED
        BY <1>3, <2>1, <2>2
<1>5. ASSUME NEW e, NEW ok, SweepRow(e, ok) \/ SweepStamp(ok) PROVE FALSE
    <2>1. job[Patrol].pc # "offer" /\ Patrol \in Procs
        BY <1>5, IdleTyped DEF SweepRow, SweepStamp, Procs
    <2>2. job' = job \/ \E f : job' = [job EXCEPT ![Patrol] = f]
        BY <1>5 DEF SweepRow, SweepStamp
    <2> QED
        BY <1>1, <1>2, <2>1, <2>2
<1>6. ASSUME NEW q \in Procs, NEW ok \in BOOLEAN, SelectChannels(q, ok) PROVE FALSE
    <2>1. job[q].pc # "offer"
        BY <1>6 DEF SelectChannels
    <2> QED
        BY <1>1, <1>2, <1>6, <2>1, SelectMoves
<1>7. ASSUME NEW q \in Procs, NEW d \in job[q].todo, Offer(q, d) PROVE Offer(p, c)
    BY <1>2, <1>7, OfferMoves
<1>8. ASSUME NEW ok, Restart(ok) PROVE calls' # calls
    BY <1>1, <1>8 DEF Restart
<1>9. ASSUME NEW rows, SweepBegins(rows) PROVE FALSE
    BY <1>2, <1>9 DEF SweepBegins
<1>10. ASSUME NEW min, NEW r, NEW n, NEW d, CountChannels(min) \/ CountSilences(r, n, d)
       PROVE  FALSE
    BY <1>2, <1>10 DEF CountChannels, CountSilences, Asks
<1>11. ASSUME NEW d, NEW i, NEW s,
              InsertChannel(d) \/ DeleteChannel(d) \/ InsertSilence(i) \/ DeleteSilence(i)
                \/ set_renotify(s) \/ Drop \/ Tick \/ UNCHANGED vars
       PROVE  FALSE
    BY <1>2, <1>11 DEF InsertChannel, DeleteChannel, InsertSilence, DeleteSilence,
                       set_renotify, Drop, Tick, vars
<1>12. DOMAIN job = Procs
    BY <1>1
<1> QED
    BY <1>4, <1>5, <1>6, <1>7, <1>8, <1>9, <1>10, <1>11, <1>12 DEF Next

-----------------------------------------------------------------------------
(* The theorems.                                                           *)

NotifyInv == TypeOK /\ SilenceInv /\ SweepInv /\ ThrottleInv

LEMMA TypeInitially == Init => TypeOK
<1> SUFFICES ASSUME Init PROVE TypeOK
    OBVIOUS
<1>1. Durations \subseteq Nat
    BY NotifyAssumption
<1>2. silences \in [SilenceIds -> Silence]
    <2>1. NoSilence \in Silence
        BY DEF NoSilence, Silence
    <2>2. [status : {"live"}, node : Nodes \cup {None}, rule : Rules \cup {None},
           start : {0}, end : Durations] \subseteq Silence
        <3>1. 0 \in Nat /\ "live" \in {"new", "live", "gone"}
            OBVIOUS
        <3> QED
            BY <1>1, <3>1, Zenon DEF Silence
    <2> QED
        BY <2>1, <2>2 DEF Init
<1>3. channels \in [Channels -> Channel]
    BY DEF Init, NoChannel, Channel
<1>4. job \in [Workers \cup {Patrol} -> Notice]
    BY IdleTyped DEF Init
<1>5. sweep \in Sweep
    BY DEF Init, NoSweep, Sweep
<1>6. throttle = <<>> /\ handed = <<>> /\ events = <<>> /\ DOMAIN <<>> = {}
    BY DEF Init
<1>7. events \in Seq(Event)
    BY <1>6
<1> QED
    BY <1>2, <1>3, <1>4, <1>5, <1>6, <1>7, NoRequestTyped DEF Init, TypeOK

\* What is reachable is well typed, and each of the three promises rests on
\* what push_and_notify, renotify_sweep and notify_all keep true in every state.
THEOREM NotifyInvariant == Spec => []NotifyInv
<1>1. Init => NotifyInv
    BY TypeInitially, SilenceInitially, SweepInitially, ThrottleInitially DEF NotifyInv
<1>2. NotifyInv /\ [Next]_vars => NotifyInv'
    BY TypeStep, SilenceStep, DueStep, ThrottleStep DEF NotifyInv
<1> QED
    BY <1>1, <1>2, PTL DEF Spec

\* A silence that was in force when a notice was taken up, and still is, keeps
\* it from every channel (is_silenced at push_and_notify and renotify_sweep),
\* though the sweep judges all its rows by the time at which it began.
THEOREM SilencesRespected == Spec => []SilenceRespected
<1>1. NotifyInv => SilenceRespected
    BY DEF NotifyInv, SilenceInv, KeptFor, SilenceRespected, TypeOK, Procs
<1> QED
    BY <1>1, NotifyInvariant, PTL

\* After a sweep that read all that was due, what still is due was silenced or
\* could not be stamped (renotify_sweep), for every LIMIT and every interval, and
\* though events are raised and the interval is changed between two rows.
THEOREM DueEventsReminded == Spec => []DueReminded
<1>1. NotifyInv => DueReminded
    BY DEF NotifyInv, SweepInv, DueAccounted, DueReminded
<1> QED
    BY <1>1, NotifyInvariant, PTL

\* A channel gets a text once in NOTIFY_DEDUP_SECS, and nothing is held back that
\* was not sent within that time (notify_all), for every size at which the map is
\* pruned, if what is pruned is older than the window and MaxLag together.
THEOREM ThrottleIsExact == Spec => ThrottleExact
<1> DEFINE Exact == \A p \in DOMAIN job : \A c \in job[p].todo \ job'[p].todo :
                      LET k == <<c, Text(job[p].kind, job[p].ev)>> IN
                      calls' = calls =>
                         (handed' = handed <=>
                            k \in DOMAIN handed /\ job[p].clock - handed[k].last < Dedup)
<1>1. NotifyInv /\ [Next]_vars => [Exact]_vars
    <2> SUFFICES ASSUME TypeOK, ThrottleInv, [Next]_vars,
                        NEW p \in DOMAIN job, NEW c \in job[p].todo \ job'[p].todo,
                        calls' = calls
                 PROVE  LET k == <<c, Text(job[p].kind, job[p].ev)>> IN
                        handed' = handed <=>
                           k \in DOMAIN handed /\ job[p].clock - handed[k].last < Dedup
        BY DEF NotifyInv
    <2>1. p \in Procs
        BY DEF TypeOK, Procs
    <2>2. Offer(p, c)
        BY <2>1, TodoShrinks DEF ThrottleInv
    <2> QED
        BY <2>1, <2>2, OfferExact
<1> QED
    BY <1>1, NotifyInvariant, PTL DEF Spec, ThrottleExact

=============================================================================
