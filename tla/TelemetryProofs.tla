-------------------------- MODULE TelemetryProofs --------------------------
(***************************************************************************)
(* Proofs about Telemetry for every clock, report, interval and limit:     *)
(* traffic is counted once and in its period, the roll-up holds every      *)
(* sample that the long views owe, no view shows more in use than there    *)
(* is, and a period begins where the calendar says.                        *)
(***************************************************************************)
EXTENDS Telemetry, FiniteSetTheorems, NaturalsInduction, WellFoundedInduction, TLAPS

Row == [total : Nat, last : Nat, on : BOOLEAN, day : Int, start : Int]
Arrival == [node : Nodes, at : Nat, rate : Nat]
Sample == [node : Nodes, t : Nat, used : Nat, total : Nat]
RollupRow == [node : Nodes, hour : Nat, of : SUBSET Sample]
Due == [node : Nodes, start : Int, expected : Int]

TrafficTypeOK ==
    /\ clock \in Nat \ {0}
    /\ row \in [Nodes -> Row]
    /\ pending \subseteq Arrival
    /\ due \subseteq Due
    /\ oldest \in [Nodes -> Int]

TablesTypeOK ==
    /\ raw \subseteq Sample
    /\ owed \subseteq Sample
    /\ rollup \subseteq RollupRow
    /\ cursor \in Nat

TypeOK == TrafficTypeOK /\ TablesTypeOK

-----------------------------------------------------------------------------
(* Numbers.                                                                *)

LEMMA ConstantTypes ==
    /\ Interval \in Nat /\ Skew \in Nat /\ MaxRate \in Nat /\ MaxTotal \in Nat /\ Cap \in Nat
    /\ Instants \subseteq Nat \ {0} /\ ResetDays \subseteq Int /\ RetentionDays \subseteq Nat
    /\ \A r \in Reports : r.used \in Nat /\ r.total \in Nat /\ r.rate \in Nat
BY TelemetryAssumption DEF TelemetryAssumption, Cap, MaxOf

\* A date has whole numbers, whatever the day.
LEMMA CivilTyped ==
  ASSUME NEW days \in Int
  PROVE  /\ civil_from_days(days).y \in Int
         /\ civil_from_days(days).m \in Int
         /\ civil_from_days(days).d \in Int
<1> DEFINE z   == days + 719468
           era == z \div 146097
           doe == z - era * 146097
           yoe == (doe - doe \div 1460 + doe \div 36524 - doe \div 146096) \div 365
           doy == doe - (365 * yoe + yoe \div 4 - yoe \div 100)
           mp  == (5 * doy + 2) \div 153
           m   == IF mp < 10 THEN mp + 3 ELSE mp - 9
           y   == yoe + era * 400 + (IF m <= 2 THEN 1 ELSE 0)
           d   == doy - (153 * mp + 2) \div 5 + 1
<1>1. era \in Int /\ doe \in Int
  OBVIOUS
<1> HIDE DEF z, doe
<1>2. yoe \in Int
  BY <1>1
<1> HIDE DEF yoe, era
<1>3. doy \in Int
  BY <1>1, <1>2
<1> HIDE DEF doy
<1>4. mp \in Int
  BY <1>3
<1> HIDE DEF mp
<1>5. m \in Int
  BY <1>4
<1> HIDE DEF m
<1>6. y \in Int /\ d \in Int
  BY <1>1, <1>2, <1>3, <1>4, <1>5
<1> HIDE DEF y, d
<1>7. civil_from_days(days) = [y |-> y, m |-> m, d |-> d]
  BY DEF civil_from_days, y, m, d, mp, doy, yoe, doe, era, z
<1> QED
  BY <1>5, <1>6, <1>7

LEMMA DaysTyped ==
  ASSUME NEW y \in Int, NEW m \in Int, NEW d \in Int
  PROVE  days_from_civil(y, m, d) \in Int
<1> DEFINE yy  == IF m <= 2 THEN y - 1 ELSE y
           era == yy \div 400
           yoe == yy - era * 400
           mp  == IF m > 2 THEN m - 3 ELSE m + 9
           doy == (153 * mp + 2) \div 5 + d - 1
           n   == era * 146097 + yoe * 365 + yoe \div 4 - yoe \div 100 + doy - 719468
<1>1. era \in Int /\ yoe \in Int
  OBVIOUS
<1> HIDE DEF yoe
<1>2. mp \in Int
  OBVIOUS
<1> HIDE DEF mp, era
<1>3. doy \in Int
  BY <1>2
<1> HIDE DEF doy
<1>4. n \in Int
  BY <1>1, <1>3
<1> HIDE DEF n
<1>5. days_from_civil(y, m, d) = n
  BY DEF days_from_civil, n, doy, mp, yoe, era
<1> QED
  BY <1>4, <1>5

\* The start of a period is a whole number.
LEMMA PeriodTyped ==
  ASSUME NEW moment \in Int, NEW day \in Int
  PROVE  current_period_start(moment, day) \in Int
<1> DEFINE c == civil_from_days(moment \div DaySecs)
<1>1. moment \div DaySecs \in Int
  BY DEF DaySecs
<1>2. c.y \in Int /\ c.m \in Int /\ c.d \in Int
  BY <1>1, CivilTyped
<1> HIDE DEF c
<1> DEFINE start == IF c.d >= day THEN days_from_civil(c.y, c.m, day)
                    ELSE IF c.m = 1 THEN days_from_civil(c.y - 1, 12, day)
                    ELSE days_from_civil(c.y, c.m - 1, day)
<1>3. start \in Int
  <2>1. c.y - 1 \in Int /\ c.m - 1 \in Int /\ 12 \in Int
    BY <1>2
  <2>2. /\ days_from_civil(c.y, c.m, day) \in Int
        /\ days_from_civil(c.y - 1, 12, day) \in Int
        /\ days_from_civil(c.y, c.m - 1, day) \in Int
    BY <1>2, <2>1, DaysTyped
  <2> QED
    BY <2>2
<1> HIDE DEF start
<1>4. current_period_start(moment, day) = DaySecs * start
  BY DEF current_period_start, start, c
<1> QED
  BY <1>3, <1>4 DEF DaySecs

\* The hour of a second.
LEMMA HourBounds ==
  ASSUME NEW t \in Nat
  PROVE  Hour(t) \in Nat /\ Hour(t) <= t /\ t < Hour(t) + 3600
BY DEF Hour, HourSecs

LEMMA HourIsFull ==
  ASSUME NEW t \in Nat
  PROVE  \E k \in Nat : Hour(t) = 3600 * k
<1> DEFINE h == t \div 3600
<1>1. h \in Nat
  OBVIOUS
<1>2. Hour(t) = 3600 * h
  BY <1>1 DEF Hour, HourSecs
<1> HIDE DEF h
<1> QED
  BY <1>1, <1>2

\* A second is before a full hour just when its hour is.
LEMMA HourIsLast ==
  ASSUME NEW t \in Nat, NEW k \in Int
  PROVE  3600 * k <= t <=> 3600 * k <= Hour(t)
<1> DEFINE h == t \div 3600
<1>1. h \in Nat /\ 3600 * h <= t /\ t < 3600 * h + 3600
  OBVIOUS
<1>2. Hour(t) = 3600 * h
  BY <1>1 DEF Hour, HourSecs
<1> HIDE DEF h
<1> QED
  BY <1>1, <1>2
-----------------------------------------------------------------------------
(* Types.                                                                  *)

LEMMA TypesInit == Init => TypeOK
<1> SUFFICES ASSUME Init
             PROVE  TypeOK
  OBVIOUS
<1>1. row \in [Nodes -> Row]
  <2>1. {[total |-> 0, last |-> 0, on |-> o, day |-> 1, start |-> 0] : o \in BOOLEAN} \subseteq Row
    BY DEF Row
  <2> QED
    BY <2>1 DEF Init
<1>2. clock \in Nat \ {0}
  BY ConstantTypes DEF Init
<1>3. TrafficTypeOK
  BY <1>1, <1>2 DEF Init, TrafficTypeOK
<1>4. TablesTypeOK
  <2>1. raw = {} /\ owed = {} /\ rollup = {} /\ cursor = 0
    BY DEF Init
  <2>2. raw \subseteq Sample /\ owed \subseteq Sample /\ rollup \subseteq RollupRow
    BY <2>1
  <2> QED
    BY <2>1, <2>2 DEF TablesTypeOK
<1> QED
  BY <1>3, <1>4 DEF TypeOK

\* What accumulate computes.
LEMMA AccumulateTyped ==
  ASSUME TrafficTypeOK, NEW p \in pending, NEW secs, NEW more,
         secs = IF row[p.node].last > 0 THEN MinOf(p.at - row[p.node].last, Cap) ELSE 0,
         more = MinOf(p.rate, MaxRate) * secs,
         p.at > row[p.node].last
  PROVE  /\ p.node \in Nodes /\ p.at \in Nat /\ row[p.node] \in Row
         /\ secs \in Nat /\ secs <= p.at - row[p.node].last /\ secs <= Cap
         /\ more \in Nat
         /\ more > 0 => secs > 0 /\ row[p.node].last > 0
         /\ MinOf(p.rate, MaxRate) \in Nat /\ MinOf(p.rate, MaxRate) <= MaxRate
         /\ MinOf(row[p.node].total + more, MaxTotal) \in Nat
<1>1. p.node \in Nodes /\ p.at \in Nat /\ p.rate \in Nat
  BY DEF TrafficTypeOK, Arrival
<1>2. row[p.node] \in Row
  BY <1>1 DEF TrafficTypeOK
<1>3. row[p.node].last \in Nat /\ row[p.node].total \in Nat
  BY <1>2 DEF Row
<1>4. secs \in Nat /\ secs <= p.at - row[p.node].last /\ secs <= Cap /\ (secs > 0 => row[p.node].last > 0)
  BY <1>1, <1>3, ConstantTypes DEF MinOf
<1>5. MinOf(p.rate, MaxRate) \in Nat /\ MinOf(p.rate, MaxRate) <= MaxRate
  BY <1>1, ConstantTypes DEF MinOf
<1>6. more \in Nat /\ (more > 0 => secs > 0)
  <2>1. \A a, b \in Nat : a * b \in Nat /\ (a * b > 0 => b > 0)
    OBVIOUS
  <2> QED
    BY <1>4, <1>5, <2>1, Zenon
<1>7. MinOf(row[p.node].total + more, MaxTotal) \in Nat
  BY <1>3, <1>6, ConstantTypes DEF MinOf
<1> QED
  BY <1>1, <1>2, <1>4, <1>5, <1>6, <1>7

\* What a report, or a back-filled point, puts into the tables.
LEMMA StoredTyped ==
  ASSUME NEW n \in Nodes, NEW t \in Nat, NEW report \in Reports, NEW r \in Cleaned(report)
  PROVE  /\ Stored([node |-> n, t |-> t, used |-> r.used, total |-> r.total]) \subseteq
               {[node |-> n, t |-> t, used |-> r.used, total |-> r.total]}
         /\ [node |-> n, t |-> t, used |-> r.used, total |-> r.total] \in Sample
         /\ r.rate \in Nat
<1>1. r = [report EXCEPT !.used = MinOf(@, report.total)]
  BY DEF Cleaned
<1>2. report \in [finite : BOOLEAN, used : Nat, total : Nat, rate : Nat]
  BY TelemetryAssumption DEF TelemetryAssumption
<1>3. r.used \in Nat /\ r.total \in Nat /\ r.rate \in Nat
  BY <1>1, <1>2 DEF MinOf
<1> QED
  BY <1>3 DEF Stored, Sample

LEMMA TrafficTypesStep == TypeOK /\ [Next]_vars => TrafficTypeOK'
<1> SUFFICES ASSUME TypeOK, [Next]_vars
             PROVE  TrafficTypeOK'
  OBVIOUS
<1> USE DEF TypeOK
<1>same. ASSUME UNCHANGED <<clock, traffic, due>> PROVE TrafficTypeOK'
  BY <1>same DEF TrafficTypeOK, traffic
<1>1. CASE Tick \/ RollUp \/ Purge \/ Expire \/ RoundEnds \/ UNCHANGED vars
  BY <1>same, <1>1 DEF Tick, RollUp, Purge, Expire, RoundEnds, vars, traffic
<1>2. CASE SweepRead
  <2>1. due' \subseteq [node : Nodes, start : {row[n].start : n \in Nodes},
                        expected : {current_period_start(clock, row[n].day) : n \in Nodes}]
    BY <1>2 DEF SweepRead
  <2>2. \A n \in Nodes : row[n].start \in Int /\ current_period_start(clock, row[n].day) \in Int
    <3>1. \A n \in Nodes : row[n] \in Row
      BY DEF TrafficTypeOK
    <3>2. \A n \in Nodes : row[n].start \in Int /\ row[n].day \in Int
      BY <3>1 DEF Row
    <3>3. clock \in Int
      BY DEF TrafficTypeOK
    <3> QED
      BY <3>2, <3>3, PeriodTyped
  <2>3. due' \subseteq Due
    BY <2>1, <2>2 DEF Due
  <2> QED
    BY <1>2, <2>3 DEF SweepRead, traffic, TrafficTypeOK
<1>3. ASSUME NEW d \in due, SweepWrite(d)
      PROVE  TrafficTypeOK'
  <2>1. d.node \in Nodes /\ d.expected \in Int
    BY DEF TrafficTypeOK, Due
  <2>2. row[d.node] \in Row
    BY <2>1 DEF TrafficTypeOK
  <2>3. /\ [row[d.node] EXCEPT !.start = d.expected] \in Row
        /\ [row[d.node] EXCEPT !.total = 0, !.start = d.expected] \in Row
    BY <2>1, <2>2 DEF Row
  <2>4. row' \in [Nodes -> Row]
    <3>1. \/ UNCHANGED row
          \/ row' = [row EXCEPT ![d.node].start = d.expected]
          \/ row' = [row EXCEPT ![d.node] = [@ EXCEPT !.total = 0, !.start = d.expected]]
      BY <1>3 DEF SweepWrite
    <3> QED
      BY <2>1, <2>3, <3>1 DEF TrafficTypeOK
  <2>5. oldest' \in [Nodes -> Int]
    BY <1>3, <2>1 DEF SweepWrite, TrafficTypeOK
  <2> QED
    BY <1>3, <2>4, <2>5 DEF SweepWrite, TrafficTypeOK
<1>4. CASE Restart
  BY <1>4 DEF Restart, TrafficTypeOK
<1>5. ASSUME NEW t \in Instants, ClockShows(t)
      PROVE  TrafficTypeOK'
  BY <1>5, ConstantTypes DEF ClockShows, traffic, TrafficTypeOK
<1>6. ASSUME NEW p \in pending, Accumulate(p)
      PROVE  TrafficTypeOK'
  <2> DEFINE r    == row[p.node]
             secs == IF r.last > 0 THEN MinOf(p.at - r.last, Cap) ELSE 0
             more == MinOf(p.rate, MaxRate) * secs
  <2>1. CASE /\ p.at > r.last
             /\ row' = [row EXCEPT ![p.node] =
                          [@ EXCEPT !.total = MinOf(r.total + more, MaxTotal), !.last = p.at]]
             /\ oldest' = oldest \/ oldest' = [oldest EXCEPT ![p.node] = p.at - secs]
    <3>1. /\ p.node \in Nodes /\ p.at \in Nat /\ r \in Row /\ secs \in Nat
          /\ MinOf(r.total + more, MaxTotal) \in Nat
      BY <2>1, AccumulateTyped
    <3>2. /\ row' = [row EXCEPT ![p.node] =
                       [@ EXCEPT !.total = MinOf(r.total + more, MaxTotal), !.last = p.at]]
          /\ oldest' = oldest \/ oldest' = [oldest EXCEPT ![p.node] = p.at - secs]
      BY <2>1
    <3> HIDE DEF secs, more
    <3>3. [r EXCEPT !.total = MinOf(r.total + more, MaxTotal), !.last = p.at] \in Row
      BY <3>1 DEF Row
    <3>4. row' \in [Nodes -> Row] /\ oldest' \in [Nodes -> Int]
      BY <3>1, <3>2, <3>3 DEF TrafficTypeOK
    <3> QED
      BY <1>6, <3>4 DEF Accumulate, TrafficTypeOK
  <2>2. CASE UNCHANGED <<row, oldest>>
    BY <1>6, <2>2 DEF Accumulate, TrafficTypeOK
  <2> QED
    BY <1>6, <2>1, <2>2 DEF Accumulate
<1>7. ASSUME NEW n \in Nodes, NEW t \in Instants, NEW report \in Reports, Metrics(n, t, report)
      PROVE  TrafficTypeOK'
  <2>1. PICK r \in Cleaned(report) :
           pending' = pending \cup {[node |-> n, at |-> clock, rate |-> r.rate]}
    BY <1>7 DEF Metrics
  <2>2. clock \in Nat
    BY DEF TrafficTypeOK
  <2>3. [node |-> n, at |-> clock, rate |-> r.rate] \in Arrival
    BY <2>2, StoredTyped DEF Arrival
  <2> QED
    BY <1>7, <2>1, <2>3 DEF Metrics, TrafficTypeOK
<1>8. ASSUME NEW n \in Nodes, NEW t \in Instants, NEW report \in Reports, Backfill(n, t, report)
      PROVE  TrafficTypeOK'
  BY <1>same, <1>8 DEF Backfill
<1>9. ASSUME NEW n \in Nodes, NEW on \in BOOLEAN, NEW d \in ResetDays, Rename(n, on, d)
      PROVE  TrafficTypeOK'
  <2> DEFINE start == IF on THEN current_period_start(clock, d) ELSE 0
  <2>1. start \in Int /\ d \in Int
    BY ConstantTypes, PeriodTyped DEF TrafficTypeOK
  <2>2. row' = [row EXCEPT ![n] = [@ EXCEPT !.on = on, !.day = d, !.start = start]]
    BY <1>9 DEF Rename
  <2> HIDE DEF start
  <2>3. row[n] \in Row
    BY DEF TrafficTypeOK
  <2>4. [row[n] EXCEPT !.on = on, !.day = d, !.start = start] \in Row
    BY <2>1, <2>3 DEF Row
  <2>5. row' \in [Nodes -> Row]
    BY <2>2, <2>4 DEF TrafficTypeOK
  <2> QED
    BY <1>9, <2>5 DEF Rename, TrafficTypeOK
<1> QED
  BY <1>1, <1>2, <1>3, <1>4, <1>5, <1>6, <1>7, <1>8, <1>9 DEF Next, Round

-----------------------------------------------------------------------------
(* The counters.                                                           *)

\* A node that has counted nothing has no earliest second; what it has counted
\* fits between that second and its last.
CountInv ==
    \A n \in Nodes :
        /\ oldest[n] = 0 => row[n].total = 0
        /\ oldest[n] # 0 => /\ oldest[n] <= row[n].last
                            /\ row[n].total <= MaxRate * (row[n].last - oldest[n])
                            /\ row[n].total = 0 => MaxTotal = 0

\* What waits to be counted for a node that is not mixed is of its period, and so
\* is what has been counted.
PeriodInv ==
    \A n \in Nodes \ mixed : row[n].on =>
        /\ \A p \in pending : p.node = n => p.at >= row[n].start
        /\ row[n].total > 0 => oldest[n] >= row[n].start - Cap

CounterInv == TypeOK /\ CountInv /\ PeriodInv

\* What a node has counted when it counts more.
LEMMA RateOverTime ==
  ASSUME NEW rate \in Nat, NEW top \in Nat, rate <= top, NEW secs \in Nat,
         NEW last \in Int, NEW first \in Int, NEW at \in Int,
         NEW total \in Nat, first <= last, secs <= at - last, total <= top * (last - first)
  PROVE  total + rate * secs <= top * (at - first)
<1>1. \A a, b, c \in Nat : a <= b => a * c <= b * c
  OBVIOUS
<1>2. \A a, b, c \in Nat : b <= c => a * b <= a * c
  OBVIOUS
<1>3. rate * secs <= top * secs
  BY <1>1
<1>4. at - last \in Nat /\ last - first \in Nat
  OBVIOUS
<1>5. top * secs <= top * (at - last)
  BY <1>2, <1>4
<1>6. top * (last - first) + top * (at - last) = top * (at - first)
  <2>1. \A a, b, c \in Int : a * b + a * c = a * (b + c)
    OBVIOUS
  <2>2. (last - first) + (at - last) = at - first
    OBVIOUS
  <2> QED
    BY <1>4, <2>1, <2>2
<1>7. rate * secs \in Int /\ top * secs \in Int /\ top * (at - last) \in Int
      /\ top * (last - first) \in Int /\ top * (at - first) \in Int
  BY <1>4
<1> DEFINE a == rate * secs
           b == top * secs
           c == top * (at - last)
           d == top * (last - first)
           e == top * (at - first)
<1>8. a <= b /\ b <= c /\ d + c = e /\ total <= d
  BY <1>3, <1>5, <1>6
<1>9. a \in Int /\ b \in Int /\ c \in Int /\ d \in Int /\ e \in Int
  BY <1>7
<1> HIDE DEF a, b, c, d, e
<1>10. total + a <= e
  BY <1>8, <1>9
<1> QED
  BY <1>10 DEF a, e

\* A second is counted once (accumulate).
LEMMA AccumulateCounts ==
  ASSUME CounterInv, NEW p \in pending, Accumulate(p)
  PROVE  CountInv' /\ PeriodInv'
<1> USE DEF CounterInv, TypeOK
<1> DEFINE m    == p.node
           r    == row[m]
           secs == IF r.last > 0 THEN MinOf(p.at - r.last, Cap) ELSE 0
           more == MinOf(p.rate, MaxRate) * secs
           total == MinOf(r.total + more, MaxTotal)
<1>1. CASE UNCHANGED <<row, oldest>>
  <2>1. UNCHANGED <<row, oldest, mixed>> /\ pending' \subseteq pending
    BY <1>1 DEF Accumulate
  <2> QED
    BY <2>1 DEF CountInv, PeriodInv
<1>2. CASE /\ p.at > r.last
           /\ row' = [row EXCEPT ![m] = [@ EXCEPT !.total = total, !.last = p.at]]
           /\ oldest' = IF more > 0 /\ oldest[m] = 0
                        THEN [oldest EXCEPT ![m] = p.at - secs] ELSE oldest
  <2>1. /\ m \in Nodes /\ p.at \in Nat /\ r \in Row
        /\ secs \in Nat /\ secs <= p.at - r.last /\ secs <= Cap
        /\ more \in Nat
        /\ more > 0 => secs > 0 /\ r.last > 0
        /\ MinOf(p.rate, MaxRate) \in Nat /\ MinOf(p.rate, MaxRate) <= MaxRate
        /\ total \in Nat
    BY <1>2, AccumulateTyped
  <2>2. /\ row' = [row EXCEPT ![m] = [@ EXCEPT !.total = total, !.last = p.at]]
        /\ oldest' = IF more > 0 /\ oldest[m] = 0
                     THEN [oldest EXCEPT ![m] = p.at - secs] ELSE oldest
        /\ pending' \subseteq pending /\ UNCHANGED mixed
    BY <1>2 DEF Accumulate
  <2>3. r.total \in Nat /\ r.last \in Nat /\ r.start \in Int
        /\ MaxTotal \in Nat /\ MaxRate \in Nat /\ Cap \in Nat
    BY <2>1, ConstantTypes DEF Row
  <2>4. \A n \in Nodes \ {m} : row'[n] = row[n] /\ oldest'[n] = oldest[n]
    BY <2>1, <2>2 DEF TrafficTypeOK
  <2>5. row'[m].total = total /\ row'[m].last = p.at /\ row'[m].on = r.on /\ row'[m].start = r.start
    BY <2>1, <2>2 DEF TrafficTypeOK, Row
  <2>6. oldest'[m] = IF more > 0 /\ oldest[m] = 0 THEN p.at - secs ELSE oldest[m]
    BY <2>1, <2>2 DEF TrafficTypeOK
  <2>7. oldest[m] \in Int
    BY <2>1 DEF TrafficTypeOK
  <2>8. total <= r.total + more /\ total <= MaxTotal /\ (total = 0 => r.total + more = 0 \/ MaxTotal = 0)
    BY <2>1, <2>3 DEF MinOf
  <2> HIDE DEF total
  <2>9. CountInv'
    <3>1. CASE oldest[m] = 0 /\ more > 0
      <4>1. oldest'[m] = p.at - secs /\ p.at - secs > 0 /\ r.total = 0
        BY <2>1, <2>3, <2>6, <3>1 DEF CountInv
      <4>2. 0 <= MaxRate * (r.last - r.last)
        BY <2>3
      <4>3. r.total + more <= MaxRate * (p.at - (p.at - secs))
        <5> DEFINE first == p.at - secs
        <5>1. more <= MaxRate * secs
          <6>1. \A a, b, c \in Nat : a <= b => a * c <= b * c
            OBVIOUS
          <6> HIDE DEF secs
          <6> QED
            BY <2>1, <2>3, <6>1
        <5>2. p.at - (p.at - secs) = secs
          BY <2>1
        <5> HIDE DEF more, secs
        <5> QED
          BY <2>1, <2>3, <4>1, <5>1, <5>2
      <4> DEFINE bound == MaxRate * (p.at - (p.at - secs))
      <4>4. bound \in Int
        BY <2>1, <2>3
      <4>5. r.total + more <= bound
        BY <4>3
      <4> HIDE DEF more, secs, bound
      <4>6. total <= bound
        BY <2>1, <2>3, <2>8, <4>4, <4>5
      <4>7. /\ oldest'[m] # 0 /\ oldest'[m] <= row'[m].last
            /\ row'[m].total <= MaxRate * (row'[m].last - oldest'[m])
            /\ row'[m].total = 0 => MaxTotal = 0
        BY <2>1, <2>3, <2>5, <2>8, <3>1, <4>1, <4>6 DEF bound
      <4> QED
        BY <2>1, <2>4, <4>7 DEF CountInv
    <3>2. CASE oldest[m] = 0 /\ ~(more > 0)
      <4>1. more = 0 /\ r.total = 0 /\ oldest'[m] = 0
        BY <2>1, <2>6, <3>2 DEF CountInv
      <4> HIDE DEF more
      <4>2. row'[m].total = 0
        BY <2>1, <2>3, <2>5, <2>8, <4>1
      <4> QED
        BY <2>4, <4>1, <4>2 DEF CountInv
    <3>3. CASE oldest[m] # 0
      <4>1. /\ oldest'[m] = oldest[m] /\ oldest[m] <= r.last
            /\ r.total <= MaxRate * (r.last - oldest[m])
            /\ r.total = 0 => MaxTotal = 0
        BY <2>1, <2>6, <3>3 DEF CountInv
      <4> DEFINE rate == MinOf(p.rate, MaxRate)
                 bound == MaxRate * (p.at - oldest[m])
      <4>2. rate \in Nat /\ rate <= MaxRate
        BY <2>1
      <4> HIDE DEF rate, secs
      <4>3. r.total + rate * secs <= bound
        <5>1. r.last \in Int /\ p.at \in Int /\ secs \in Nat /\ secs <= p.at - r.last
          BY <2>1, <2>3
        <5> QED
          BY <2>3, <2>7, <4>1, <4>2, <5>1, RateOverTime, Zenon
      <4>4. more = rate * secs
        BY DEF rate
      <4>5. bound \in Int
        BY <2>1, <2>3, <2>7
      <4> HIDE DEF more, bound
      <4>6. total <= bound
        BY <2>1, <2>3, <2>8, <4>3, <4>4, <4>5
      <4>7. oldest'[m] <= row'[m].last /\ (row'[m].total = 0 => MaxTotal = 0)
        BY <1>2, <2>1, <2>3, <2>5, <2>7, <2>8, <4>1
      <4>8. row'[m].total <= MaxRate * (row'[m].last - oldest'[m])
        BY <2>5, <4>1, <4>6 DEF bound
      <4> QED
        BY <2>4, <3>3, <4>1, <4>7, <4>8 DEF CountInv
    <3> QED
      BY <3>1, <3>2, <3>3
  <2>10. PeriodInv'
    <3>1. ASSUME m \notin mixed, r.on, total > 0
          PROVE  oldest'[m] >= r.start - Cap
      <4>1. p.at >= r.start /\ (r.total > 0 => oldest[m] >= r.start - Cap)
        BY <2>1, <3>1 DEF PeriodInv
      <4>2. CASE oldest[m] # 0
        <5>1. r.total > 0
          BY <2>1, <2>3, <2>8, <3>1, <4>2 DEF CountInv
        <5> QED
          BY <2>6, <4>1, <4>2, <5>1
      <4>3. CASE oldest[m] = 0
        <5>1. more > 0
          <6>1. r.total = 0
            BY <2>1, <4>3 DEF CountInv
          <6> HIDE DEF more
          <6> QED
            BY <2>1, <2>3, <2>8, <3>1, <6>1
        <5>2. oldest'[m] = p.at - secs
          BY <2>6, <4>3, <5>1
        <5> HIDE DEF secs
        <5> QED
          BY <2>1, <2>3, <4>1, <5>2
      <4> QED
        BY <4>2, <4>3
    <3> QED
      BY <2>2, <2>4, <2>5, <3>1 DEF PeriodInv
  <2> QED
    BY <2>9, <2>10
<1> QED
  BY <1>1, <1>2 DEF Accumulate

\* Every step keeps the counters and their periods.
LEMMA CountersStep == CounterInv /\ [Next]_vars => CountInv' /\ PeriodInv'
<1> SUFFICES ASSUME CounterInv, [Next]_vars
             PROVE  CountInv' /\ PeriodInv'
  OBVIOUS
<1> USE DEF CounterInv, TypeOK
<1>same. ASSUME UNCHANGED <<row, oldest, mixed>>, pending' \subseteq pending
         PROVE  CountInv' /\ PeriodInv'
  BY <1>same DEF CountInv, PeriodInv
<1>1. CASE Tick \/ RollUp \/ Purge \/ Expire \/ RoundEnds \/ SweepRead \/ Restart \/ UNCHANGED vars
  BY <1>same, <1>1 DEF Tick, RollUp, Purge, Expire, RoundEnds, SweepRead, Restart, vars, traffic
<1>2. ASSUME NEW d \in due, SweepWrite(d)
      PROVE  CountInv' /\ PeriodInv'
  <2> DEFINE n == d.node
  <2>1. n \in Nodes /\ d.expected \in Int /\ row \in [Nodes -> Row] /\ oldest \in [Nodes -> Int]
        /\ row[n] \in Row /\ UNCHANGED pending
    BY <1>2 DEF TrafficTypeOK, Due, SweepWrite
  <2>2. CASE UNCHANGED <<row, oldest, mixed>>
    BY <1>same, <2>1, <2>2
  <2>3. CASE row' = [row EXCEPT ![n].start = d.expected] /\ mixed' = mixed \cup {n} /\ UNCHANGED oldest
    <3>1. \A m \in Nodes : row'[m].total = row[m].total /\ row'[m].last = row[m].last
      BY <2>1, <2>3 DEF Row
    <3>2. \A m \in Nodes \ mixed' : m \notin mixed /\ row'[m] = row[m]
      BY <2>1, <2>3
    <3> QED
      BY <2>1, <2>3, <3>1, <3>2 DEF CountInv, PeriodInv
  <2>4. CASE /\ row' = [row EXCEPT ![n] = [@ EXCEPT !.total = 0, !.start = d.expected]]
             /\ oldest' = [oldest EXCEPT ![n] = 0]
             /\ mixed' = IF Straddles(n, d.expected) THEN mixed \cup {n} ELSE mixed \ {n}
    <3>1. row'[n].total = 0 /\ row'[n].start = d.expected /\ oldest'[n] = 0
      BY <2>1, <2>4 DEF Row
    <3>2. \A m \in Nodes \ {n} :
             row'[m] = row[m] /\ oldest'[m] = oldest[m] /\ (m \notin mixed' => m \notin mixed)
      BY <2>1, <2>4
    <3>3. CountInv'
      BY <3>1, <3>2 DEF CountInv
    <3>4. n \notin mixed' => \A p \in pending' : p.node = n => p.at >= row'[n].start
      <4>1. n \notin mixed' => ~Straddles(n, d.expected)
        BY <2>4
      <4>2. \A p \in pending : p.at \in Int
        BY DEF TrafficTypeOK, Arrival
      <4> QED
        BY <2>1, <3>1, <4>1, <4>2 DEF Straddles
    <3>5. PeriodInv'
      <4>1. ASSUME NEW m \in Nodes \ mixed', row'[m].on
            PROVE  /\ \A p \in pending' : p.node = m => p.at >= row'[m].start
                   /\ row'[m].total > 0 => oldest'[m] >= row'[m].start - Cap
        <5>1. CASE m = n
          BY <3>1, <3>4, <4>1, <5>1
        <5>2. CASE m # n
          BY <2>1, <3>2, <4>1, <5>2 DEF PeriodInv
        <5> QED
          BY <5>1, <5>2
      <4> QED
        BY <4>1 DEF PeriodInv
    <3> QED
      BY <3>3, <3>5
  <2> QED
    BY <1>2, <2>2, <2>3, <2>4 DEF SweepWrite
<1>3. ASSUME NEW t \in Instants, ClockShows(t)
      PROVE  CountInv' /\ PeriodInv'
  BY <1>same, <1>3 DEF ClockShows, traffic
<1>4. ASSUME NEW n \in Nodes, NEW t \in Instants, NEW report \in Reports, Metrics(n, t, report)
      PROVE  CountInv' /\ PeriodInv'
  <2>1. PICK r \in Cleaned(report) :
           pending' = pending \cup {[node |-> n, at |-> clock, rate |-> r.rate]}
    BY <1>4 DEF Metrics
  <2>2. UNCHANGED <<row, oldest>> /\ mixed' = IF clock < row[n].start THEN mixed \cup {n} ELSE mixed
    BY <1>4 DEF Metrics
  <2>3. CountInv'
    BY <2>2 DEF CountInv
  <2>4. clock \in Int /\ row[n].start \in Int
    BY DEF TrafficTypeOK, Row
  <2>5. ASSUME NEW m \in Nodes \ mixed', row'[m].on, NEW p \in pending', p.node = m
        PROVE  p.at >= row'[m].start
    <3>1. CASE p \in pending
      BY <2>2, <2>5, <3>1 DEF PeriodInv
    <3>2. CASE p = [node |-> n, at |-> clock, rate |-> r.rate]
      BY <2>2, <2>4, <2>5, <3>2
    <3> QED
      BY <2>1, <2>5, <3>1, <3>2
  <2>6. PeriodInv'
    BY <2>2, <2>5 DEF PeriodInv
  <2> QED
    BY <2>3, <2>6
<1>5. ASSUME NEW n \in Nodes, NEW t \in Instants, NEW report \in Reports, Backfill(n, t, report)
      PROVE  CountInv' /\ PeriodInv'
  BY <1>same, <1>5 DEF Backfill, traffic
<1>6. ASSUME NEW n \in Nodes, NEW on \in BOOLEAN, NEW day \in ResetDays, Rename(n, on, day)
      PROVE  CountInv' /\ PeriodInv'
  <2> DEFINE start == IF on THEN current_period_start(clock, day) ELSE 0
  <2>1. start \in Int
    BY ConstantTypes, PeriodTyped DEF TrafficTypeOK
  <2>2. /\ row' = [row EXCEPT ![n] = [@ EXCEPT !.on = on, !.day = day, !.start = start]]
        /\ mixed' = IF row[n].total > 0 \/ Straddles(n, start) THEN mixed \cup {n} ELSE mixed \ {n}
        /\ UNCHANGED <<pending, oldest>>
    BY <1>6 DEF Rename
  <2> HIDE DEF start
  <2>3. row \in [Nodes -> Row] /\ row[n] \in Row
    BY DEF TrafficTypeOK
  <2>4. row'[n].total = row[n].total /\ row'[n].last = row[n].last /\ row'[n].start = start
    BY <2>2, <2>3 DEF Row
  <2>5. \A m \in Nodes \ {n} : row'[m] = row[m] /\ (m \notin mixed' => m \notin mixed)
    BY <2>2, <2>3
  <2>6. CountInv'
    BY <2>2, <2>4, <2>5 DEF CountInv
  <2>7. n \notin mixed' => /\ ~(row'[n].total > 0)
                           /\ \A p \in pending' : p.node = n => p.at >= row'[n].start
    <3>1. n \notin mixed' => ~(row[n].total > 0) /\ ~Straddles(n, start)
      BY <2>2
    <3>2. \A p \in pending : p.at \in Int
      BY DEF TrafficTypeOK, Arrival
    <3> QED
      BY <2>1, <2>2, <2>4, <3>1, <3>2 DEF Straddles
  <2>8. PeriodInv'
    <3>1. ASSUME NEW m \in Nodes \ mixed', row'[m].on
          PROVE  /\ \A p \in pending' : p.node = m => p.at >= row'[m].start
                 /\ row'[m].total > 0 => oldest'[m] >= row'[m].start - Cap
      <4>1. CASE m = n
        BY <2>7, <3>1, <4>1
      <4>2. CASE m # n
        BY <2>2, <2>5, <3>1, <4>2 DEF PeriodInv
      <4> QED
        BY <4>1, <4>2
    <3> QED
      BY <3>1 DEF PeriodInv
  <2> QED
    BY <2>6, <2>8
<1> QED
  BY <1>1, <1>2, <1>3, <1>4, <1>5, <1>6, AccumulateCounts DEF Next, Round

-----------------------------------------------------------------------------
(* The roll-up.                                                            *)

\* The cursor stands on a full hour; a row holds samples of its node and hour; a
\* sample that is owed is still there as long as the next roll-up reaches it.
RollupInv ==
    /\ \E k \in Nat : cursor = 3600 * k
    /\ \A r \in rollup : \A s \in r.of : s.node = r.node /\ Hour(s.t) = r.hour
    /\ \A s \in owed : s \in raw \/ s.t < cursor - RerollSecs

HistoryInv == TypeOK /\ RollupInv /\ HistoryComplete

LEMMA TablesTypesStep == TypeOK /\ [Next]_vars => TablesTypeOK'
<1> SUFFICES ASSUME TypeOK, [Next]_vars
             PROVE  TablesTypeOK'
  OBVIOUS
<1> USE DEF TypeOK
<1>same. ASSUME UNCHANGED tables PROVE TablesTypeOK'
  BY <1>same DEF TablesTypeOK, tables
<1>1. CASE Tick \/ RoundEnds \/ SweepRead \/ UNCHANGED vars
  BY <1>same, <1>1 DEF Tick, RoundEnds, SweepRead, vars, tables
<1>2. ASSUME NEW d \in due, SweepWrite(d)
      PROVE  TablesTypeOK'
  BY <1>same, <1>2 DEF SweepWrite
<1>3. CASE Restart
  BY <1>same, <1>3 DEF Restart
<1>4. ASSUME NEW t \in Instants, ClockShows(t)
      PROVE  TablesTypeOK'
  BY <1>same, <1>4 DEF ClockShows
<1>5. ASSUME NEW p \in pending, Accumulate(p)
      PROVE  TablesTypeOK'
  BY <1>same, <1>5 DEF Accumulate
<1>6. ASSUME NEW n \in Nodes, NEW on \in BOOLEAN, NEW d \in ResetDays, Rename(n, on, d)
      PROVE  TablesTypeOK'
  BY <1>same, <1>6 DEF Rename
<1>7. ASSUME NEW new \in SUBSET Sample, raw' = raw \cup new, owed' \subseteq owed \cup new,
             UNCHANGED <<rollup, cursor>>
      PROVE  TablesTypeOK'
  BY <1>7 DEF TablesTypeOK
<1>8. ASSUME NEW n \in Nodes, NEW t \in Instants, NEW report \in Reports, Metrics(n, t, report)
      PROVE  TablesTypeOK'
  <2>1. PICK r \in Cleaned(report) :
           LET new == Stored([node |-> n, t |-> clock, used |-> r.used, total |-> r.total])
           IN  /\ raw' = raw \cup new
               /\ owed' = owed \cup (IF OnTime(clock) THEN new ELSE {})
    BY <1>8 DEF Metrics
  <2>2. Stored([node |-> n, t |-> clock, used |-> r.used, total |-> r.total]) \subseteq Sample
    BY StoredTyped DEF TrafficTypeOK
  <2> QED
    BY <1>7, <1>8, <2>1, <2>2 DEF Metrics
<1>9. ASSUME NEW n \in Nodes, NEW t \in Instants, NEW report \in Reports, Backfill(n, t, report)
      PROVE  TablesTypeOK'
  <2>1. PICK r \in Cleaned(report) :
           LET new == Stored([node |-> n, t |-> t, used |-> r.used, total |-> r.total])
           IN  /\ raw' = raw \cup new
               /\ owed' = owed \cup (IF OnTime(clock) THEN new ELSE {})
    BY <1>9 DEF Backfill
  <2>2. Stored([node |-> n, t |-> t, used |-> r.used, total |-> r.total]) \subseteq Sample
    BY ConstantTypes, StoredTyped
  <2> QED
    BY <1>7, <1>9, <2>1, <2>2 DEF Backfill
<1>10. CASE RollUp
  <2>1. clock \in Nat /\ Hour(clock) \in Nat
    BY HourBounds DEF TrafficTypeOK
  <2>2. ASSUME NEW from, NEW to
        PROVE  Replacing(Aggregated(from, to)) \subseteq RollupRow
    <3>1. Aggregated(from, to) \subseteq RollupRow
      <4>1. \A s \in raw : s.node \in Nodes /\ Hour(s.t) \in Nat
        <5>1. \A s \in raw : s \in Sample
          BY DEF TablesTypeOK
        <5>2. \A s \in Sample : s.node \in Nodes /\ s.t \in Nat
          BY DEF Sample
        <5>3. \A t \in Nat : Hour(t) \in Nat
          BY HourBounds
        <5> QED
          BY <5>1, <5>2, <5>3
      <4>2. ASSUME NEW s \in raw
            PROVE  [node |-> s.node, hour |-> Hour(s.t),
                    of |-> {o \in {q \in raw : from <= q.t /\ q.t < to} :
                               o.node = s.node /\ Hour(o.t) = Hour(s.t)}] \in RollupRow
        BY <4>1 DEF RollupRow, TablesTypeOK
      <4> QED
        BY <4>2 DEF Aggregated
    <3> QED
      BY <3>1 DEF Replacing, TablesTypeOK
  <2>3. rollup' \subseteq RollupRow
    <3>1. PICK from, to : rollup' = rollup \/ rollup' = Replacing(Aggregated(from, to))
      BY <1>10 DEF RollUp
    <3> QED
      BY <2>2, <3>1 DEF TablesTypeOK
  <2>4. cursor' \in Nat /\ owed' \subseteq owed
    BY <1>10, <2>1 DEF RollUp, TablesTypeOK
  <2> QED
    BY <1>10, <2>3, <2>4 DEF RollUp, TablesTypeOK
<1>11. CASE Purge
  <2>1. raw' \subseteq raw /\ owed' \subseteq owed
    BY <1>11 DEF Purge
  <2> QED
    BY <1>11, <2>1 DEF Purge, TablesTypeOK
<1>12. CASE Expire
  <2>1. rollup' \subseteq rollup /\ owed' \subseteq owed
    BY <1>12 DEF Expire
  <2> QED
    BY <1>12, <2>1 DEF Expire, TablesTypeOK
<1> QED
  BY <1>1, <1>2, <1>3, <1>4, <1>5, <1>6, <1>8, <1>9, <1>10, <1>11, <1>12 DEF Next, Round


-----------------------------------------------------------------------------
(* The history.                                                            *)

\* A sample the long views have is in the roll-up or waits for it.
Kept(s) == \/ \E r \in rollup : s \in r.of
           \/ s \in raw /\ Hour(s.t) >= cursor - RerollSecs

\* Where a roll-up starts, whether it could read the cursor or not.
LEMMA CursorShape ==
  ASSUME TypeOK, RollupInv, NEW read \in {cursor, 0}
  PROVE  /\ cursor \in Nat /\ \E k \in Int : cursor - RerollSecs = 3600 * k
         /\ MaxOf(read - RerollSecs, 0) \in Nat
         /\ read = cursor => MaxOf(read - RerollSecs, 0) >= cursor - RerollSecs
         /\ \E k \in Nat : MaxOf(read - RerollSecs, 0) = 3600 * k
<1>1. PICK k \in Nat : cursor = 3600 * k
  BY DEF RollupInv
<1>2. RerollSecs = 21600
  BY DEF RerollSecs, HourSecs
<1>3. PICK j \in Nat : read = 3600 * j
  BY <1>1
<1>4. PICK i \in Int : i = j - 6
  OBVIOUS
<1>5. read - RerollSecs = 3600 * i /\ read \in Nat
  BY <1>2, <1>3, <1>4
<1> DEFINE from == MaxOf(read - RerollSecs, 0)
<1>6. from \in Nat /\ from >= read - RerollSecs
  BY <1>2, <1>5 DEF MaxOf
<1>7. from = 3600 * 0 \/ (from = 3600 * i /\ i \in Nat)
  BY <1>4, <1>5 DEF MaxOf
<1> HIDE DEF from
<1>8. \E n \in Nat : from = 3600 * n
  BY <1>7
<1>9. PICK n \in Int : n = k - 6
  OBVIOUS
<1>10. cursor - RerollSecs = 3600 * n /\ cursor \in Nat
  BY <1>1, <1>2, <1>9
<1>11. \E q \in Int : cursor - RerollSecs = 3600 * q
  BY <1>10
<1>12. read = cursor => from >= cursor - RerollSecs
  BY <1>6
<1> QED
  BY <1>6, <1>8, <1>10, <1>11, <1>12 DEF from

\* What a report or a back-filled point puts into the tables is in the reach of
\* the next roll-up when it is owed.
LEMMA NewKept ==
  ASSUME HistoryInv, NEW s \in Sample, NEW new \in SUBSET {s}, NEW late \in BOOLEAN,
         raw' = raw \cup new, owed' = owed \cup (IF late THEN {} ELSE new),
         late \/ s.t >= cursor - RerollSecs,
         UNCHANGED <<rollup, cursor>>
  PROVE  RollupInv' /\ HistoryComplete'
<1> USE DEF HistoryInv
<1>1. RollupInv'
  BY DEF RollupInv
<1>2. ASSUME NEW q \in owed'
      PROVE  Kept(q)'
  <2>1. CASE q \in owed
    <3>1. Kept(q)
      BY <1>2, <2>1 DEF HistoryComplete, Kept
    <3> QED
      BY <3>1 DEF Kept
  <2>2. CASE q \notin owed
    <3>1. ~late /\ q \in new /\ q = s
      BY <1>2, <2>2
    <3>2. q.t \in Nat /\ q.t >= cursor - RerollSecs
      BY <3>1 DEF Sample
    <3>3. PICK k \in Int : cursor - RerollSecs = 3600 * k
      BY CursorShape
    <3>4. Hour(q.t) >= cursor - RerollSecs
      BY <3>2, <3>3, HourIsLast, HourBounds
    <3> QED
      BY <3>1, <3>4 DEF Kept
  <2> QED
    BY <2>1, <2>2
<1>3. HistoryComplete'
  BY <1>2 DEF HistoryComplete, Kept
<1> QED
  BY <1>1, <1>3

LEMMA ReportsKept ==
  ASSUME HistoryInv, NEW n \in Nodes, NEW t \in Instants, NEW report \in Reports,
         Metrics(n, t, report) \/ Backfill(n, t, report)
  PROVE  RollupInv' /\ HistoryComplete'
<1> USE DEF HistoryInv
<1>1. cursor \in Int /\ clock \in Nat /\ t \in Nat
  BY ConstantTypes DEF TypeOK, TrafficTypeOK, TablesTypeOK
<1>2. OnTime(clock) => clock >= cursor - RerollSecs
  BY <1>1 DEF OnTime, RerollSecs, MaxBackfillAge, HourSecs
<1>3. CASE Metrics(n, t, report)
  <2>1. PICK r \in Cleaned(report) :
           LET new == Stored([node |-> n, t |-> clock, used |-> r.used, total |-> r.total])
           IN  /\ raw' = raw \cup new
               /\ owed' = owed \cup (IF OnTime(clock) THEN new ELSE {})
    BY <1>3 DEF Metrics
  <2>2. PICK s : s = [node |-> n, t |-> clock, used |-> r.used, total |-> r.total]
    OBVIOUS
  <2>3. s \in Sample /\ Stored(s) \in SUBSET {s} /\ s.t = clock
    BY <1>1, <2>2, StoredTyped
  <2>4. PICK new : new = Stored(s)
    OBVIOUS
  <2>5. PICK late \in BOOLEAN : late = ~OnTime(clock)
    BY DEF OnTime
  <2>6. raw' = raw \cup new /\ owed' = owed \cup (IF late THEN {} ELSE new)
    BY <2>1, <2>2, <2>4, <2>5
  <2>7. UNCHANGED <<rollup, cursor>>
    BY <1>3 DEF Metrics
  <2>8. new \in SUBSET {s} /\ (late \/ s.t >= cursor - RerollSecs)
    BY <1>2, <2>3, <2>4, <2>5
  <2> QED
    BY <2>3, <2>6, <2>7, <2>8, NewKept
<1>4. CASE Backfill(n, t, report)
  <2>1. PICK r \in Cleaned(report) :
           LET new == Stored([node |-> n, t |-> t, used |-> r.used, total |-> r.total])
           IN  /\ raw' = raw \cup new
               /\ owed' = owed \cup (IF OnTime(clock) THEN new ELSE {})
    BY <1>4 DEF Backfill
  <2>2. PICK s : s = [node |-> n, t |-> t, used |-> r.used, total |-> r.total]
    OBVIOUS
  <2>3. s \in Sample /\ Stored(s) \in SUBSET {s} /\ s.t = t
    BY <1>1, <2>2, StoredTyped
  <2>4. PICK new : new = Stored(s)
    OBVIOUS
  <2>5. PICK late \in BOOLEAN : late = ~OnTime(clock)
    BY DEF OnTime
  <2>6. raw' = raw \cup new /\ owed' = owed \cup (IF late THEN {} ELSE new)
    BY <2>1, <2>2, <2>4, <2>5
  <2>7. UNCHANGED <<rollup, cursor>>
    BY <1>4 DEF Backfill, traffic
  <2>8. OnTime(clock) => t >= cursor - RerollSecs
    BY <1>1, <1>4 DEF Backfill, OnTime, RerollSecs, MaxBackfillAge, HourSecs
  <2>9. new \in SUBSET {s} /\ (late \/ s.t >= cursor - RerollSecs)
    BY <2>3, <2>4, <2>5, <2>8
  <2> QED
    BY <2>3, <2>6, <2>7, <2>9, NewKept
<1> QED
  BY <1>3, <1>4

\* The seconds of an hour are on the same side of every full hour.
LEMMA SameSide ==
  ASSUME NEW a \in Nat, NEW b \in Nat, Hour(a) = Hour(b), NEW k \in Int
  PROVE  3600 * k <= a <=> 3600 * k <= b
BY HourIsLast

\* What a roll-up of whole hours writes: a row for every sample of the window,
\* which holds all samples of its node and hour that are still there.
LEMMA AggregatedRows ==
  ASSUME TypeOK, NEW i \in Int, NEW j \in Int, NEW from, NEW to, from = 3600 * i, to = 3600 * j
  PROVE  /\ \A r \in Aggregated(from, to) : \A s \in r.of :
               s \in raw /\ s.node = r.node /\ Hour(s.t) = r.hour
         /\ \A r \in Aggregated(from, to) : \A s \in raw :
               s.node = r.node /\ Hour(s.t) = r.hour => s \in r.of
         /\ \A s \in raw : from <= s.t /\ s.t < to => \E r \in Aggregated(from, to) : s \in r.of
         /\ \A r \in Aggregated(from, to) : \A t \in Nat : Hour(t) = r.hour => from <= t
         /\ \A r \in Aggregated(from, to) : \E o \in raw : o.node = r.node /\ Hour(o.t) = r.hour
<1> DEFINE window == {s \in raw : from <= s.t /\ s.t < to}
           RowOf(s) == [node |-> s.node, hour |-> Hour(s.t),
                        of |-> {o \in window : o.node = s.node /\ Hour(o.t) = Hour(s.t)}]
<1>1. Aggregated(from, to) = {RowOf(s) : s \in window}
  BY DEF Aggregated
<1>2. \A s \in raw : s.t \in Nat
  <2>1. \A s \in raw : s \in Sample
    BY DEF TypeOK, TablesTypeOK
  <2> QED
    BY <2>1 DEF Sample
<1>3. ASSUME NEW r \in Aggregated(from, to)
      PROVE  /\ \A s \in r.of : s \in raw /\ s.node = r.node /\ Hour(s.t) = r.hour
             /\ \A s \in raw : s.node = r.node /\ Hour(s.t) = r.hour => s \in r.of
             /\ \A t \in Nat : Hour(t) = r.hour => from <= t
             /\ \E o \in raw : o.node = r.node /\ Hour(o.t) = r.hour
  <2>1. PICK q \in window : r = RowOf(q)
    BY <1>1, <1>3
  <2>2. /\ r.node = q.node /\ r.hour = Hour(q.t)
        /\ r.of = {o \in window : o.node = q.node /\ Hour(o.t) = Hour(q.t)}
    BY <2>1
  <2>3. q \in raw /\ q.t \in Nat /\ 3600 * i <= q.t /\ ~(3600 * j <= q.t)
    BY <1>2
  <2>4. \A t \in Nat : Hour(t) = Hour(q.t) => 3600 * i <= t /\ ~(3600 * j <= t)
    BY <2>3, SameSide
  <2>5. \A t \in Nat : Hour(t) = Hour(q.t) => from <= t /\ t < to
    BY <2>4
  <2> QED
    BY <1>2, <2>2, <2>3, <2>5
<1>4. ASSUME NEW s \in raw, from <= s.t, s.t < to
      PROVE  \E r \in Aggregated(from, to) : s \in r.of
  <2>1. s \in window
    BY <1>4
  <2>2. RowOf(s) \in Aggregated(from, to)
    BY <1>1, <2>1
  <2>3. s \in RowOf(s).of
    BY <2>1
  <2> QED
    BY <2>2, <2>3
<1> QED
  BY <1>3, <1>4

LEMMA RollUpKept == HistoryInv /\ RollUp => RollupInv' /\ HistoryComplete'
<1> SUFFICES ASSUME HistoryInv, RollUp
             PROVE  RollupInv' /\ HistoryComplete'
  OBVIOUS
<1> USE DEF HistoryInv
<1>1. clock \in Nat
  BY DEF TypeOK, TrafficTypeOK
<1>2. PICK cur : cur = Hour(clock)
  OBVIOUS
<1>3. cur \in Nat /\ \E k \in Nat : cur = 3600 * k
  BY <1>1, <1>2, HourIsFull, HourBounds
<1>4. \A s \in owed : s \in Sample /\ s.t \in Nat
  BY DEF TypeOK, TablesTypeOK, Sample
<1>5. cursor \in Nat /\ RerollSecs \in Nat /\ RerollSecs = 21600
  BY DEF RerollSecs, HourSecs, TypeOK, TablesTypeOK
<1>6. raw' = raw
  BY DEF RollUp
<1>7. PICK read \in {cursor, 0}, written \in BOOLEAN, moved \in BOOLEAN :
         \/ UNCHANGED <<rollup, cursor, owed>>
         \/ /\ moved => written
            /\ rollup' = IF written THEN Replacing(Aggregated(MaxOf(read - RerollSecs, 0), cur))
                         ELSE rollup
            /\ cursor' = IF moved THEN cur ELSE cursor
            /\ owed' = {s \in owed :
                 /\ written /\ read # cursor => ~Torn(s)
                 /\ moved /\ cur < cursor => s \in raw \/ s.t < cur - RerollSecs}
  BY <1>2 DEF RollUp
<1>8. CASE UNCHANGED <<rollup, cursor, owed>>
  BY <1>6, <1>8 DEF RollupInv, HistoryComplete
<1>9. PICK from : from = MaxOf(read - RerollSecs, 0)
  OBVIOUS
<1>10. /\ from \in Nat /\ \E k \in Nat : from = 3600 * k
       /\ read = cursor => from >= cursor - RerollSecs
       /\ from <= cursor - RerollSecs \/ from = 0
  <2>1. /\ from \in Nat /\ \E k \in Nat : from = 3600 * k
        /\ read = cursor => from >= cursor - RerollSecs
    BY <1>9, CursorShape
  <2>2. from <= cursor - RerollSecs \/ from = 0
    BY <1>5, <1>9 DEF MaxOf
  <2> QED
    BY <2>1, <2>2
<1>11. CASE /\ moved => written
            /\ rollup' = IF written THEN Replacing(Aggregated(from, cur)) ELSE rollup
            /\ cursor' = IF moved THEN cur ELSE cursor
            /\ owed' = {s \in owed :
                 /\ written /\ read # cursor => ~Torn(s)
                 /\ moved /\ cur < cursor => s \in raw \/ s.t < cur - RerollSecs}
  <2> DEFINE rows == Aggregated(from, cur)
  <2>1. PICK i \in Int, j \in Int : from = 3600 * i /\ cur = 3600 * j
    BY <1>3, <1>10
  <2>2. /\ \A r \in rows : \A s \in r.of : s \in raw /\ s.node = r.node /\ Hour(s.t) = r.hour
        /\ \A r \in rows : \A s \in raw : s.node = r.node /\ Hour(s.t) = r.hour => s \in r.of
        /\ \A s \in raw : from <= s.t /\ s.t < cur => \E r \in rows : s \in r.of
        /\ \A r \in rows : \A t \in Nat : Hour(t) = r.hour => from <= t
        /\ \A r \in rows : \E o \in raw : o.node = r.node /\ Hour(o.t) = r.hour
    BY <2>1, AggregatedRows
  <2>3. /\ written => rollup' = {r \in rollup : \A o \in rows :
                                   <<o.node, o.hour>> # <<r.node, r.hour>>} \cup rows
        /\ ~written => rollup' = rollup /\ cursor' = cursor
    BY <1>11 DEF Replacing
  <2> HIDE DEF rows
  <2>4. cursor' \in Nat /\ (cursor' = cursor \/ (moved /\ written /\ cursor' = cur))
    BY <1>3, <1>5, <1>11
  <2>5. RollupInv'
    <3>1. \E k \in Nat : cursor' = 3600 * k
      BY <1>3, <2>4 DEF RollupInv
    <3>2. ASSUME NEW r \in rollup', NEW s \in r.of
          PROVE  s.node = r.node /\ Hour(s.t) = r.hour
      BY <2>2, <2>3, <3>2 DEF RollupInv
    <3>3. ASSUME NEW s \in owed'
          PROVE  s \in raw' \/ s.t < cursor' - RerollSecs
      <4>1. s \in owed /\ s.t \in Nat /\ (s \in raw \/ s.t < cursor - RerollSecs)
        BY <1>4, <1>11 DEF RollupInv
      <4>2. CASE moved /\ cur < cursor
        BY <1>6, <1>11, <4>2
      <4>3. CASE ~(moved /\ cur < cursor)
        <5>1. cursor <= cursor'
          BY <1>3, <1>5, <2>4, <4>3
        <5> QED
          BY <1>5, <1>6, <2>4, <4>1, <5>1
      <4> QED
        BY <4>2, <4>3
    <3> QED
      BY <3>1, <3>2, <3>3 DEF RollupInv
  <2>6. ASSUME NEW s \in owed'
        PROVE  Kept(s)'
    <3>1. /\ s \in owed /\ s.t \in Nat /\ Kept(s)
          /\ s \in raw \/ s.t < cursor - RerollSecs
          /\ written /\ read # cursor => ~Torn(s)
      BY <1>4, <1>11 DEF RollupInv, HistoryComplete, Kept
    <3>2. CASE ~written
      BY <1>6, <2>3, <3>1, <3>2 DEF Kept
    <3>3. CASE written /\ \E r \in rollup : s \in r.of
      <4>1. PICK r \in rollup : s \in r.of
        BY <3>3
      <4>2. s.node = r.node /\ Hour(s.t) = r.hour
        BY <4>1 DEF RollupInv
      <4>3. CASE r \in rollup'
        BY <4>1, <4>3 DEF Kept
      <4>4. CASE r \notin rollup'
        <5>1. PICK o \in rows : o.node = r.node /\ o.hour = r.hour
          BY <2>3, <3>3, <4>4
        <5>2. s \in raw
          <6>1. CASE read = cursor
            <7>1. from <= s.t /\ from >= cursor - RerollSecs
              BY <1>10, <2>2, <3>1, <4>2, <5>1, <6>1
            <7> QED
              BY <1>5, <1>10, <3>1, <7>1
          <6>2. CASE read # cursor
            <7>1. \E q \in raw : q.node = s.node /\ Hour(q.t) = Hour(s.t)
              BY <2>2, <4>2, <5>1
            <7> QED
              BY <3>1, <3>3, <6>2, <7>1 DEF Torn
          <6> QED
            BY <6>1, <6>2
        <5>3. s \in o.of
          BY <2>2, <4>2, <5>1, <5>2
        <5> QED
          BY <2>3, <3>3, <5>3 DEF Kept
      <4> QED
        BY <4>3, <4>4
    <3>4. CASE written /\ s \in raw /\ Hour(s.t) >= cursor - RerollSecs
      <4>1. Hour(s.t) \in Nat /\ Hour(s.t) <= s.t
        BY <3>1, HourBounds
      <4>2. from <= s.t
        BY <1>5, <1>10, <3>1, <3>4, <4>1
      <4>3. CASE s.t < cur
        <5>1. PICK r \in rows : s \in r.of
          BY <2>2, <3>4, <4>2, <4>3
        <5> QED
          BY <2>3, <3>4, <5>1 DEF Kept
      <4>4. CASE ~(s.t < cur)
        <5>1. cur <= Hour(s.t)
          BY <1>3, <2>1, <3>1, <4>4, HourIsLast
        <5>2. Hour(s.t) >= cursor' - RerollSecs
          BY <1>3, <1>5, <2>4, <3>4, <4>1, <5>1
        <5> QED
          BY <1>6, <3>4, <5>2 DEF Kept
      <4> QED
        BY <4>3, <4>4
    <3> QED
      BY <3>1, <3>2, <3>3, <3>4 DEF Kept
  <2>7. HistoryComplete'
    BY <2>6 DEF HistoryComplete, Kept
  <2> QED
    BY <2>5, <2>7
<1> QED
  BY <1>7, <1>8, <1>9, <1>11

LEMMA PurgeKept == HistoryInv /\ Purge => RollupInv' /\ HistoryComplete'
<1> SUFFICES ASSUME HistoryInv, Purge
             PROVE  RollupInv' /\ HistoryComplete'
  OBVIOUS
<1> USE DEF HistoryInv
<1>1. PICK gone \in SUBSET raw :
         /\ raw' = raw \ gone
         /\ owed' = owed \ {s \in gone : Hour(s.t) >= cursor - RerollSecs}
  BY DEF Purge
<1>2. UNCHANGED <<rollup, cursor>>
  BY DEF Purge
<1>3. PICK k \in Int : cursor - RerollSecs = 3600 * k
  BY CursorShape
<1>4. ASSUME NEW s \in owed'
      PROVE  /\ s \in owed /\ s.t \in Nat /\ Hour(s.t) \in Nat
             /\ s \in gone => ~(Hour(s.t) >= cursor - RerollSecs) /\ s.t < cursor - RerollSecs
  <2>1. s \in owed /\ (s \in gone => ~(Hour(s.t) >= cursor - RerollSecs))
    BY <1>1, <1>4
  <2>2. s.t \in Nat
    BY <2>1 DEF TypeOK, TablesTypeOK, Sample
  <2>3. Hour(s.t) \in Nat /\ (3600 * k <= s.t <=> 3600 * k <= Hour(s.t))
    BY <2>2, HourBounds, HourIsLast
  <2> QED
    BY <1>3, <2>1, <2>2, <2>3
<1>5. RollupInv'
  <2>1. \A s \in owed' : s \in raw' \/ s.t < cursor' - RerollSecs
    BY <1>1, <1>2, <1>4 DEF RollupInv
  <2> QED
    BY <1>2, <2>1 DEF RollupInv
<1>6. ASSUME NEW s \in owed'
      PROVE  Kept(s)'
  <2>1. Kept(s)
    BY <1>4 DEF HistoryComplete, Kept
  <2> QED
    BY <1>1, <1>2, <1>4, <2>1 DEF Kept
<1>7. HistoryComplete'
  BY <1>6 DEF HistoryComplete, Kept
<1> QED
  BY <1>5, <1>7

\* A row leaves the roll-up with the samples whose hour has passed.
LEMMA ExpireKept == HistoryInv /\ Expire => RollupInv' /\ HistoryComplete'
<1> SUFFICES ASSUME HistoryInv, Expire
             PROVE  RollupInv' /\ HistoryComplete'
  OBVIOUS
<1> USE DEF HistoryInv
<1>1. PICK cutoff : cutoff = clock - 7 * DaySecs
  OBVIOUS
<1>2. UNCHANGED <<raw, cursor>>
  BY DEF Expire
<1>3. \/ UNCHANGED <<rollup, owed>>
      \/ /\ rollup' = {r \in rollup : r.hour >= cutoff}
         /\ owed' = {s \in owed : Hour(s.t) >= cutoff}
  BY <1>1 DEF Expire
<1>4. RollupInv'
  BY <1>2, <1>3 DEF RollupInv
<1>5. ASSUME NEW s \in owed'
      PROVE  Kept(s)'
  <2>1. s \in owed /\ Kept(s)
    BY <1>2, <1>3, <1>5 DEF HistoryComplete, Kept
  <2>2. CASE \E r \in rollup : s \in r.of
    <3>1. PICK r \in rollup : s \in r.of
      BY <2>2
    <3>2. Hour(s.t) = r.hour
      BY <3>1 DEF RollupInv
    <3>3. r \in rollup'
      BY <1>3, <1>5, <3>1, <3>2
    <3> QED
      BY <3>1, <3>3 DEF Kept
  <2>3. CASE s \in raw /\ Hour(s.t) >= cursor - RerollSecs
    BY <1>2, <2>3 DEF Kept
  <2> QED
    BY <2>1, <2>2, <2>3 DEF Kept
<1>6. HistoryComplete'
  BY <1>5 DEF HistoryComplete, Kept
<1> QED
  BY <1>4, <1>6

LEMMA HistoryStep == HistoryInv /\ [Next]_vars => RollupInv' /\ HistoryComplete'
<1> SUFFICES ASSUME HistoryInv, [Next]_vars
             PROVE  RollupInv' /\ HistoryComplete'
  OBVIOUS
<1>same. ASSUME UNCHANGED tables PROVE RollupInv' /\ HistoryComplete'
  BY <1>same DEF HistoryInv, RollupInv, HistoryComplete, tables
<1>1. CASE Tick \/ RoundEnds \/ SweepRead \/ Restart \/ UNCHANGED vars
  BY <1>same, <1>1 DEF Tick, RoundEnds, SweepRead, Restart, vars, tables
<1>2. ASSUME NEW d \in due, SweepWrite(d)
      PROVE  RollupInv' /\ HistoryComplete'
  BY <1>same, <1>2 DEF SweepWrite
<1>3. ASSUME NEW t \in Instants, ClockShows(t)
      PROVE  RollupInv' /\ HistoryComplete'
  BY <1>same, <1>3 DEF ClockShows
<1>4. ASSUME NEW p \in pending, Accumulate(p)
      PROVE  RollupInv' /\ HistoryComplete'
  BY <1>same, <1>4 DEF Accumulate
<1>5. ASSUME NEW n \in Nodes, NEW on \in BOOLEAN, NEW d \in ResetDays, Rename(n, on, d)
      PROVE  RollupInv' /\ HistoryComplete'
  BY <1>same, <1>5 DEF Rename
<1> QED
  BY <1>1, <1>2, <1>3, <1>4, <1>5, ReportsKept, RollUpKept, PurgeKept, ExpireKept DEF Next, Round

-----------------------------------------------------------------------------
(* Sums.  The library's induction takes a predicate, which cannot be given  *)
(* here; a least counterexample does as well.                              *)

\* A set of naturals that is not empty has a least element.
LEMMA LeastElement ==
  ASSUME NEW T, T \subseteq Nat, T # {}
  PROVE  \E x \in T : \A y \in T : x <= y
<1>1. PICK x \in T : \A y \in T : ~(<<y, x>> \in OpToRel(<, Nat))
  BY NatLessThanWellFounded, WFMin, Zenon
<1>2. \A y \in T : ~(y < x)
  BY <1>1 DEF OpToRel
<1> QED
  BY <1>2

\* g adds F up over every subset of S, one chosen element after the other, as
\* MapThenSumSet does.
AddsUp(g, F, S) ==
    g = [s \in SUBSET S |->
           IF s = {} THEN 0 ELSE F[CHOOSE x \in s : TRUE] + g[s \ {CHOOSE x \in s : TRUE}]]

\* g does so for the subsets of up to n elements.
AddsUpTo(g, F, S, n) ==
    /\ g \in [SUBSET S -> Nat]
    /\ \A s \in SUBSET S : Cardinality(s) <= n =>
         g[s] = IF s = {} THEN 0 ELSE F[CHOOSE x \in s : TRUE] + g[s \ {CHOOSE x \in s : TRUE}]

\* Without its chosen element a set is smaller by one.
LEMMA Smaller ==
  ASSUME NEW S, IsFiniteSet(S), NEW s \in SUBSET S, s # {}
  PROVE  /\ (CHOOSE x \in s : TRUE) \in s
         /\ s \ {CHOOSE x \in s : TRUE} \in SUBSET S
         /\ Cardinality(s) \in Nat
         /\ Cardinality(s \ {CHOOSE x \in s : TRUE}) = Cardinality(s) - 1
         /\ Cardinality(s) > 0
<1>1. (CHOOSE x \in s : TRUE) \in s
  OBVIOUS
<1> DEFINE c == CHOOSE x \in s : TRUE
<1> HIDE DEF c
<1>2. IsFiniteSet(s)
  BY FS_Subset
<1>3. c \in s
  BY <1>1 DEF c
<1>4. Cardinality(s \ {c}) = Cardinality(s) - 1
  BY <1>2, <1>3, FS_RemoveElement
<1>5. Cardinality(s) \in Nat /\ Cardinality(s) # 0
  BY <1>2, FS_CardinalityType, FS_EmptySet
<1> QED
  BY <1>1, <1>4, <1>5 DEF c

\* A finite set can be added up: no size is the first at which it fails.
LEMMA SomethingAddsUp ==
  ASSUME NEW S, IsFiniteSet(S), NEW F \in [S -> Nat]
  PROVE  \E g \in [SUBSET S -> Nat] : AddsUp(g, F, S)
<1> DEFINE bad == {n \in Nat : ~\E g : AddsUpTo(g, F, S, n)}
<1>fin. \A s \in SUBSET S : Cardinality(s) \in Nat /\ (Cardinality(s) = 0 => s = {})
  BY FS_Subset, FS_CardinalityType, FS_EmptySet
<1>1. bad = {}
  <2>1. SUFFICES ASSUME bad # {} PROVE FALSE
    OBVIOUS
  <2>2. PICK n \in bad : \A m \in bad : n <= m
    BY <2>1, LeastElement
  <2>3. CASE n = 0
    <3> DEFINE z == [s \in SUBSET S |-> 0]
    <3>1. z \in [SUBSET S -> Nat]
      OBVIOUS
    <3>2. \A s \in SUBSET S : Cardinality(s) <= 0 => z[s] = 0 /\ s = {}
      BY <1>fin
    <3>3. AddsUpTo(z, F, S, 0)
      BY <3>1, <3>2 DEF AddsUpTo
    <3> QED
      BY <2>3, <3>3
  <2>4. CASE n # 0
    <3>1. n - 1 \in Nat /\ n \in Nat /\ n - 1 \notin bad
      BY <2>2, <2>4
    <3>2. PICK g : AddsUpTo(g, F, S, n - 1)
      BY <3>1
    <3> DEFINE h == [s \in SUBSET S |->
                       IF s = {} THEN 0 ELSE F[CHOOSE x \in s : TRUE] + g[s \ {CHOOSE x \in s : TRUE}]]
    <3>3. g \in [SUBSET S -> Nat]
      BY <3>2 DEF AddsUpTo
    <3>4. h \in [SUBSET S -> Nat]
      <4>1. ASSUME NEW s \in SUBSET S, s # {}
            PROVE  F[CHOOSE x \in s : TRUE] + g[s \ {CHOOSE x \in s : TRUE}] \in Nat
        BY <3>3, <4>1, Smaller
      <4> QED
        BY <4>1
    <3>5. ASSUME NEW s \in SUBSET S, Cardinality(s) <= n - 1
          PROVE  h[s] = g[s]
      BY <3>2, <3>5 DEF AddsUpTo
    <3>6. ASSUME NEW s \in SUBSET S, Cardinality(s) <= n, s # {}
          PROVE  g[s \ {CHOOSE x \in s : TRUE}] = h[s \ {CHOOSE x \in s : TRUE}]
      <4>1. /\ s \ {CHOOSE x \in s : TRUE} \in SUBSET S
            /\ Cardinality(s \ {CHOOSE x \in s : TRUE}) <= n - 1
        BY <3>1, <3>6, Smaller
      <4> QED
        BY <3>5, <4>1
    <3>7. AddsUpTo(h, F, S, n)
      <4>1. \A s \in SUBSET S : h[s] = IF s = {} THEN 0
               ELSE F[CHOOSE x \in s : TRUE] + g[s \ {CHOOSE x \in s : TRUE}]
        OBVIOUS
      <4> HIDE DEF h
      <4> QED
        BY <3>4, <3>6, <4>1, Zenon DEF AddsUpTo
    <3> QED
      BY <3>7, <2>2
  <2> QED
    BY <2>3, <2>4
<1>2. Cardinality(S) \in Nat
  BY <1>fin
<1>3. PICK g : AddsUpTo(g, F, S, Cardinality(S))
  BY <1>1, <1>2
<1>4. \A s \in SUBSET S : Cardinality(s) <= Cardinality(S)
  BY FS_Subset
<1>5. g \in [SUBSET S -> Nat] /\ \A s \in SUBSET S :
         g[s] = IF s = {} THEN 0 ELSE F[CHOOSE x \in s : TRUE] + g[s \ {CHOOSE x \in s : TRUE}]
  BY <1>3, <1>4, Zenon DEF AddsUpTo
<1>6. g = [s \in SUBSET S |->
           IF s = {} THEN 0 ELSE F[CHOOSE x \in s : TRUE] + g[s \ {CHOOSE x \in s : TRUE}]]
  BY <1>5
<1> QED
  BY <1>5, <1>6, Zenon DEF AddsUp

\* What adding up gives for no element, and for one more.
Unfolds(g, F, S) ==
    /\ g[{}] = 0
    /\ \A s \in SUBSET S : s # {} =>
         g[s] = F[CHOOSE x \in s : TRUE] + g[s \ {CHOOSE x \in s : TRUE}]

LEMMA AddsUpUnfolds ==
  ASSUME NEW S, NEW F, NEW g, AddsUp(g, F, S)
  PROVE  Unfolds(g, F, S)
BY DEF AddsUp, Unfolds

\* Of values of at most M each the sum is at most M for each.
LEMMA SumBounded ==
  ASSUME NEW S, IsFiniteSet(S), NEW F \in [S -> Nat], NEW M \in Nat, \A x \in S : F[x] <= M,
         NEW g, AddsUp(g, F, S)
  PROVE  g \in [SUBSET S -> Nat] /\ g[S] \in Nat /\ g[S] <= M * Cardinality(S)
<1> DEFINE ok(s) == g[s] \in Nat /\ g[s] <= M * Cardinality(s)
           bad == {Cardinality(s) : s \in {t \in SUBSET S : ~ok(t)}}
<1>fin. \A s \in SUBSET S : Cardinality(s) \in Nat
  BY FS_Subset, FS_CardinalityType
<1>2. Unfolds(g, F, S)
  BY AddsUpUnfolds, Zenon
<1>3. ok({})
  <2>1. Cardinality({}) = 0
    BY FS_EmptySet
  <2> QED
    BY <1>2, <2>1 DEF Unfolds
<1>4. bad = {}
  <2>1. SUFFICES ASSUME bad # {} PROVE FALSE
    OBVIOUS
  <2>2. bad \subseteq Nat
    BY <1>fin
  <2>3. PICK n \in bad : \A m \in bad : n <= m
    BY <2>1, <2>2, LeastElement
  <2>4. PICK s \in SUBSET S : ~ok(s) /\ Cardinality(s) = n
    BY <2>3
  <2>5. s # {}
    BY <1>3, <2>4
  <2> DEFINE c == CHOOSE x \in s : TRUE
             r == s \ {c}
  <2>6. c \in S /\ r \in SUBSET S /\ Cardinality(r) = n - 1 /\ n \in Nat
    BY <2>4, <2>5, Smaller
  <2>7. ok(r)
    <3>1. Cardinality(r) \notin bad
      BY <2>3, <2>6
    <3> QED
      BY <2>6, <3>1
  <2>8. g[s] = F[c] + g[r]
    BY <1>2, <2>5 DEF Unfolds
  <2>9. F[c] \in Nat /\ F[c] <= M
    BY <2>6
  <2> HIDE DEF c, r
  <2>10. M * (n - 1) + M = M * n /\ M * n \in Int /\ M * (n - 1) \in Int
    BY <2>6
  <2>11. ok(s)
    BY <2>4, <2>6, <2>7, <2>8, <2>9, <2>10
  <2> QED
    BY <2>4, <2>11
<1>5. ok(S)
  <2>1. S \in SUBSET S
    OBVIOUS
  <2> QED
    BY <1>4, <2>1
<1>6. g \in [SUBSET S -> Nat]
  <2>1. \A s \in SUBSET S : g[s] \in Nat
    BY <1>4
  <2> QED
    BY <2>1, Zenon DEF AddsUp
<1> QED
  BY <1>5, <1>6

\* A sum grows with its values.
LEMMA SumGrows ==
  ASSUME NEW S, IsFiniteSet(S), NEW F \in [S -> Nat], NEW G \in [S -> Nat],
         \A x \in S : F[x] <= G[x], NEW f, AddsUp(f, F, S), NEW g, AddsUp(g, G, S)
  PROVE  f[S] <= g[S]
<1> DEFINE ok(s) == f[s] \in Nat /\ g[s] \in Nat /\ f[s] <= g[s]
           bad == {Cardinality(s) : s \in {t \in SUBSET S : ~ok(t)}}
<1>fin. \A s \in SUBSET S : Cardinality(s) \in Nat
  BY FS_Subset, FS_CardinalityType
<1>3. Unfolds(f, F, S)
  BY AddsUpUnfolds, Zenon
<1>4. Unfolds(g, G, S)
  BY AddsUpUnfolds, Zenon
<1>5. ok({})
  BY <1>3, <1>4 DEF Unfolds
<1>6. bad = {}
  <2>1. SUFFICES ASSUME bad # {} PROVE FALSE
    OBVIOUS
  <2>2. bad \subseteq Nat
    BY <1>fin
  <2>3. PICK n \in bad : \A m \in bad : n <= m
    BY <2>1, <2>2, LeastElement
  <2>4. PICK s \in SUBSET S : ~ok(s) /\ Cardinality(s) = n
    BY <2>3
  <2>5. s # {}
    BY <1>5, <2>4
  <2> DEFINE c == CHOOSE x \in s : TRUE
             r == s \ {c}
  <2>6. c \in S /\ r \in SUBSET S /\ Cardinality(r) = n - 1 /\ n \in Nat
    BY <2>4, <2>5, Smaller
  <2>7. ok(r)
    <3>1. Cardinality(r) \notin bad
      BY <2>3, <2>6
    <3> QED
      BY <2>6, <3>1
  <2>8. f[s] = F[c] + f[r] /\ g[s] = G[c] + g[r]
    BY <1>3, <1>4, <2>5 DEF Unfolds
  <2>9. F[c] \in Nat /\ G[c] \in Nat /\ F[c] <= G[c]
    BY <2>6
  <2> HIDE DEF c, r
  <2>11. ok(s)
    BY <2>7, <2>8, <2>9
  <2> QED
    BY <2>4, <2>11
<1>7. ok(S)
  <2>1. S \in SUBSET S
    OBVIOUS
  <2> QED
    BY <1>6, <2>1
<1> QED
  BY <1>7
\* It does not matter which element is added last.
LEMMA SumSplits ==
  ASSUME NEW S, IsFiniteSet(S), NEW F \in [S -> Nat], NEW g \in [SUBSET S -> Nat], AddsUp(g, F, S),
         NEW s \in SUBSET S, NEW x \in s
  PROVE  g[s] = F[x] + g[s \ {x}]
<1> DEFINE Splits(u) == \A y \in u : g[u] = F[y] + g[u \ {y}]
           T == {n \in Nat : \E u \in SUBSET S : Cardinality(u) = n /\ ~Splits(u)}
<1>1. Unfolds(g, F, S)
  BY AddsUpUnfolds
<1>2. ASSUME T # {}
      PROVE  FALSE
  <2>1. PICK n \in T : \A k \in T : n <= k
    BY <1>2, LeastElement
  <2>2. PICK u \in SUBSET S : Cardinality(u) = n /\ ~Splits(u)
    BY <2>1
  <2>3. PICK y \in u : g[u] # F[y] + g[u \ {y}]
    BY <2>2
  <2>4. PICK c \in u : /\ c = CHOOSE v \in u : TRUE
                       /\ Cardinality(u \ {c}) = Cardinality(u) - 1
                       /\ Cardinality(u) \in Nat /\ Cardinality(u) > 0
                       /\ g[u] = F[c] + g[u \ {c}]
    <3>1. u # {}
      BY <2>3
    <3> QED
      BY <1>1, <3>1, Smaller DEF Unfolds
  <2>5. c # y
    BY <2>3, <2>4
  <2>6. IsFiniteSet(u)
    BY FS_Subset
  <2>7. \A v \in SUBSET S : Cardinality(v) = Cardinality(u) - 1 => Splits(v)
    <3>1. ASSUME NEW v \in SUBSET S, Cardinality(v) = Cardinality(u) - 1, ~Splits(v)
          PROVE  FALSE
      <4>1. n - 1 \in T
        BY <2>1, <2>2, <2>4, <3>1
      <4> QED
        BY <2>1, <4>1
    <3> QED
      BY <3>1
  <2>8. Cardinality(u \ {y}) = Cardinality(u) - 1
    BY <2>6, FS_RemoveElement
  <2>9. Splits(u \ {c}) /\ Splits(u \ {y})
    BY <2>4, <2>7, <2>8
  <2>10. g[u \ {c}] = F[y] + g[(u \ {c}) \ {y}]
    BY <2>5, <2>9
  <2>11. g[u \ {y}] = F[c] + g[(u \ {y}) \ {c}]
    BY <2>5, <2>9
  <2>12. (u \ {c}) \ {y} = (u \ {y}) \ {c}
    OBVIOUS
  <2>13. PICK k \in Nat : k = g[(u \ {c}) \ {y}]
    OBVIOUS
  <2>14. F[y] \in Nat /\ F[c] \in Nat
    OBVIOUS
  <2>15. g[u] = F[c] + (F[y] + k)
    BY <2>4, <2>10, <2>13, Zenon
  <2>16. g[u \ {y}] = F[c] + k
    BY <2>11, <2>12, <2>13, Zenon
  <2> QED
    BY <2>3, <2>14, <2>15, <2>16
<1>3. IsFiniteSet(s) /\ Cardinality(s) \in Nat
  BY FS_Subset, FS_CardinalityType
<1> QED
  BY <1>2, <1>3

\* A finite set of naturals that is not empty has a greatest element.
LEMMA MaxIsGreatest ==
  ASSUME NEW S, IsFiniteSet(S), S # {}, S \subseteq Nat
  PROVE  Max(S) \in S /\ \A y \in S : y <= Max(S)
<1> DEFINE ok(s) == s = {} \/ \E x \in s : \A y \in s : x >= y
           bad == {Cardinality(s) : s \in {t \in SUBSET S : ~ok(t)}}
<1>fin. \A s \in SUBSET S : Cardinality(s) \in Nat
  BY FS_Subset, FS_CardinalityType
<1>1. bad = {}
  <2>1. SUFFICES ASSUME bad # {} PROVE FALSE
    OBVIOUS
  <2>2. bad \subseteq Nat
    BY <1>fin
  <2>3. PICK n \in bad : \A m \in bad : n <= m
    BY <2>1, <2>2, LeastElement
  <2>4. PICK s \in SUBSET S : ~ok(s) /\ Cardinality(s) = n
    BY <2>3
  <2>5. s # {}
    BY <2>4
  <2> DEFINE c == CHOOSE x \in s : TRUE
             r == s \ {c}
  <2>6. c \in S /\ c \in s /\ r \in SUBSET S /\ Cardinality(r) = n - 1 /\ n \in Nat
    BY <2>4, <2>5, Smaller
  <2>7. ok(r)
    <3>1. Cardinality(r) \notin bad
      BY <2>3, <2>6
    <3> QED
      BY <2>6, <3>1
  <2>8. c \in Nat /\ \A y \in r : y \in Nat
    BY <2>6
  <2>9. s = r \cup {c}
    BY <2>6
  <2> HIDE DEF c, r
  <2>10. CASE r = {}
    BY <2>4, <2>8, <2>9, <2>10
  <2>11. CASE r # {}
    <3>1. PICK x \in r : \A y \in r : x >= y
      BY <2>7, <2>11
    <3>2. CASE x >= c
      BY <2>4, <2>8, <2>9, <3>1, <3>2
    <3>3. CASE ~(x >= c)
      BY <2>4, <2>8, <2>9, <3>1, <3>3
    <3> QED
      BY <3>2, <3>3
  <2> QED
    BY <2>10, <2>11
<1>2. \E x \in S : \A y \in S : x >= y
  <2>1. S \in SUBSET S
    OBVIOUS
  <2> QED
    BY <1>1, <2>1
<1>3. Max(S) \in S /\ \A y \in S : Max(S) >= y
  BY <1>2, Zenon DEF Max
<1> QED
  BY <1>3

-----------------------------------------------------------------------------
(* The measures that the views show.                                       *)

\* The sums of the views add up so.
LEMMA SumOfUsed ==
  ASSUME NEW S, IsFiniteSet(S), NEW F \in [S -> Nat], F = [s \in S |-> s.used]
  PROVE  \E g : AddsUp(g, F, S) /\ SumOf(Used, S) = g[S]
<1> DEFINE Iter(h) == h = [s \in SUBSET S |-> IF s = {} THEN 0
                ELSE (CHOOSE x \in s : TRUE).used + h[s \ {CHOOSE x \in s : TRUE}]]
           g == CHOOSE h : Iter(h)
<1>1. \A h : AddsUp(h, F, S) <=> Iter(h)
  <2>1. \A s \in SUBSET S : s # {} => F[CHOOSE x \in s : TRUE] = (CHOOSE x \in s : TRUE).used
    OBVIOUS
  <2> QED
    BY <2>1 DEF AddsUp
<1>2. SumOf(Used, S) = g[S]
  BY SMT DEF SumOf, MapThenSumSet, MapThenFoldSet, Used
<1>3. PICK h \in [SUBSET S -> Nat] : AddsUp(h, F, S)
  BY SomethingAddsUp
<1> HIDE DEF Iter
<1>4. Iter(h)
  BY <1>1, <1>3, Zenon
<1>5. Iter(g)
  BY <1>4, Zenon
<1>6. AddsUp(g, F, S)
  BY <1>1, <1>5, Zenon
<1> HIDE DEF g
<1> QED
  BY <1>2, <1>6, Zenon

LEMMA SumOfTotal ==
  ASSUME NEW S, IsFiniteSet(S), NEW F \in [S -> Nat], F = [s \in S |-> s.total]
  PROVE  \E g : AddsUp(g, F, S) /\ SumOf(Total, S) = g[S]
<1> DEFINE Iter(h) == h = [s \in SUBSET S |-> IF s = {} THEN 0
                ELSE (CHOOSE x \in s : TRUE).total + h[s \ {CHOOSE x \in s : TRUE}]]
           g == CHOOSE h : Iter(h)
<1>1. \A h : AddsUp(h, F, S) <=> Iter(h)
  <2>1. \A s \in SUBSET S : s # {} => F[CHOOSE x \in s : TRUE] = (CHOOSE x \in s : TRUE).total
    OBVIOUS
  <2> QED
    BY <2>1 DEF AddsUp
<1>2. SumOf(Total, S) = g[S]
  BY SMT DEF SumOf, MapThenSumSet, MapThenFoldSet, Total
<1>3. PICK h \in [SUBSET S -> Nat] : AddsUp(h, F, S)
  BY SomethingAddsUp
<1> HIDE DEF Iter
<1>4. Iter(h)
  BY <1>1, <1>3, Zenon
<1>5. Iter(g)
  BY <1>4, Zenon
<1>6. AddsUp(g, F, S)
  BY <1>1, <1>5, Zenon
<1> HIDE DEF g
<1> QED
  BY <1>2, <1>6, Zenon

\* Finitely many measures, none with more in use than there is.
Consistent(S) ==
    /\ IsFiniteSet(S)
    /\ \A s \in S : s.used \in Nat /\ s.total \in Nat /\ s.used <= s.total

\* Some of them are consistent too.
LEMMA ConsistentSubset ==
  ASSUME NEW S, Consistent(S), NEW T \in SUBSET S
  PROVE  Consistent(T)
BY FS_Subset DEF Consistent

\* A quotient of whole numbers is at most m when the number is at most m for each.
LEMMA Quotient ==
  ASSUME NEW a \in Nat, NEW n \in Nat \ {0}, NEW m \in Nat, a <= m * n
  PROVE  a \div n \in Nat /\ a \div n <= m
<1> DEFINE q == a \div n
           r == a % n
<1>1. q \in Int /\ r \in 0 .. n - 1 /\ a = n * q + r
  OBVIOUS
<1> HIDE DEF q, r
<1>2. \A i, j, k \in Int : k > 0 /\ i >= j + 1 => i * k >= j * k + k
  OBVIOUS
<1>3. q <= m
  <2>1. q >= m + 1 => q * n >= m * n + n
    BY <1>1, <1>2
  <2>2. q * n \in Int /\ m * n \in Int /\ q * n = n * q
    BY <1>1
  <2> QED
    BY <1>1, <2>1, <2>2
<1>4. q >= 0
  <2>1. 0 >= q + 1 => 0 * n >= q * n + n
    BY <1>1, <1>2
  <2>2. q * n \in Int /\ 0 * n = 0 /\ q * n = n * q
    BY <1>1
  <2> QED
    BY <1>1, <2>1, <2>2
<1> QED
  BY <1>1, <1>3, <1>4 DEF q

\* The values of a function on a finite set are finitely many.
LEMMA ImageFinite ==
  ASSUME NEW S, IsFiniteSet(S), NEW f, f = [s \in S |-> f[s]]
  PROVE  IsFiniteSet({f[s] : s \in S})
<1> DEFINE T == {f[s] : s \in S}
<1>1. f \in Surjection(S, T)
  BY DEF Surjection
<1> QED
  BY <1>1, FS_Surjection

\* The mean of consistent measures is at most the greatest of their capacities.
LEMMA MeanWithinGreatest ==
  ASSUME NEW S, Consistent(S), S # {}
  PROVE  Mean(S) \in Nat /\ Greatest(S) \in Nat /\ Mean(S) <= Greatest(S)
<1> DEFINE F == [s \in S |-> s.used]
           G == [s \in S |-> s.total]
           T == {s.total : s \in S}
<1>1. IsFiniteSet(S) /\ F \in [S -> Nat] /\ G \in [S -> Nat]
  BY DEF Consistent
<1>2. T # {} /\ T \subseteq Nat /\ T = {G[s] : s \in S}
  BY DEF Consistent
<1>3. IsFiniteSet(T)
  <2>1. G = [s \in S |-> G[s]]
    OBVIOUS
  <2> HIDE DEF G, T
  <2> QED
    BY <1>1, <1>2, <2>1, ImageFinite
<1>4. Greatest(S) \in Nat /\ \A s \in S : s.total <= Greatest(S)
  <2>1. Greatest(S) = Max(T)
    BY DEF Greatest
  <2> HIDE DEF T
  <2>2. Max(T) \in T /\ \A y \in T : y <= Max(T)
    BY <1>2, <1>3, MaxIsGreatest
  <2> QED
    BY <1>2, <2>1, <2>2 DEF T
<1>5. \A s \in S : F[s] <= Greatest(S)
  BY <1>4 DEF Consistent
<1>6. Cardinality(S) \in Nat \ {0}
  BY <1>1, FS_CardinalityType, FS_EmptySet
<1>7. PICK g : AddsUp(g, F, S) /\ SumOf(Used, S) = g[S]
  BY <1>1, SumOfUsed
<1> HIDE DEF F, G, T
<1>8. g[S] \in Nat /\ g[S] <= Greatest(S) * Cardinality(S)
  BY <1>1, <1>4, <1>5, <1>7, SumBounded
<1> QED
  BY <1>4, <1>6, <1>7, <1>8, Quotient DEF Mean

\* And so are their sums.
LEMMA SumsWithin ==
  ASSUME NEW S, Consistent(S)
  PROVE  SumOf(Used, S) <= SumOf(Total, S)
<1> DEFINE F == [s \in S |-> s.used]
           G == [s \in S |-> s.total]
<1>1. IsFiniteSet(S) /\ F \in [S -> Nat] /\ G \in [S -> Nat] /\ \A s \in S : F[s] <= G[s]
  BY DEF Consistent
<1>2. PICK f : AddsUp(f, F, S) /\ SumOf(Used, S) = f[S]
  BY <1>1, SumOfUsed
<1>3. PICK g : AddsUp(g, G, S) /\ SumOf(Total, S) = g[S]
  BY <1>1, SumOfTotal
<1> HIDE DEF F, G
<1> QED
  BY <1>1, <1>2, <1>3, SumGrows

\* What the tables hold is consistent; a row of the roll-up has samples.
MeasureInv ==
    /\ Consistent(raw)
    /\ IsFiniteSet(rollup)
    /\ \A r \in rollup : Consistent(r.of) /\ r.of # {}

\* What a view reads, be it samples or rows of the roll-up, is consistent.
LEMMA RowsConsistent ==
  ASSUME MeasureInv, NEW secs
  PROVE  Consistent(Rows(secs))
<1> DEFINE RowOf(r) == [node |-> r.node, t |-> r.hour, used |-> Mean(r.of), total |-> Greatest(r.of)]
           f == [r \in rollup |-> RowOf(r)]
           mean == {RowOf(r) : r \in rollup}
<1>1. IsFiniteSet({f[r] : r \in rollup})
  <2>1. f = [r \in rollup |-> f[r]]
    OBVIOUS
  <2> HIDE DEF f
  <2> QED
    BY <2>1, ImageFinite DEF MeasureInv
<1>2. mean = {f[r] : r \in rollup}
  OBVIOUS
<1>3. Consistent(mean)
  <2>1. \A r \in rollup : LET s == RowOf(r) IN s.used \in Nat /\ s.total \in Nat /\ s.used <= s.total
    BY MeanWithinGreatest DEF MeasureInv
  <2> QED
    BY <1>1, <1>2, <2>1 DEF Consistent
<1>4. Rows(secs) = {s \in IF Long(secs) THEN mean ELSE raw : s.t >= clock - secs}
  BY DEF Rows
<1> HIDE DEF mean
<1>5. Rows(secs) \in SUBSET mean \/ Rows(secs) \in SUBSET raw
  BY <1>4
<1> QED
  BY <1>3, <1>5, ConsistentSubset DEF MeasureInv

\* Point by point, for every view: what is in use stays within the capacity.
LEMMA ViewsWithin ==
  ASSUME TypeOK, MeasureInv
  PROVE  UsedWithinTotal
<1>1. ASSUME NEW secs \in Views, NEW p \in Trend(secs)
      PROVE  p.used <= p.total
  <2> DEFINE rows == Rows(secs)
             b(t) == InBucket(rows, t, secs, 240)
             One(n, t) == [node |-> n, used |-> Mean({r \in b(t) : r.node = n}),
                           total |-> Greatest({r \in b(t) : r.node = n})]
             nodes(t) == {One(n, t) : n \in {r.node : r \in b(t)}}
  <2>1. PICK t \in {Bucket(r.t, secs, 240) : r \in rows} :
           p = [t |-> t, used |-> SumOf(Used, nodes(t)), total |-> SumOf(Total, nodes(t))]
    BY <1>1 DEF Trend
  <2>2. Consistent(rows)
    BY RowsConsistent
  <2>3. b(t) \in SUBSET rows
    BY DEF InBucket
  <2>4. Consistent(b(t))
    BY <2>2, <2>3, ConsistentSubset
  <2> DEFINE B == b(t)
             names == {r.node : r \in B}
             f == [r \in B |-> One(r.node, t)]
  <2>5. nodes(t) = {f[r] : r \in B}
    <3>1. \A r \in B : f[r] = One(r.node, t)
      OBVIOUS
    <3>2. nodes(t) = {One(n, t) : n \in names}
      OBVIOUS
    <3> HIDE DEF nodes, One, f, B
    <3> QED
      BY <3>1, <3>2
  <2>6. IsFiniteSet({f[r] : r \in B})
    <3>1. f = [r \in B |-> f[r]] /\ IsFiniteSet(B)
      BY <2>4 DEF Consistent
    <3> HIDE DEF f, B
    <3> QED
      BY <3>1, ImageFinite
  <2>7. ASSUME NEW n \in names
        PROVE  Consistent({r \in B : r.node = n}) /\ {r \in B : r.node = n} # {}
    <3>1. {r \in B : r.node = n} \in SUBSET B /\ {r \in B : r.node = n} # {}
      OBVIOUS
    <3> QED
      BY <2>4, <3>1, ConsistentSubset
  <2>8. \A s \in nodes(t) : s.used \in Nat /\ s.total \in Nat /\ s.used <= s.total
    <3>1. ASSUME NEW n \in names
          PROVE  LET s == One(n, t) IN s.used \in Nat /\ s.total \in Nat /\ s.used <= s.total
      <4>1. One(n, t).used = Mean({r \in B : r.node = n}) /\ One(n, t).total = Greatest({r \in B : r.node = n})
        OBVIOUS
      <4> HIDE DEF One, B, names
      <4> QED
        BY <2>7, <4>1, MeanWithinGreatest
    <3>2. nodes(t) = {One(n, t) : n \in names}
      OBVIOUS
    <3> HIDE DEF nodes, One, names
    <3> QED
      BY <3>1, <3>2
  <2>9. Consistent(nodes(t))
    BY <2>5, <2>6, <2>8 DEF Consistent
  <2> HIDE DEF nodes
  <2> QED
    BY <2>1, <2>9, SumsWithin
<1>2. ASSUME NEW secs \in Views, NEW n \in Nodes, NEW p \in History(n, secs)
      PROVE  p.used <= p.total
  <2> DEFINE rows == {r \in Rows(secs) : r.node = n}
             b(t) == InBucket(rows, t, secs, 360)
  <2>1. PICK t \in {Bucket(r.t, secs, 360) : r \in rows} :
           p = [t |-> t, used |-> Mean(b(t)), total |-> Greatest(b(t))]
    BY <1>2 DEF History
  <2>2. b(t) \in SUBSET Rows(secs) /\ b(t) # {}
    BY <2>1 DEF InBucket
  <2>3. Consistent(b(t))
    BY <2>2, RowsConsistent, ConsistentSubset
  <2> HIDE DEF b
  <2> QED
    BY <2>1, <2>2, <2>3, MeanWithinGreatest
<1>3. ASSUME NEW n \in Nodes, NEW p \in Summary(n) \cup Detail(n)
      PROVE  p.used <= p.total
  <2>1. p \in raw
    <3>1. CASE p \in Summary(n)
      BY <3>1 DEF Summary
    <3>2. CASE p \in Detail(n)
      <4> DEFINE mine == {s \in raw : s.node = n}
      <4>1. mine # {} /\ p = CHOOSE s \in mine : \A o \in mine : o.t <= s.t
        BY <3>2 DEF Detail
      <4>2. \E s \in mine : \A o \in mine : o.t <= s.t
        <5> DEFINE T == {s.t : s \in mine}
                   f == [s \in mine |-> s.t]
        <5>1. IsFiniteSet(mine)
          BY FS_Subset DEF MeasureInv, Consistent
        <5>2. f = [s \in mine |-> f[s]] /\ T = {f[s] : s \in mine}
          OBVIOUS
        <5>3. T # {} /\ T \subseteq Nat
          BY <4>1 DEF TypeOK, TablesTypeOK, Sample
        <5> HIDE DEF f, mine
        <5>4. IsFiniteSet(T)
          BY <5>1, <5>2, ImageFinite
        <5> HIDE DEF T
        <5>5. Max(T) \in T /\ \A y \in T : y <= Max(T)
          BY <5>3, <5>4, MaxIsGreatest
        <5> QED
          BY <5>5 DEF T
      <4> QED
        BY <4>1, <4>2
    <3> QED
      BY <1>3, <3>1, <3>2
  <2> QED
    BY <2>1 DEF MeasureInv, Consistent
<1> QED
  BY <1>1, <1>2, <1>3 DEF UsedWithinTotal

\* validate_and_clean_metrics leaves no sample that contradicts itself.
LEMMA MeasuresStored ==
  ASSUME TypeOK, MeasureInv, NEW n \in Nodes, NEW t \in Nat, NEW report \in Reports,
         NEW r \in Cleaned(report),
         raw' = raw \cup Stored([node |-> n, t |-> t, used |-> r.used, total |-> r.total])
  PROVE  Consistent(raw')
<1> DEFINE s == [node |-> n, t |-> t, used |-> r.used, total |-> r.total]
<1>1. Stored(s) \subseteq {s} /\ s \in Sample
  BY StoredTyped
<1>2. s.used \in Nat /\ s.total \in Nat /\ s.used <= s.total
  <2>1. r = [report EXCEPT !.used = MinOf(@, report.total)]
    BY DEF Cleaned
  <2>2. report \in [finite : BOOLEAN, used : Nat, total : Nat, rate : Nat]
    BY TelemetryAssumption DEF TelemetryAssumption
  <2>3. r.used \in Nat /\ r.total \in Nat /\ r.used <= r.total
    BY <2>1, <2>2 DEF MinOf
  <2> QED
    BY <2>3
<1> HIDE DEF s
<1>3. IsFiniteSet(raw)
  BY DEF MeasureInv, Consistent
<1>4. IsFiniteSet(raw \cup {s})
  BY <1>3, FS_AddElement
<1>5. raw' \in SUBSET (raw \cup {s})
  BY <1>1 DEF s
<1>6. IsFiniteSet(raw')
  BY <1>4, <1>5, FS_Subset
<1> QED
  BY <1>2, <1>5, <1>6 DEF MeasureInv, Consistent

\* No row of the roll-up is written without a sample.
LEMMA MeasuresRolledUp ==
  ASSUME MeasureInv, NEW from, NEW to
  PROVE  /\ IsFiniteSet(Aggregated(from, to))
         /\ \A r \in Aggregated(from, to) : Consistent(r.of) /\ r.of # {}
<1> DEFINE window == {s \in raw : from <= s.t /\ s.t < to}
           f == [s \in window |->
                   [node |-> s.node, hour |-> Hour(s.t),
                    of |-> {o \in window : o.node = s.node /\ Hour(o.t) = Hour(s.t)}]]
<1>1. Aggregated(from, to) = {f[s] : s \in window}
  BY DEF Aggregated
<1>2. Consistent(window)
  BY ConsistentSubset DEF MeasureInv
<1>3. IsFiniteSet({f[s] : s \in window})
  <2>1. f = [s \in window |-> f[s]] /\ IsFiniteSet(window)
    BY <1>2 DEF Consistent
  <2> HIDE DEF f, window
  <2> QED
    BY <2>1, ImageFinite
<1>4. ASSUME NEW s \in window
      PROVE  Consistent(f[s].of) /\ f[s].of # {}
  <2>1. f[s].of \in SUBSET window /\ s \in f[s].of
    OBVIOUS
  <2> HIDE DEF f, window
  <2> QED
    BY <1>2, <2>1, ConsistentSubset
<1> HIDE DEF f, window
<1> QED
  BY <1>1, <1>3, <1>4

\* No step makes the tables inconsistent.
LEMMA MeasureStep == TypeOK /\ MeasureInv /\ [Next]_vars => MeasureInv'
<1> SUFFICES ASSUME TypeOK, MeasureInv, [Next]_vars
             PROVE  MeasureInv'
  OBVIOUS
<1>same. ASSUME UNCHANGED <<raw, rollup>> PROVE MeasureInv'
  BY <1>same DEF MeasureInv
<1>1. CASE Tick \/ RoundEnds \/ SweepRead \/ Restart \/ UNCHANGED vars
  BY <1>same, <1>1 DEF Tick, RoundEnds, SweepRead, Restart, vars, tables
<1>2. ASSUME NEW d \in due, SweepWrite(d)
      PROVE  MeasureInv'
  BY <1>same, <1>2 DEF SweepWrite, tables
<1>3. ASSUME NEW t \in Instants, ClockShows(t)
      PROVE  MeasureInv'
  BY <1>same, <1>3 DEF ClockShows, tables
<1>4. ASSUME NEW p \in pending, Accumulate(p)
      PROVE  MeasureInv'
  BY <1>same, <1>4 DEF Accumulate, tables
<1>5. ASSUME NEW n \in Nodes, NEW on \in BOOLEAN, NEW d \in ResetDays, Rename(n, on, d)
      PROVE  MeasureInv'
  BY <1>same, <1>5 DEF Rename, tables
<1>6. ASSUME NEW n \in Nodes, NEW t \in Instants, NEW report \in Reports,
             Metrics(n, t, report) \/ Backfill(n, t, report)
      PROVE  MeasureInv'
  <2>1. PICK at \in {clock, t}, r \in Cleaned(report) :
           raw' = raw \cup Stored([node |-> n, t |-> at, used |-> r.used, total |-> r.total])
    <3>1. CASE Metrics(n, t, report)
      BY <3>1 DEF Metrics
    <3>2. CASE Backfill(n, t, report)
      BY <3>2 DEF Backfill
    <3> QED
      BY <1>6, <3>1, <3>2
  <2>2. at \in Nat
    BY ConstantTypes DEF TypeOK, TrafficTypeOK
  <2>3. Consistent(raw')
    BY <2>1, <2>2, MeasuresStored
  <2>4. rollup' = rollup
    BY <1>6 DEF Metrics, Backfill
  <2> QED
    BY <2>3, <2>4 DEF MeasureInv
<1>7. CASE RollUp
  <2>1. raw' = raw
    BY <1>7 DEF RollUp
  <2>2. PICK from, to : rollup' = rollup \/ rollup' = Replacing(Aggregated(from, to))
    BY <1>7 DEF RollUp
  <2>3. CASE rollup' = Replacing(Aggregated(from, to))
    <3> DEFINE rows == Aggregated(from, to)
               kept == {r \in rollup : \A o \in rows : <<o.node, o.hour>> # <<r.node, r.hour>>}
    <3>1. rollup' = kept \cup rows
      BY <2>3 DEF Replacing
    <3>2. IsFiniteSet(rows) /\ \A r \in rows : Consistent(r.of) /\ r.of # {}
      BY MeasuresRolledUp
    <3>3. kept \in SUBSET rollup
      OBVIOUS
    <3> HIDE DEF kept, rows
    <3>4. IsFiniteSet(kept \cup rows)
      BY <3>2, <3>3, FS_Subset, FS_Union DEF MeasureInv
    <3> QED
      BY <2>1, <3>1, <3>2, <3>3, <3>4 DEF MeasureInv
  <2> QED
    BY <1>same, <2>1, <2>2, <2>3
<1>8. CASE Purge \/ Expire
  <2>1. raw' \in SUBSET raw /\ rollup' \in SUBSET rollup
    BY <1>8 DEF Purge, Expire
  <2>2. Consistent(raw') /\ IsFiniteSet(rollup')
    BY <2>1, ConsistentSubset, FS_Subset DEF MeasureInv
  <2> QED
    BY <2>1, <2>2 DEF MeasureInv
<1> QED
  BY <1>1, <1>2, <1>3, <1>4, <1>5, <1>6, <1>7, <1>8 DEF Next, Round

-----------------------------------------------------------------------------
(* The calendar: the code's arithmetic against the lengths of the months.  *)
(* The era of 146097 days is the code's, and so are the years that begin   *)
(* in March and have their leap day last.                                  *)

\* The days of the months before month m.
Before(y, m) == MapThenSumSet(LAMBDA k : MonthLength(y, k), 1 .. m - 1)

\* One day more in a leap year.
LeapDay(y) == IF IsLeap(y) THEN 1 ELSE 0

\* The same as the code reckons them from March on, by a formula.
Table(y, m) == IF m <= 2 THEN 31 * (m - 1) ELSE 59 + LeapDay(y) + (153 * (m - 3) + 2) \div 5

LEMMA LeapDayTyped == \A y : LeapDay(y) \in 0..1
BY DEF LeapDay

LEMMA MonthTyped ==
  ASSUME NEW y, NEW m
  PROVE  MonthLength(y, m) \in 28..31
BY DEF MonthLength

\* The table grows by the length of each month.
LEMMA TableSteps ==
  ASSUME NEW y, NEW m \in 1..11
  PROVE  Table(y, m + 1) = Table(y, m) + MonthLength(y, m)
<1>1. LeapDay(y) \in 0..1 /\ MonthLength(y, 2) = 28 + LeapDay(y)
  BY DEF MonthLength, LeapDay
<1>2. /\ MonthLength(y, 1) = 31 /\ MonthLength(y, 3) = 31 /\ MonthLength(y, 4) = 30
      /\ MonthLength(y, 5) = 31
      /\ MonthLength(y, 6) = 30 /\ MonthLength(y, 7) = 31 /\ MonthLength(y, 8) = 31
      /\ MonthLength(y, 9) = 30 /\ MonthLength(y, 10) = 31 /\ MonthLength(y, 11) = 30
  BY DEF MonthLength
<1>3. \/ m = 1 \/ m = 2 \/ m = 3 \/ m = 4 \/ m = 5 \/ m = 6
      \/ m = 7 \/ m = 8 \/ m = 9 \/ m = 10 \/ m = 11
  OBVIOUS
<1>4. CASE m = 1
  BY <1>1, <1>2, <1>4 DEF Table
<1>5. CASE m = 2
  BY <1>1, <1>2, <1>5 DEF Table
<1>6. CASE m = 3
  BY <1>1, <1>2, <1>6 DEF Table
<1>7. CASE m = 4
  BY <1>1, <1>2, <1>7 DEF Table
<1>8. CASE m = 5
  BY <1>1, <1>2, <1>8 DEF Table
<1>9. CASE m = 6
  BY <1>1, <1>2, <1>9 DEF Table
<1>10. CASE m = 7
  BY <1>1, <1>2, <1>10 DEF Table
<1>11. CASE m = 8
  BY <1>1, <1>2, <1>11 DEF Table
<1>12. CASE m = 9
  BY <1>1, <1>2, <1>12 DEF Table
<1>13. CASE m = 10
  BY <1>1, <1>2, <1>13 DEF Table
<1>14. CASE m = 11
  BY <1>1, <1>2, <1>14 DEF Table
<1> QED
  BY <1>3, <1>4, <1>5, <1>6, <1>7, <1>8, <1>9, <1>10, <1>11, <1>12, <1>13, <1>14

LEMMA TableTyped ==
  ASSUME NEW y, NEW m \in 1..12
  PROVE  Table(y, m) \in Nat
BY LeapDayTyped DEF Table

\* The formula is right.
LEMMA MonthsAddUp ==
  ASSUME NEW y, NEW m \in 1..12
  PROVE  Before(y, m) = Table(y, m)
<1> DEFINE D == 1 .. m - 1
           F == [i \in D |-> MonthLength(y, i)]
           Iter(h) == h = [s \in SUBSET D |-> IF s = {} THEN 0
                             ELSE MonthLength(y, CHOOSE x \in s : TRUE) + h[s \ {CHOOSE x \in s : TRUE}]]
           g == CHOOSE h : Iter(h)
<1>2. F \in [D -> Nat] /\ \A i \in D : F[i] = MonthLength(y, i)
  BY MonthTyped
<1>4. IsFiniteSet(D)
  <2>1. 1 \in Int /\ m - 1 \in Int
    OBVIOUS
  <2> QED
    BY <2>1, FS_Interval
<1>5. \A h : AddsUp(h, F, D) <=> Iter(h)
  <2>1. \A s \in SUBSET D : s # {} => F[CHOOSE x \in s : TRUE] = MonthLength(y, CHOOSE x \in s : TRUE)
    OBVIOUS
  <2> HIDE DEF D, F
  <2> SUFFICES ASSUME NEW h
               PROVE  AddsUp(h, F, D) <=> Iter(h)
    OBVIOUS
  <2> DEFINE L == [s \in SUBSET D |-> IF s = {} THEN 0
                     ELSE F[CHOOSE x \in s : TRUE] + h[s \ {CHOOSE x \in s : TRUE}]]
             R == [s \in SUBSET D |-> IF s = {} THEN 0
                     ELSE MonthLength(y, CHOOSE x \in s : TRUE) + h[s \ {CHOOSE x \in s : TRUE}]]
  <2>2. L = R
    BY <2>1
  <2>3. AddsUp(h, F, D) <=> h = L
    BY DEF AddsUp
  <2>4. Iter(h) <=> h = R
    OBVIOUS
  <2> QED
    BY <2>2, <2>3, <2>4
<1>6. Before(y, m) = g[D]
  BY SMT DEF Before, MapThenSumSet, MapThenFoldSet
<1>3. \A k \in D : k \in 1..11 /\ k - 1 \in 0 .. m - 1 /\ k \in 0 .. m - 1
  OBVIOUS
<1>0. \A k \in 0 .. m - 1 : 1..k \in SUBSET D
  OBVIOUS
<1>9. \A k \in D : k \in 1..k /\ (1..k) \ {k} = 1 .. k - 1
  OBVIOUS
<1>10. m - 1 \in 0 .. m - 1 /\ D = 1 .. m - 1 /\ m - 1 + 1 = m
  OBVIOUS
<1>11. 1..0 = {}
  OBVIOUS
<1> HIDE DEF D, F, Iter
<1>7. PICK h \in [SUBSET D -> Nat] : AddsUp(h, F, D)
  BY <1>2, <1>4, SomethingAddsUp
<1>8. AddsUp(g, F, D)
  <2>1. Iter(h)
    BY <1>5, <1>7, Zenon
  <2>2. Iter(g)
    BY <2>1, Zenon
  <2> QED
    BY <1>5, <2>2, Zenon
<1> HIDE DEF g
<1>12. g \in [SUBSET D -> Nat]
  <2>1. \A i \in D : F[i] <= 31
    BY <1>2, MonthTyped
  <2>2. PICK M \in Nat : \A i \in D : F[i] <= M
    BY <2>1
  <2>3. F \in [D -> Nat]
    BY <1>2
  <2> QED
    BY <1>4, <1>8, <2>2, <2>3, SumBounded, Zenon
<1>13. g[{}] = 0
  BY <1>8, AddsUpUnfolds DEF Unfolds
<1>14. \A k \in D : g[1..k] = MonthLength(y, k) + g[1 .. k - 1]
  <2> SUFFICES ASSUME NEW k \in D
               PROVE  g[1..k] = MonthLength(y, k) + g[1 .. k - 1]
    OBVIOUS
  <2>1. k \in 1..k /\ 1..k \in SUBSET D /\ (1..k) \ {k} = 1 .. k - 1
    BY <1>0, <1>3, <1>9, Zenon
  <2>2. g[1..k] = F[k] + g[(1..k) \ {k}]
    <3>1. PICK s \in SUBSET D : s = 1..k
      BY <2>1
    <3>2. PICK x \in s : x = k
      BY <2>1, <3>1
    <3>3. F \in [D -> Nat]
      BY <1>2
    <3>4. g[s] = F[x] + g[s \ {x}]
      BY <1>4, <1>8, <1>12, <3>3, SumSplits
    <3> QED
      BY <3>1, <3>2, <3>4, Zenon
  <2> QED
    BY <1>2, <2>1, <2>2, Zenon
<1> DEFINE T == {k \in 0 .. m - 1 : g[1..k] # Table(y, k + 1)}
<1>15. T = {}
  <2> SUFFICES ASSUME T # {}
               PROVE  FALSE
    OBVIOUS
  <2>1. PICK k \in T : \A i \in T : k <= i
    <3>1. T \subseteq Nat
      OBVIOUS
    <3> QED
      BY <3>1, LeastElement
  <2>2. k # 0
    <3>1. Table(y, 0 + 1) = 0
      BY DEF Table
    <3> QED
      BY <1>11, <1>13, <2>1, <3>1
  <2>3. k \in D /\ k \in 1..11 /\ k - 1 \in 0 .. m - 1 /\ k - 1 + 1 = k
    <3>1. k \in D
      BY <1>10, <2>1, <2>2
    <3> QED
      BY <1>3, <3>1
  <2>4. g[1 .. k - 1] = Table(y, k)
    <3>1. k - 1 \notin T
      BY <2>1, <2>3
    <3> QED
      BY <2>3, <3>1
  <2>5. g[1..k] = MonthLength(y, k) + Table(y, k)
    BY <1>14, <2>3, <2>4
  <2>6. Table(y, k + 1) = Table(y, k) + MonthLength(y, k)
    BY <2>3, TableSteps
  <2>7. Table(y, k) \in Nat /\ MonthLength(y, k) \in 28..31
    <3>1. k \in 1..12
      BY <2>3
    <3> QED
      BY <3>1, TableTyped, MonthTyped
  <2> QED
    BY <2>1, <2>5, <2>6, <2>7
<1>16. g[1 .. m - 1] = Table(y, m - 1 + 1)
  BY <1>10, <1>15
<1> QED
  BY <1>6, <1>10, <1>16

\* The days of the years 1 to z, as many as from March of year 0 to March of z.
Elapsed(z) == 365 * z + z \div 4 - z \div 100 + z \div 400

\* Rounding down, in the terms the solver works with.
LEMMA Quotients ==
  ASSUME NEW a \in Int
  PROVE  /\ a \div 4 \in Int /\ 4 * (a \div 4) <= a /\ a < 4 * (a \div 4) + 4
         /\ a \div 100 \in Int /\ 100 * (a \div 100) <= a /\ a < 100 * (a \div 100) + 100
         /\ a \div 400 \in Int /\ 400 * (a \div 400) <= a /\ a < 400 * (a \div 400) + 400
OBVIOUS

\* Leap years in the same terms.
LEMMA LeapIs ==
  ASSUME NEW y \in Int
  PROVE  IsLeap(y) <=> y = 4 * (y \div 4) /\ (y # 100 * (y \div 100) \/ y = 400 * (y \div 400))
<1>1. /\ y % 4 = y - 4 * (y \div 4)
      /\ y % 100 = y - 100 * (y \div 100)
      /\ y % 400 = y - 400 * (y \div 400)
  OBVIOUS
<1>2. y \div 4 \in Int /\ y \div 100 \in Int /\ y \div 400 \in Int
  OBVIOUS
<1> QED
  BY <1>1, <1>2 DEF IsLeap

\* A year adds 365 days, and one more if it is a leap year.
LEMMA ElapsedNext ==
  ASSUME NEW z \in Int
  PROVE  Elapsed(z) \in Int /\ Elapsed(z + 1) = Elapsed(z) + 365 + LeapDay(z + 1)
<1>1. PICK a, b, c \in Int : /\ a = z \div 4 /\ b = z \div 100 /\ c = z \div 400
                             /\ 4 * a <= z /\ z < 4 * a + 4
                             /\ 100 * b <= z /\ z < 100 * b + 100
                             /\ 400 * c <= z /\ z < 400 * c + 400
  BY Quotients
<1>2. PICK y \in Int : y = z + 1
  OBVIOUS
<1>3. PICK p, q, r \in Int : /\ p = y \div 4 /\ q = y \div 100 /\ r = y \div 400
                             /\ 4 * p <= y /\ y < 4 * p + 4
                             /\ 100 * q <= y /\ y < 100 * q + 100
                             /\ 400 * r <= y /\ y < 400 * r + 400
  BY Quotients
<1>4. Elapsed(z) = 365 * z + a - b + c /\ Elapsed(y) = 365 * y + p - q + r
  BY <1>1, <1>3 DEF Elapsed
<1>5. IsLeap(y) <=> y = 4 * p /\ (y # 100 * q \/ y = 400 * r)
  BY <1>3, LeapIs
<1>6. CASE IsLeap(y)
  <2>1. LeapDay(y) = 1
    BY <1>6 DEF LeapDay
  <2>2. y = 4 * p /\ (y # 100 * q \/ y = 400 * r)
    BY <1>5, <1>6
  <2>3. 365 * y + p - q + r = 365 * z + a - b + c + 365 + 1
    BY <1>1, <1>2, <1>3, <2>2
  <2> QED
    BY <1>2, <1>4, <2>1, <2>3
<1>7. CASE ~IsLeap(y)
  <2>1. LeapDay(y) = 0
    BY <1>7 DEF LeapDay
  <2>2. ~(y = 4 * p /\ (y # 100 * q \/ y = 400 * r))
    BY <1>5, <1>7
  <2>3. 365 * y + p - q + r = 365 * z + a - b + c + 365 + 0
    BY <1>1, <1>2, <1>3, <2>2
  <2> QED
    BY <1>2, <1>4, <2>1, <2>3
<1> QED
  BY <1>6, <1>7

\* Between two years leap days differ from none by two days at most.
LEMMA ElapsedGrows ==
  ASSUME NEW x \in Int, NEW z \in Int, x <= z
  PROVE  Elapsed(x) + 365 * (z - x) - 2 <= Elapsed(z)
<1>1. PICK a, b, c \in Int : /\ a = z \div 4 /\ b = z \div 100 /\ c = z \div 400
                             /\ 4 * a <= z /\ z < 4 * a + 4
                             /\ 100 * b <= z /\ z < 100 * b + 100
                             /\ 400 * c <= z /\ z < 400 * c + 400
  BY Quotients
<1>3. PICK p, q, r \in Int : /\ p = x \div 4 /\ q = x \div 100 /\ r = x \div 400
                             /\ 4 * p <= x /\ x < 4 * p + 4
                             /\ 100 * q <= x /\ x < 100 * q + 100
                             /\ 400 * r <= x /\ x < 400 * r + 400
  BY Quotients
<1>4. 365 * x + p - q + r + 365 * (z - x) - 2 <= 365 * z + a - b + c
  BY <1>1, <1>3
<1> QED
  BY <1>1, <1>3, <1>4 DEF Elapsed

\* The divisions by which civil_from_days finds the year of an era.
LEMMA Divided ==
  ASSUME NEW x \in Int
  PROVE  /\ x \div 365 \in Int /\ 365 * (x \div 365) <= x /\ x < 365 * (x \div 365) + 365
         /\ x \div 1460 \in Int /\ 1460 * (x \div 1460) <= x /\ x < 1460 * (x \div 1460) + 1460
         /\ x \div 36524 \in Int /\ 36524 * (x \div 36524) <= x
         /\ x < 36524 * (x \div 36524) + 36524
         /\ x \div 146096 \in Int /\ 146096 * (x \div 146096) <= x
         /\ x < 146096 * (x \div 146096) + 146096
         /\ x \div 146097 \in Int /\ 146097 * (x \div 146097) <= x
         /\ x < 146097 * (x \div 146097) + 146097
BY SMT

\* The year of a day of an era, and the day of that year: 400 years, which begin
\* in March.
YearOf(doe) == (doe - doe \div 1460 + doe \div 36524 - doe \div 146096) \div 365
DayOf(doe) == doe - (365 * YearOf(doe) + YearOf(doe) \div 4 - YearOf(doe) \div 100)

\* Its years have 366 days if a leap year's February ends them, or else 365.
LEMMA EraDivided ==
  ASSUME NEW doe \in Int, 0 <= doe, doe <= 146096
  PROVE  /\ YearOf(doe) \in 0..399
         /\ DayOf(doe) \in 0..365
         /\ DayOf(doe) = 365 =>
              YearOf(doe) % 4 = 3 /\ (YearOf(doe) % 100 = 99 => YearOf(doe) = 399)
<1>1. PICK a \in Int : a = doe \div 1460 /\ 1460 * a <= doe /\ doe < 1460 * a + 1460
  BY Divided, SMT
<1>2. PICK b \in Int : b = doe \div 36524 /\ 36524 * b <= doe /\ doe < 36524 * b + 36524
  BY Divided, SMT
<1>3. PICK e \in Int : e = doe \div 146096 /\ 146096 * e <= doe /\ doe < 146096 * e + 146096
  BY Divided, SMT
<1>4. PICK w \in Int : w = doe - a + b - e /\ w = ((doe - a) + b) - e
  BY SMT
<1>5. PICK n \in Int : n = w \div 365 /\ 365 * n <= w /\ w < 365 * n + 365
  BY Divided, SMT
<1>6. PICK p, q \in Int : /\ p = n \div 4 /\ q = n \div 100
                          /\ 4 * p <= n /\ n < 4 * p + 4
                          /\ 100 * q <= n /\ n < 100 * q + 100
  BY Quotients, SMT
<1>7. PICK r \in Int : r = (365 * n + p) - q
  BY SMT
<1>8. PICK doy \in Int : doy = doe - r
  BY SMT
<1>9. 0 <= n
  BY <1>1, <1>2, <1>3, <1>4, <1>5, SMTT(90)
<1>10. n <= 399
  BY <1>1, <1>2, <1>3, <1>4, <1>5, SMTT(90)
<1>11. 0 <= doy
  BY <1>1, <1>2, <1>3, <1>4, <1>5, <1>6, <1>7, <1>8, SMTT(90)
<1>12. doy <= 365
  BY <1>1, <1>2, <1>3, <1>4, <1>5, <1>6, <1>7, <1>8, SMTT(90)
<1>13. doy = 365 => n = 4 * p + 3
  BY <1>1, <1>2, <1>3, <1>4, <1>5, <1>6, <1>7, <1>8, SMTT(90)
<1>14. doy = 365 => (n = 100 * q + 99 => n = 399)
  BY <1>1, <1>2, <1>3, <1>4, <1>5, <1>6, <1>7, <1>8, SMTT(90)
<1>15. n % 4 = n - 4 * p /\ n % 100 = n - 100 * q
  BY <1>6, SMT
<1>16. YearOf(doe) = n
  BY <1>1, <1>2, <1>3, <1>4, <1>5, SMT DEF YearOf
<1>17. DayOf(doe) = doy
  BY <1>6, <1>7, <1>8, <1>16, SMT DEF DayOf
<1>18. doy = 365 => n % 4 = 3 /\ (n % 100 = 99 => n = 399)
  BY <1>6, <1>13, <1>14, <1>15, SMT
<1> QED
  BY <1>9, <1>10, <1>11, <1>12, <1>16, <1>17, <1>18, SMT

\* The month of a day of such a year, and the first day of a month: March is 0.
MonthOf(doy) == (5 * doy + 2) \div 153
FirstOf(mp) == (153 * mp + 2) \div 5

\* Its month is the one the day falls in.
LEMMA YearDivided ==
  ASSUME NEW doy \in Int, 0 <= doy, doy <= 365
  PROVE  /\ MonthOf(doy) \in Int /\ 0 <= MonthOf(doy) /\ MonthOf(doy) <= 11
         /\ FirstOf(MonthOf(doy)) \in Int
         /\ FirstOf(MonthOf(doy)) <= doy /\ doy < FirstOf(MonthOf(doy) + 1)
<1>1. PICK mp \in Int : /\ mp = (5 * doy + 2) \div 153
                        /\ 153 * mp <= 5 * doy + 2 /\ 5 * doy + 2 < 153 * mp + 153
  BY SMT
<1>2. MonthOf(doy) = mp
  BY <1>1, SMT DEF MonthOf
<1>3. 0 <= mp /\ mp <= 11
  BY <1>1, SMT
<1>4. PICK f \in Int : f = (153 * mp + 2) \div 5 /\ 5 * f <= 153 * mp + 2
  BY SMT
<1>5. PICK g \in Int : g = (153 * (mp + 1) + 2) \div 5 /\ 153 * (mp + 1) + 2 < 5 * g + 5
  BY SMT
<1>6. FirstOf(mp) = f /\ FirstOf(mp + 1) = g
  BY <1>4, <1>5, SMT DEF FirstOf
<1> QED
  BY <1>1, <1>2, <1>3, <1>4, <1>5, <1>6, SMT

\* From March to January the months have the lengths this gives them.
LEMMA MarchOn ==
  ASSUME NEW y, NEW mp \in 0..10
  PROVE  FirstOf(mp + 1) - FirstOf(mp) = MonthLength(y, IF mp < 10 THEN mp + 3 ELSE mp - 9)
<1>1. /\ FirstOf(0) = 0 /\ FirstOf(1) = 31 /\ FirstOf(2) = 61 /\ FirstOf(3) = 92
      /\ FirstOf(4) = 122 /\ FirstOf(5) = 153 /\ FirstOf(6) = 184 /\ FirstOf(7) = 214
      /\ FirstOf(8) = 245 /\ FirstOf(9) = 275 /\ FirstOf(10) = 306 /\ FirstOf(11) = 337
  BY SMT DEF FirstOf
<1>2. /\ MonthLength(y, 3) = 31 /\ MonthLength(y, 4) = 30 /\ MonthLength(y, 5) = 31
      /\ MonthLength(y, 6) = 30 /\ MonthLength(y, 7) = 31 /\ MonthLength(y, 8) = 31
      /\ MonthLength(y, 9) = 30 /\ MonthLength(y, 10) = 31 /\ MonthLength(y, 11) = 30
      /\ MonthLength(y, 12) = 31 /\ MonthLength(y, 1) = 31
  BY SMT DEF MonthLength
<1>4. CASE mp \in 0..4
  BY <1>1, <1>2, <1>4, SMT
<1>5. CASE mp \in 5..10
  BY <1>1, <1>2, <1>5, SMT
<1> QED
  BY <1>4, <1>5, SMT

\* The era of a day, and the day's number in it.
Era(day) == (day + 719468) \div 146097
DayOfEra(day) == day + 719468 - Era(day) * 146097

\* A day is so many days into its era of 146097 days.
LEMMA EraOfDay ==
  ASSUME NEW day \in Int
  PROVE  /\ Era(day) \in Int /\ DayOfEra(day) \in Int
         /\ 0 <= DayOfEra(day) /\ DayOfEra(day) <= 146096
         /\ day = (Era(day) * 146097 + DayOfEra(day)) - 719468
<1>1. PICK z \in Int : z = day + 719468
  BY SMT
<1>2. PICK era \in Int : era = z \div 146097 /\ 146097 * era <= z /\ z < 146097 * era + 146097
  BY Divided, SMT
<1>3. Era(day) = era
  BY <1>1, <1>2, SMT DEF Era
<1> QED
  BY <1>1, <1>2, <1>3, SMT DEF DayOfEra

\* civil_from_days takes a day apart in this way.
LEMMA CivilIs ==
  ASSUME NEW day \in Int
  PROVE  LET n   == YearOf(DayOfEra(day))
             doy == DayOf(DayOfEra(day))
             mp  == MonthOf(doy)
             m   == IF mp < 10 THEN mp + 3 ELSE mp - 9
         IN  civil_from_days(day) =
               [y |-> n + Era(day) * 400 + (IF m <= 2 THEN 1 ELSE 0),
                m |-> m, d |-> doy - FirstOf(mp) + 1]
BY SMT DEF civil_from_days, YearOf, DayOf, MonthOf, FirstOf, Era, DayOfEra

\* The first day of year y, counted from 1970-01-01.
Reckoned(y) == Elapsed(y - 1) - 719162

\* The calendar counts its leap years one by one.
LEMMA LeapYears ==
  ASSUME NEW y \in Nat, y >= 1970
  PROVE  YearStart(y) \in Int /\ YearStart(y + 1) = YearStart(y) + 365 + LeapDay(y)
<1> DEFINE A == {k \in 1970 .. y - 1 : IsLeap(k)}
           B == {k \in 1970 .. (y + 1) - 1 : IsLeap(k)}
<1>1. IsFiniteSet(A) /\ Cardinality(A) \in Nat
  <2>1. 1970 \in Int /\ y - 1 \in Int
    OBVIOUS
  <2>2. IsFiniteSet(1970 .. y - 1)
    BY <2>1, FS_Interval
  <2>3. A \subseteq 1970 .. y - 1
    OBVIOUS
  <2> QED
    BY <2>2, <2>3, FS_Subset, FS_CardinalityType
<1>2. y \notin A
  OBVIOUS
<1>3. IsLeap(y) => B = A \cup {y}
  OBVIOUS
<1>4. ~IsLeap(y) => B = A
  OBVIOUS
<1>5. YearStart(y) = 365 * (y - 1970) + Cardinality(A)
      /\ YearStart(y + 1) = 365 * ((y + 1) - 1970) + Cardinality(B)
  BY DEF YearStart
<1> HIDE DEF A, B
<1>6. Cardinality(A \cup {y}) = Cardinality(A) + 1
  BY <1>1, <1>2, FS_AddElement
<1>7. Cardinality(B) = Cardinality(A) + LeapDay(y) /\ LeapDay(y) \in Int
  BY <1>1, <1>3, <1>4, <1>6 DEF LeapDay
<1> QED
  BY <1>1, <1>5, <1>7, SMT

\* So does the reckoning.
LEMMA ReckonedNext ==
  ASSUME NEW y \in Int
  PROVE  Reckoned(y) \in Int /\ Reckoned(y + 1) = Reckoned(y) + 365 + LeapDay(y)
<1>1. y - 1 \in Int /\ (y - 1) + 1 = y /\ (y + 1) - 1 = y
  OBVIOUS
<1>2. Elapsed(y - 1) \in Int /\ Elapsed((y - 1) + 1) = Elapsed(y - 1) + 365 + LeapDay((y - 1) + 1)
  BY <1>1, ElapsedNext
<1>3. Elapsed(y) = Elapsed(y - 1) + 365 + LeapDay(y)
  BY <1>1, <1>2
<1>4. LeapDay(y) \in Int
  BY LeapDayTyped
<1>5. Reckoned(y + 1) = Elapsed(y) - 719162 /\ Reckoned(y) = Elapsed(y - 1) - 719162
  BY <1>1, SMT DEF Reckoned
<1> QED
  BY <1>2, <1>3, <1>4, <1>5, SMT

\* They agree on 1970.
LEMMA ReckonedFirst == Reckoned(1969) = -365 /\ Reckoned(1970) = 0
<1>1. 1968 \div 4 = 492 /\ 1968 \div 100 = 19 /\ 1968 \div 400 = 4
      /\ 1969 \div 4 = 492 /\ 1969 \div 100 = 19 /\ 1969 \div 400 = 4
  BY SMT
<1>2. 1969 - 1 = 1968 /\ 1970 - 1 = 1969
  BY SMT
<1>3. Elapsed(1968) = 718797 /\ Elapsed(1969) = 719162
  BY <1>1, SMT DEF Elapsed
<1> QED
  BY <1>2, <1>3, SMT DEF Reckoned

\* The years whose first day the second definition counts differently: none.
Miscounted == {k \in Nat : k >= 1970 /\ YearStart(k) # Reckoned(k)}

LEMMA FirstMiscounted ==
  ASSUME Miscounted # {}
  PROVE  \E k \in Miscounted : \A i \in Miscounted : k <= i
<1>1. Miscounted \subseteq Nat
  BY SMT DEF Miscounted
<1> QED
  BY <1>1, LeastElement

\* So they agree on every year: there is no first on which they do not.
LEMMA YearStarts ==
  ASSUME NEW y \in Nat, y >= 1969
  PROVE  YearStart(y) = Reckoned(y)
<1>1. YearStart(1969) = -365 /\ YearStart(1970) = 0
  <2>1. {k \in 1970 .. 1969 - 1 : IsLeap(k)} = {} /\ {k \in 1970 .. 1970 - 1 : IsLeap(k)} = {}
    BY SMT
  <2>2. YearStart(1969) = 365 * (1969 - 1970) + 0 /\ YearStart(1970) = 365 * (1970 - 1970) + 0
    BY <2>1, FS_EmptySet, SMT DEF YearStart
  <2> QED
    BY <2>2, SMT
<1>2. ASSUME Miscounted # {} PROVE FALSE
  <2>1. PICK k \in Miscounted : \A i \in Miscounted : k <= i
    BY <1>2, FirstMiscounted, SMT
  <2>2. k # 1970
    BY <1>1, <2>1, ReckonedFirst, SMT DEF Miscounted
  <2>3. k - 1 \in Nat /\ k - 1 >= 1970 /\ k - 1 \notin Miscounted /\ (k - 1) + 1 = k /\ k - 1 \in Int
    BY <2>1, <2>2, SMT DEF Miscounted
  <2>4. YearStart(k - 1) = Reckoned(k - 1)
    BY <2>3, SMT DEF Miscounted
  <2>5. YearStart((k - 1) + 1) = YearStart(k - 1) + 365 + LeapDay(k - 1)
    BY <2>3, LeapYears, SMT
  <2>6. Reckoned((k - 1) + 1) = Reckoned(k - 1) + 365 + LeapDay(k - 1)
    BY <2>3, ReckonedNext, SMT
  <2>7. YearStart(k) = Reckoned(k)
    BY <2>3, <2>4, <2>5, <2>6, SMT
  <2> QED
    BY <2>1, <2>7, SMT DEF Miscounted
<1>3. CASE y = 1969
  BY <1>1, <1>3, ReckonedFirst, SMT
<1>4. CASE y # 1969
  BY <1>2, <1>4, SMT DEF Miscounted
<1> QED
  BY <1>3, <1>4

\* The first day of a month.
Start(y, m) == YearStart(y) + Before(y, m)

LEMMA StartTyped ==
  ASSUME NEW y \in Nat, y >= 1969, NEW m \in 1..12
  PROVE  /\ Start(y, m) \in Int
         /\ Start(y, m) = Reckoned(y) + Table(y, m)
<1>1. Reckoned(y) \in Int
  BY ReckonedNext
<1> QED
  BY <1>1, YearStarts, MonthsAddUp, TableTyped, SMT DEF Start

\* The code numbers the days as the calendar does.
LEMMA DaysRight ==
  ASSUME NEW y \in Nat, y >= 1969, NEW m \in 1..12, NEW d \in Int
  PROVE  days_from_civil(y, m, d) = Start(y, m) + d - 1
<1> DEFINE yy  == IF m <= 2 THEN y - 1 ELSE y
           era == yy \div 400
           yoe == yy - era * 400
           mp  == IF m > 2 THEN m - 3 ELSE m + 9
           ofs == (153 * mp + 2) \div 5
           doy == ofs + d - 1
<1>1. days_from_civil(y, m, d)
        = era * 146097 + yoe * 365 + yoe \div 4 - yoe \div 100 + doy - 719468
  BY SMT DEF days_from_civil
<1>2. PICK z \in Int : z = yy
  OBVIOUS
<1>3. m <= 2 => mp = m + 9 /\ z = y - 1
  BY <1>2
<1>4. m > 2 => mp = m - 3 /\ z = y
  BY <1>2
<1>5. era = z \div 400 /\ yoe = z - era * 400
  BY <1>2
<1>6. /\ ofs \in Int
      /\ m <= 2 => ofs = 306 + 31 * (m - 1)
      /\ m > 2 => ofs = (153 * (m - 3) + 2) \div 5
  <2>1. CASE m <= 2
    <3>1. m = 1 \/ m = 2
      BY <2>1
    <3>2. (153 * 10 + 2) \div 5 = 306 /\ (153 * 11 + 2) \div 5 = 337
      OBVIOUS
    <3> QED
      BY <2>1, <3>1, <3>2
  <2>2. CASE m > 2
    BY <2>2
  <2> QED
    BY <2>1, <2>2
<1> HIDE DEF yy, era, yoe, mp, ofs
<1>7. PICK a, b, c \in Int : /\ a = z \div 4 /\ b = z \div 100 /\ c = z \div 400
                             /\ 4 * a <= z /\ z < 4 * a + 4
                             /\ 100 * b <= z /\ z < 100 * b + 100
                             /\ 400 * c <= z /\ z < 400 * c + 400
  BY Quotients
<1>8. era = c /\ yoe = z - c * 400 /\ yoe \in Int
  BY <1>5, <1>7
<1>9. PICK p, q \in Int : /\ p = yoe \div 4 /\ q = yoe \div 100
                          /\ 4 * p <= yoe /\ yoe < 4 * p + 4
                          /\ 100 * q <= yoe /\ yoe < 100 * q + 100
  BY <1>8, Quotients
<1>10. p = a - 100 * c /\ q = b - 4 * c
  BY <1>7, <1>8, <1>9
<1>11. era * 146097 + yoe * 365 + p - q = 365 * z + a - b + c
  BY <1>7, <1>8, <1>10, SMT
<1>12. days_from_civil(y, m, d) = Elapsed(z) + ofs + d - 1 - 719468 /\ Elapsed(z) \in Int
  <2>1. Elapsed(z) = 365 * z + a - b + c
    BY <1>7 DEF Elapsed
  <2>2. days_from_civil(y, m, d) = era * 146097 + yoe * 365 + p - q + (ofs + d - 1) - 719468
    BY <1>1, <1>9, SMT
  <2> QED
    BY <1>6, <1>7, <1>8, <1>9, <1>11, <2>1, <2>2, SMT
<1>13. Start(y, m) = Elapsed(y - 1) - 719162 + Table(y, m) /\ LeapDay(y) \in Int
  BY StartTyped, LeapDayTyped, SMT DEF Reckoned
<1>14. CASE m <= 2
  <2>1. Table(y, m) = 31 * (m - 1)
    BY <1>14 DEF Table
  <2> QED
    BY <1>3, <1>6, <1>12, <1>13, <1>14, <2>1, SMT
<1>15. CASE m > 2
  <2>1. Table(y, m) = 59 + LeapDay(y) + ofs
    BY <1>6, <1>15 DEF Table
  <2>2. Elapsed(y - 1) \in Int /\ Elapsed(y) = Elapsed(y - 1) + 365 + LeapDay(y)
    <3>1. y - 1 \in Int /\ (y - 1) + 1 = y
      OBVIOUS
    <3>2. Elapsed(y - 1) \in Int /\ Elapsed((y - 1) + 1) = Elapsed(y - 1) + 365 + LeapDay((y - 1) + 1)
      BY <3>1, ElapsedNext
    <3> QED
      BY <3>1, <3>2
  <2> QED
    BY <1>4, <1>6, <1>12, <1>13, <1>15, <2>1, <2>2, SMT
<1> QED
  BY <1>14, <1>15

\* Later months begin later.
LEMMA TableGrows ==
  ASSUME NEW y, NEW a \in 1..12, NEW b \in 1..12, a <= b
  PROVE  Table(y, a) <= Table(y, b)
<1>1. LeapDay(y) \in 0..1
  BY LeapDayTyped
<1>2. CASE b <= 2
  BY <1>2 DEF Table
<1>3. CASE a <= 2 /\ b > 2
  <2>1. 0 <= (153 * (b - 3) + 2) \div 5 /\ (153 * (b - 3) + 2) \div 5 \in Int
    BY <1>3
  <2> QED
    BY <1>1, <1>3, <2>1 DEF Table
<1>4. CASE a > 2
  <2>1. /\ (153 * (a - 3) + 2) \div 5 <= (153 * (b - 3) + 2) \div 5
        /\ (153 * (a - 3) + 2) \div 5 \in Int /\ (153 * (b - 3) + 2) \div 5 \in Int
    BY <1>4
  <2> QED
    BY <1>1, <1>4, <2>1 DEF Table
<1> QED
  BY <1>2, <1>3, <1>4

\* A month ends where the next one begins.
LEMMA MonthEnds ==
  ASSUME NEW y \in Nat, y >= 1969, NEW m \in 1..12
  PROVE  Start(y, m) + MonthLength(y, m) = (IF m = 12 THEN Start(y + 1, 1) ELSE Start(y, m + 1))
<1>1. Start(y, m) = Reckoned(y) + Table(y, m) /\ Reckoned(y) \in Int
      /\ Reckoned(y + 1) = Reckoned(y) + 365 + LeapDay(y) /\ LeapDay(y) \in 0..1
      /\ MonthLength(y, m) \in 28..31 /\ Table(y, m) \in Nat
  <2>1. y \in Int
    OBVIOUS
  <2>2. Start(y, m) = Reckoned(y) + Table(y, m)
    BY StartTyped
  <2>3. Reckoned(y) \in Int /\ Reckoned(y + 1) = Reckoned(y) + 365 + LeapDay(y)
    BY <2>1, ReckonedNext
  <2>4. LeapDay(y) \in 0..1
    BY LeapDayTyped
  <2>5. MonthLength(y, m) \in 28..31
    BY MonthTyped
  <2>6. Table(y, m) \in Nat
    BY TableTyped
  <2> QED
    BY <2>2, <2>3, <2>4, <2>5, <2>6
<1>2. CASE m = 12
  <2>1. Table(y, 12) = 334 + LeapDay(y) /\ MonthLength(y, 12) = 31 /\ Table(y + 1, 1) = 0
    <3>1. (153 * (12 - 3) + 2) \div 5 = 275
      OBVIOUS
    <3> QED
      BY <1>1, <3>1 DEF Table, MonthLength
  <2>2. Start(y + 1, 1) = Reckoned(y + 1) + Table(y + 1, 1)
    <3>1. y + 1 \in Nat /\ y + 1 >= 1969 /\ 1 \in 1..12
      OBVIOUS
    <3> QED
      BY <3>1, StartTyped
  <2> QED
    BY <1>1, <1>2, <2>1, <2>2
<1>3. CASE m # 12
  <2>1. m \in 1..11 /\ m + 1 \in 1..12
    BY <1>3
  <2>2. Start(y, m + 1) = Reckoned(y) + Table(y, m + 1)
    BY <2>1, StartTyped
  <2>3. Table(y, m + 1) = Table(y, m) + MonthLength(y, m)
    BY <2>1, TableSteps
  <2> QED
    BY <1>1, <1>3, <2>2, <2>3
<1> QED
  BY <1>2, <1>3

\* The months follow one another.
LEMMA MonthsInOrder ==
  ASSUME NEW y \in Nat, y >= 1969, NEW m \in 1..12, NEW z \in Nat, z >= 1969, NEW n \in 1..12,
         y < z \/ (y = z /\ m < n)
  PROVE  Start(y, m) + MonthLength(y, m) <= Start(z, n)
<1>1. /\ Start(y, m) = Reckoned(y) + Table(y, m) /\ Reckoned(y) \in Int
      /\ Start(z, n) = Reckoned(z) + Table(z, n) /\ Reckoned(z) \in Int
      /\ Table(y, m) \in Nat /\ Table(z, n) \in Nat
      /\ MonthLength(y, m) \in 28..31
  <2>1. y \in Int /\ z \in Int
    OBVIOUS
  <2>2. Start(y, m) = Reckoned(y) + Table(y, m) /\ Start(z, n) = Reckoned(z) + Table(z, n)
    BY StartTyped
  <2>3. Reckoned(y) \in Int /\ Reckoned(z) \in Int
    BY <2>1, ReckonedNext
  <2>4. MonthLength(y, m) \in 28..31
    BY MonthTyped
  <2>5. Table(y, m) \in Nat /\ Table(z, n) \in Nat
    BY TableTyped
  <2> QED
    BY <2>2, <2>3, <2>4, <2>5
<1>2. CASE y < z
  <2>1. Reckoned(y + 1) <= Reckoned(z)
    <3>1. y \in Int /\ z - 1 \in Int /\ y <= z - 1 /\ (y + 1) - 1 = y /\ y + 1 \in Int
      BY <1>2
    <3>2. Elapsed(y) + 365 * ((z - 1) - y) - 2 <= Elapsed(z - 1)
      BY <3>1, ElapsedGrows
    <3>3. Elapsed(y) \in Int /\ Elapsed(z - 1) \in Int
      BY <3>1, ElapsedNext
    <3>4. Elapsed(y) <= Elapsed(z - 1)
      <4>1. CASE y = z - 1
        BY <3>3, <4>1
      <4>2. CASE y # z - 1
        BY <3>1, <3>2, <3>3, <4>2
      <4> QED
        BY <4>1, <4>2
    <3> QED
      BY <3>1, <3>3, <3>4, SMT DEF Reckoned
  <2>2. Reckoned(y + 1) = Reckoned(y) + 365 + LeapDay(y) /\ LeapDay(y) \in 0..1
    BY ReckonedNext, LeapDayTyped
  <2>3. Table(y, m) + MonthLength(y, m) <= 365 + LeapDay(y)
    <3>1. (153 * (12 - 3) + 2) \div 5 = 275
      OBVIOUS
    <3>2. Table(y, 12) = 334 + LeapDay(y) /\ MonthLength(y, 12) = 31
      BY <2>2, <3>1 DEF Table, MonthLength
    <3>3. CASE m = 12
      BY <2>2, <3>2, <3>3
    <3>4. CASE m # 12
      <4>1. m \in 1..11 /\ m + 1 \in 1..12 /\ 12 \in 1..12 /\ m + 1 <= 12
        BY <3>4
      <4>2. Table(y, m + 1) = Table(y, m) + MonthLength(y, m)
        BY <4>1, TableSteps
      <4>3. Table(y, m + 1) <= Table(y, 12)
        BY <4>1, TableGrows
      <4> QED
        BY <1>1, <2>2, <3>2, <4>2, <4>3
    <3> QED
      BY <3>3, <3>4
  <2> QED
    BY <1>1, <2>1, <2>2, <2>3
<1>3. CASE y = z /\ m < n
  <2>1. m \in 1..11 /\ m + 1 \in 1..12 /\ m + 1 <= n
    BY <1>3
  <2>2. Table(y, m + 1) = Table(y, m) + MonthLength(y, m)
    BY <2>1, TableSteps
  <2>3. Table(y, m + 1) <= Table(y, n)
    BY <2>1, TableGrows
  <2> QED
    BY <1>1, <1>3, <2>2, <2>3
<1> QED
  BY <1>2, <1>3

\* No month begins inside another.
LEMMA NoStartInside ==
  ASSUME NEW y \in Nat, y >= 1969, NEW m \in 1..12, NEW z \in Nat, z >= 1969, NEW n \in 1..12,
         Start(y, m) <= Start(z, n), Start(z, n) < Start(y, m) + MonthLength(y, m)
  PROVE  y = z /\ m = n
<1>1. /\ Start(y, m) \in Int /\ Start(z, n) \in Int
      /\ MonthLength(y, m) \in 28..31 /\ MonthLength(z, n) \in 28..31
  BY StartTyped, MonthTyped
<1>2. ~(y < z \/ (y = z /\ m < n))
  BY <1>1, MonthsInOrder
<1>3. ~(z < y \/ (z = y /\ n < m))
  <2>1. (z < y \/ (z = y /\ n < m)) => Start(z, n) + MonthLength(z, n) <= Start(y, m)
    BY MonthsInOrder
  <2> QED
    BY <1>1, <2>1
<1> QED
  BY <1>2, <1>3

\* The code's date of a day is one the calendar has, and the code gives the day
\* back for it.
LEMMA DayBack ==
  ASSUME NEW day \in Int
  PROVE  LET c == civil_from_days(day) IN
           /\ c.y \in Int /\ c.m \in 1..12 /\ c.d \in Int
           /\ 1 <= c.d /\ c.d <= MonthLength(c.y, c.m)
           /\ days_from_civil(c.y, c.m, c.d) = day
           /\ Elapsed(IF c.m <= 2 THEN c.y - 1 ELSE c.y) <= day + 719468
           /\ day + 719468 <= Elapsed(IF c.m <= 2 THEN c.y - 1 ELSE c.y) + 365
<1>1. PICK era, doe \in Int : /\ Era(day) = era /\ DayOfEra(day) = doe
                              /\ 0 <= doe /\ doe <= 146096 /\ day = (era * 146097 + doe) - 719468
  BY EraOfDay, SMT
<1>2. YearOf(doe) \in 0..399 /\ DayOf(doe) \in 0..365
  BY <1>1, EraDivided, SMT
<1>3. PICK n \in Int : YearOf(doe) = n /\ 0 <= n /\ n <= 399
  BY <1>2, SMT
<1>4. PICK doy \in Int : DayOf(doe) = doy /\ 0 <= doy /\ doy <= 365
  BY <1>2, SMT
<1>5. doy = 365 => n % 4 = 3 /\ (n % 100 = 99 => n = 399)
  BY <1>1, <1>3, <1>4, EraDivided, SMT
<1>6. PICK p, q \in Int : /\ p = n \div 4 /\ q = n \div 100
                          /\ 4 * p <= n /\ n < 4 * p + 4
                          /\ 100 * q <= n /\ n < 100 * q + 100
  BY Quotients, SMT
<1>7. doy = doe - ((365 * n + p) - q)
  BY <1>1, <1>3, <1>4, <1>6, SMT DEF DayOf
<1>8. PICK mp \in Int : MonthOf(doy) = mp /\ 0 <= mp /\ mp <= 11
  BY <1>4, YearDivided, SMT
<1>9. PICK f \in Int : FirstOf(mp) = f
  BY <1>4, <1>8, YearDivided, SMT
<1>10. f <= doy /\ doy < FirstOf(mp + 1)
  BY <1>4, <1>8, <1>9, YearDivided, SMT
<1>11. PICK m \in Int : m = (IF mp < 10 THEN mp + 3 ELSE mp - 9) /\ 1 <= m /\ m <= 12
  BY <1>8, SMT
<1>12. PICK z \in Int : z = n + era * 400
  BY SMT
<1>13. PICK y \in Int : y = z + (IF m <= 2 THEN 1 ELSE 0)
  BY SMT
<1>14. PICK d \in Int : d = doy - f + 1 /\ d = (doy - f) + 1
  BY SMT
<1>15. civil_from_days(day) = [y |-> y, m |-> m, d |-> d]
  BY <1>1, <1>3, <1>4, <1>8, <1>9, <1>11, <1>12, <1>13, <1>14, CivilIs, SMT
<1>16. z \div 400 = era /\ z - era * 400 = n /\ z \div 4 = p + 100 * era /\ z \div 100 = q + 4 * era
  BY <1>3, <1>6, <1>12, SMT
<1>17. /\ m <= 2 <=> mp >= 10
       /\ m <= 2 => mp = m + 9
       /\ m > 2 => mp = m - 3
       /\ z = (IF m <= 2 THEN y - 1 ELSE y)
  BY <1>8, <1>11, <1>13, SMT
<1>18. days_from_civil(y, m, d) = day
  <2>1. mp = (IF m > 2 THEN m - 3 ELSE m + 9)
    BY <1>17, SMT
  <2>2. PICK doy2 \in Int : doy2 = f + d - 1
    BY SMT
  <2>3. days_from_civil(y, m, d) = era * 146097 + n * 365 + p - q + doy2 - 719468
    BY <1>6, <1>9, <1>16, <1>17, <2>1, <2>2, SMT DEF days_from_civil, FirstOf
  <2>4. doy2 = doy
    BY <1>14, <2>2, SMT
  <2> QED
    BY <1>1, <1>7, <2>3, <2>4, SMT
<1>19. d <= MonthLength(y, m)
  <2>1. CASE mp <= 10
    <3>1. FirstOf(mp + 1) - f = MonthLength(y, m) /\ MonthLength(y, m) \in Int
      BY <1>8, <1>9, <1>11, <2>1, MarchOn, MonthTyped, SMT
    <3>2. FirstOf(mp + 1) \in Int
      BY <1>8, SMT DEF FirstOf
    <3> QED
      BY <1>10, <1>14, <3>1, <3>2, SMT
  <2>2. CASE mp = 11
    <3>1. m = 2 /\ f = 337 /\ z = y - 1
      <4>1. FirstOf(11) = 337
        BY SMT DEF FirstOf
      <4> QED
        BY <1>9, <1>11, <1>17, <2>2, <4>1, SMT
    <3>2. MonthLength(y, 2) \in {28, 29} /\ (IsLeap(y) => MonthLength(y, 2) = 29)
      BY SMT DEF MonthLength
    <3>3. CASE doy = 365
      <4>1. n = 4 * p + 3 /\ (n = 100 * q + 99 => n = 399)
        BY <1>5, <1>6, <3>3, SMT
      <4>2. y % 4 = 0 /\ (y % 100 # 0 \/ y % 400 = 0)
        <5>1. y = (n + 1) + era * 400
          BY <1>12, <3>1, SMT
        <5>2. y % 4 = 0
          BY <4>1, <5>1, SMT
        <5>3. CASE n = 399
          BY <5>1, <5>2, <5>3, SMT
        <5>4. CASE n # 399
          <6>1. n < 100 * q + 99
            BY <1>6, <4>1, <5>4, SMT
          <6>2. y = (100 * (q + 4 * era)) + ((n + 1) - 100 * q) /\ (n + 1) - 100 * q \in 1..99
            BY <1>6, <5>1, <6>1, SMT
          <6>3. y % 100 # 0
            BY <6>2, SMT
          <6> QED
            BY <5>2, <6>3
        <5> QED
          BY <5>3, <5>4
      <4> QED
        BY <1>14, <3>1, <3>2, <3>3, <4>2, SMT DEF IsLeap
    <3>4. CASE doy # 365
      BY <1>4, <1>14, <3>1, <3>2, <3>4, SMT
    <3> QED
      BY <3>3, <3>4
  <2> QED
    BY <1>8, <2>1, <2>2, SMT
<1>20. Elapsed(z) = (day + 719468) - doy /\ Elapsed(z) \in Int
  BY <1>1, <1>7, <1>12, <1>16, SMT DEF Elapsed
<1>21. 1 <= d
  BY <1>10, <1>14, SMT
<1> QED
  BY <1>4, <1>11, <1>15, <1>17, <1>18, <1>19, <1>20, <1>21, SMT

\* From 1970 on it is the calendar's date of the day.
LEMMA DayPlaced ==
  ASSUME NEW day \in Nat
  PROVE  LET c == civil_from_days(day) IN
           /\ c.y \in Nat /\ c.y >= 1969 /\ c.m \in 1..12 /\ c.d \in Int
           /\ 1 <= c.d /\ c.d <= MonthLength(c.y, c.m)
           /\ Start(c.y, c.m) + c.d - 1 = day
<1>1. PICK c : c = civil_from_days(day)
  OBVIOUS
<1>2. /\ c.y \in Int /\ c.m \in 1..12 /\ c.d \in Int
      /\ 1 <= c.d /\ c.d <= MonthLength(c.y, c.m)
      /\ days_from_civil(c.y, c.m, c.d) = day
      /\ day + 719468 <= Elapsed(IF c.m <= 2 THEN c.y - 1 ELSE c.y) + 365
  BY <1>1, DayBack, SMT
<1>3. PICK z \in Int : z = (IF c.m <= 2 THEN c.y - 1 ELSE c.y)
  BY <1>2, SMT
<1>4. z >= 1969
  <2> SUFFICES ASSUME ~(z >= 1969)
               PROVE  FALSE
    BY SMT
  <2>1. Elapsed(z) + 365 * (1968 - z) - 2 <= Elapsed(1968)
    BY ElapsedGrows, SMT
  <2>2. Elapsed(1968) = 718797
    <3>1. 1968 \div 4 = 492 /\ 1968 \div 100 = 19 /\ 1968 \div 400 = 4
      BY SMT
    <3> QED
      BY <3>1, SMT DEF Elapsed
  <2>3. Elapsed(z) \in Int
    BY ElapsedNext, SMT
  <2> QED
    BY <1>2, <1>3, <2>1, <2>2, <2>3, SMT
<1>5. c.y \in Nat /\ c.y >= 1969
  BY <1>2, <1>3, <1>4, SMT
<1>6. days_from_civil(c.y, c.m, c.d) = Start(c.y, c.m) + c.d - 1
  BY <1>2, <1>5, DaysRight, SMT
<1> QED
  BY <1>1, <1>2, <1>5, <1>6, SMT

LEMMA MonthStartsAre == MonthStarts = {Start(y, m) : y \in Years, m \in 1..12}
BY SMT DEF MonthStarts, Start, Before, MapThenSumSet, MapThenFoldSet

\* The calendar's years cover a day if the year it falls in is one of them and
\* the year before is another.
Covered(day) ==
    /\ Years \subseteq {y \in Nat : y >= 1969}
    /\ \E y \in Years : y - 1 \in Years /\ YearStart(y) <= day /\ day < YearStart(y + 1)

\* The year of a covered day is one of Years, and so is the one before.
LEMMA YearIsCovered ==
  ASSUME NEW day \in Nat, Covered(day),
         NEW y \in Nat, y >= 1969, NEW m \in 1..12,
         Start(y, m) <= day, day < Start(y, m) + MonthLength(y, m)
  PROVE  y \in Years /\ y - 1 \in Years
<1>1. PICK z \in Years : z - 1 \in Years /\ YearStart(z) <= day /\ day < YearStart(z + 1)
  BY SMT DEF Covered
<1>2. z \in Nat /\ z >= 1969
  BY <1>1, SMT DEF Covered
<1>3. /\ Start(y, m) \in Int /\ MonthLength(y, m) \in 28..31 /\ 1 \in 1..12 /\ 12 \in 1..12
      /\ z + 1 \in Nat /\ z + 1 >= 1969
  BY <1>2, StartTyped, MonthTyped, SMT
<1>4. YearStart(z) = Start(z, 1) /\ YearStart(z + 1) = Start(z + 1, 1)
  <2>1. Table(z, 1) = 0 /\ Table(z + 1, 1) = 0
    BY SMT DEF Table
  <2>2. Start(z, 1) = Reckoned(z) + 0 /\ Start(z + 1, 1) = Reckoned(z + 1) + 0
    BY <1>2, <1>3, <2>1, StartTyped, SMT
  <2>3. YearStart(z) = Reckoned(z) /\ YearStart(z + 1) = Reckoned(z + 1)
    BY <1>2, <1>3, YearStarts, SMT
  <2>4. Reckoned(z) \in Int /\ Reckoned(z + 1) \in Int
    BY <1>2, ReckonedNext, SMT
  <2> QED
    BY <2>2, <2>3, <2>4, SMT
<1>5. ~(y < z)
  <2>1. y < z => Start(y, m) + MonthLength(y, m) <= Start(z, 1)
    BY <1>2, <1>3, MonthsInOrder, SMT
  <2>2. Start(z, 1) \in Int
    BY <1>2, <1>3, StartTyped, SMT
  <2> QED
    BY <1>1, <1>3, <1>4, <2>1, <2>2, SMT
<1>6. ~(z < y)
  <2>1. z < y => Start(z, 12) + MonthLength(z, 12) <= Start(y, m)
    BY <1>2, <1>3, MonthsInOrder, SMT
  <2>2. Start(z, 12) + MonthLength(z, 12) = Start(z + 1, 1)
    BY <1>2, <1>3, MonthEnds, SMT
  <2>3. Start(z + 1, 1) \in Int
    BY <1>3, StartTyped, SMT
  <2> QED
    BY <1>1, <1>3, <1>4, <2>1, <2>2, <2>3, SMT
<1> QED
  BY <1>1, <1>2, <1>5, <1>6, SMT

\* A period begins on day d of a month, and ends before day d of the next.
LEMMA PeriodMonth ==
  ASSUME NEW t \in Nat, Covered(t \div DaySecs), NEW d \in Int, valid_reset_day(d)
  PROVE  \E y \in Years, m \in 1..12 :
           LET day == t \div DaySecs IN
             /\ y \in Nat /\ y >= 1969
             /\ current_period_start(t, d) = DaySecs * (Start(y, m) + d - 1)
             /\ Start(y, m) + d - 1 <= day
             /\ day + 1 - d < Start(y, m) + MonthLength(y, m)
<1>1. PICK day \in Nat : day = t \div DaySecs
  BY SMT DEF DaySecs
<1>2. PICK c : c = civil_from_days(day)
  OBVIOUS
<1>3. PICK y \in Nat, m \in 1..12, e \in Int :
        /\ c.y = y /\ c.m = m /\ c.d = e
        /\ y >= 1969 /\ 1 <= e /\ e <= MonthLength(y, m)
        /\ Start(y, m) + e - 1 = day
  <2>1. /\ c.y \in Nat /\ c.y >= 1969 /\ c.m \in 1..12 /\ c.d \in Int
        /\ 1 <= c.d /\ c.d <= MonthLength(c.y, c.m)
        /\ Start(c.y, c.m) + c.d - 1 = day
    BY <1>2, DayPlaced, SMT
  <2> QED
    BY <2>1, SMT
<1>4. 1 <= d /\ d <= 28
  BY SMT DEF valid_reset_day
<1>5. Start(y, m) \in Int /\ MonthLength(y, m) \in 28..31
  BY <1>3, StartTyped, MonthTyped, SMT
<1>6. y \in Years /\ y - 1 \in Years
  BY <1>1, <1>3, <1>5, YearIsCovered, SMT
<1>7. y - 1 >= 1969 /\ y - 1 \in Nat
  BY <1>1, <1>6, SMT DEF Covered
<1>8. current_period_start(t, d) =
        DaySecs * (IF e >= d THEN days_from_civil(y, m, d)
                   ELSE IF m = 1 THEN days_from_civil(y - 1, 12, d)
                   ELSE days_from_civil(y, m - 1, d))
  BY <1>1, <1>2, <1>3, SMT DEF current_period_start
<1>9. CASE e >= d
  <2>1. days_from_civil(y, m, d) = Start(y, m) + d - 1
    BY <1>3, DaysRight, SMT
  <2>2. current_period_start(t, d) = DaySecs * (Start(y, m) + d - 1)
    BY <1>8, <1>9, <2>1, SMT
  <2>3. Start(y, m) + d - 1 <= day /\ day + 1 - d < Start(y, m) + MonthLength(y, m)
    BY <1>3, <1>4, <1>5, <1>9, SMT
  <2> QED
    BY <1>1, <1>3, <1>6, <2>2, <2>3, SMT
<1>10. CASE e < d /\ m = 1
  <2>1. 12 \in 1..12 /\ (y - 1) + 1 = y
    BY SMT
  <2>2. days_from_civil(y - 1, 12, d) = Start(y - 1, 12) + d - 1
    BY <1>7, <2>1, DaysRight, SMT
  <2>3. current_period_start(t, d) = DaySecs * (Start(y - 1, 12) + d - 1)
    BY <1>8, <1>4, <1>10, <2>2, SMT
  <2>4. Start(y - 1, 12) + MonthLength(y - 1, 12) = Start(y, 1)
    BY <1>7, <2>1, MonthEnds, SMT
  <2>5. Start(y - 1, 12) \in Int /\ MonthLength(y - 1, 12) \in 28..31
    BY <1>7, <2>1, StartTyped, MonthTyped, SMT
  <2>6. Start(y - 1, 12) + d - 1 <= day /\ day + 1 - d < Start(y - 1, 12) + MonthLength(y - 1, 12)
    BY <1>3, <1>4, <1>5, <1>10, <2>4, <2>5, SMT
  <2> QED
    BY <1>1, <1>6, <1>7, <2>1, <2>3, <2>6, SMT
<1>11. CASE e < d /\ m # 1
  <2>1. m - 1 \in 1..12 /\ m - 1 # 12 /\ (m - 1) + 1 = m
    BY <1>11, SMT
  <2>2. days_from_civil(y, m - 1, d) = Start(y, m - 1) + d - 1
    BY <1>3, <2>1, DaysRight, SMT
  <2>3. current_period_start(t, d) = DaySecs * (Start(y, m - 1) + d - 1)
    BY <1>8, <1>4, <1>11, <2>2, SMT
  <2>4. Start(y, m - 1) + MonthLength(y, m - 1) = Start(y, m)
    BY <1>3, <2>1, MonthEnds, SMT
  <2>5. Start(y, m - 1) \in Int /\ MonthLength(y, m - 1) \in 28..31
    BY <1>3, <2>1, StartTyped, MonthTyped, SMT
  <2>6. Start(y, m - 1) + d - 1 <= day /\ day + 1 - d < Start(y, m - 1) + MonthLength(y, m - 1)
    BY <1>3, <1>4, <1>5, <1>11, <2>4, <2>5, SMT
  <2> QED
    BY <1>1, <1>3, <1>6, <2>1, <2>3, <2>6, SMT
<1> QED
  BY <1>3, <1>4, <1>9, <1>10, <1>11, SMT

\* The period of a moment begins at the last midnight that opened a day with the
\* reset day's number.
LEMMA PeriodPlaced ==
  ASSUME NEW t \in Nat, Covered(t \div DaySecs), NEW d \in Int, valid_reset_day(d)
  PROVE  LET today == t \div DaySecs
             start == current_period_start(t, d)
         IN  /\ start % DaySecs = 0 /\ start <= t
             /\ {day \in start \div DaySecs .. today : IsNumbered(day, d)}
                  = {start \div DaySecs}
<1>1. PICK today \in Nat : today = t \div DaySecs /\ DaySecs * today <= t
  BY SMT DEF DaySecs
<1>2. PICK y \in Years, m \in 1..12 :
        /\ y \in Nat /\ y >= 1969
        /\ current_period_start(t, d) = DaySecs * (Start(y, m) + d - 1)
        /\ Start(y, m) + d - 1 <= today
        /\ today + 1 - d < Start(y, m) + MonthLength(y, m)
  BY <1>1, PeriodMonth, SMT
<1>3. Start(y, m) \in Int /\ MonthLength(y, m) \in 28..31
  BY <1>2, StartTyped, MonthTyped, SMT
<1>4. PICK s \in Int : s = Start(y, m) + d - 1 /\ s <= today
  BY <1>2, <1>3, SMT
<1>5. PICK start \in Int : start = current_period_start(t, d) /\ start = DaySecs * s
  BY <1>2, <1>4, SMT DEF DaySecs
<1>6. start % DaySecs = 0 /\ start <= t /\ start \div DaySecs = s
  BY <1>1, <1>4, <1>5, SMT DEF DaySecs
<1>7. IsNumbered(s, d)
  <2>1. s + 1 - d = Start(y, m)
    BY <1>3, <1>4, SMT
  <2> QED
    BY <1>2, <2>1, MonthStartsAre, SMT DEF IsNumbered
<1>8. ASSUME NEW x \in s .. today, IsNumbered(x, d)
      PROVE  x = s
  <2>1. PICK z \in Years, n \in 1..12 : x + 1 - d = Start(z, n)
    BY <1>8, MonthStartsAre, SMT DEF IsNumbered
  <2>2. z \in Nat /\ z >= 1969
    BY SMT DEF Covered
  <2>3. Start(y, m) <= Start(z, n) /\ Start(z, n) < Start(y, m) + MonthLength(y, m)
    BY <1>2, <1>3, <1>4, <2>1, SMT
  <2>4. y = z /\ m = n
    BY <1>2, <2>2, <2>3, NoStartInside, SMT
  <2> QED
    BY <1>3, <1>4, <2>1, <2>4, SMT
<1>9. {x \in s .. today : IsNumbered(x, d)} = {s}
  BY <1>4, <1>7, <1>8, SMT
<1> QED
  BY <1>1, <1>5, <1>6, <1>9, SMT

-----------------------------------------------------------------------------
(* The theorems.                                                           *)

LEMMA CounterInit == Init => CounterInv
<1> SUFFICES ASSUME Init
             PROVE  CountInv /\ PeriodInv
  BY TypesInit DEF CounterInv
<1>1. \A n \in Nodes : oldest[n] = 0 /\ row[n].total = 0
  BY DEF Init
<1>2. pending = {}
  BY DEF Init
<1> QED
  BY <1>1, <1>2 DEF CountInv, PeriodInv

LEMMA CounterStep == CounterInv /\ [Next]_vars => CounterInv'
BY TrafficTypesStep, TablesTypesStep, CountersStep DEF CounterInv, TypeOK

\* The tables, the counters and what waits to be counted keep their types.
THEOREM TelemetryTypeCorrect == Spec => []TypeOK
<1>1. CounterInv => TypeOK
  BY DEF CounterInv
<1> QED
  BY <1>1, CounterInit, CounterStep, PTL DEF Spec

\* accumulate of traffic.rs: in whatever order the spawned tasks reach its
\* UPDATE, and however the clock is set, no second is counted twice.
THEOREM TrafficCountedOnce == Spec => []CountedOnce
<1>1. CounterInv => CountedOnce
  BY DEF CounterInv, CountInv, CountedOnce
<1> QED
  BY <1>1, CounterInit, CounterStep, PTL DEF Spec

\* sweep_resets, rename and accumulate: what a node's counters hold belongs to its
\* period, apart from the stretch before its first report and from the nodes that
\* are mixed: a rename kept what they held, reports from before the period were
\* still to be counted, the clock went back before the period began, or it was
\* noted for the first time.
THEOREM PeriodsAreClean == Spec => []PeriodClean
<1>1. CounterInv => PeriodClean
  BY DEF CounterInv, PeriodInv, PeriodClean
<1> QED
  BY <1>1, CounterInit, CounterStep, PTL DEF Spec

\* rollup and the deletions of retention.rs: whichever statements fail, whatever
\* comes late and whenever the server restarts, the long views miss no sample they
\* owe.  They owe none past its retention, none that came while the clock stood
\* hours behind the cursor, none that a purge deleted before the roll-up was done
\* with it, and none deleted from an hour that is rolled up again because the
\* cursor could not be read or because the clock was set back.
THEOREM HistoryIsComplete == Spec => []HistoryComplete
<1>1. Init => HistoryInv
  <2>1. Init => RollupInv /\ HistoryComplete
    <3> SUFFICES ASSUME Init
                 PROVE  RollupInv /\ HistoryComplete
      OBVIOUS
    <3>1. cursor = 3600 * 0 /\ rollup = {} /\ owed = {}
      BY DEF Init
    <3>2. \E k \in Nat : cursor = 3600 * k
      BY <3>1
    <3> QED
      BY <3>1, <3>2 DEF RollupInv, HistoryComplete
  <2> QED
    BY <2>1, TypesInit DEF HistoryInv
<1>2. HistoryInv /\ [Next]_vars => HistoryInv'
  BY TrafficTypesStep, TablesTypesStep, HistoryStep DEF HistoryInv, TypeOK
<1>3. HistoryInv => HistoryComplete
  BY DEF HistoryInv
<1> QED
  BY <1>1, <1>2, <1>3, PTL DEF Spec

\* validate_and_clean_metrics, the roll-up and the views of nodes.rs and dataout.rs:
\* whatever was reported, whatever of the tables is deleted and however long the
\* view, no mean, maximum or sum of it shows more in use than there is.
THEOREM ViewsStayWithinTotal == Spec => []UsedWithinTotal
<1>1. Init => TypeOK /\ MeasureInv
  <2>1. Init => Consistent(raw) /\ IsFiniteSet(rollup) /\ rollup = {}
    BY FS_EmptySet DEF Init, Consistent
  <2> QED
    BY <2>1, TypesInit DEF MeasureInv
<1>2. (TypeOK /\ MeasureInv) /\ [Next]_vars => (TypeOK /\ MeasureInv)'
  BY TrafficTypesStep, TablesTypesStep, MeasureStep DEF TypeOK
<1>3. TypeOK /\ MeasureInv => UsedWithinTotal
  BY ViewsWithin
<1> QED
  BY <1>1, <1>2, <1>3, PTL DEF Spec

\* What the last theorem asks of the constants: the calendar's years, of 1969 and
\* later, cover every day the clock may show.
YearsCovered == \A t \in Instants : Covered(t \div DaySecs)

\* Whatever moment the clock shows and whatever reset day is set, the period that
\* current_period_start of traffic.rs computes began at the last midnight that
\* opened a day of that number.
THEOREM PeriodsStartRight ==
  ASSUME YearsCovered
  PROVE  Spec => []PeriodStartRight
<1>1. Init => clock \in Instants
  BY DEF Init
<1>2. clock \in Instants /\ [Next]_vars => (clock \in Instants)'
  BY DEF Next, Round, vars, traffic, tables, Tick, RollUp, Purge, Expire, SweepRead, SweepWrite,
         RoundEnds, Restart, ClockShows, Accumulate, Metrics, Backfill, Rename
<1>3. clock \in Instants => PeriodStartRight
  <2> SUFFICES ASSUME clock \in Instants
               PROVE  clock \in RightlyPlaced
    BY DEF PeriodStartRight
  <2>1. PICK t \in Nat : t = clock /\ Covered(t \div DaySecs)
    BY ConstantTypes DEF YearsCovered
  <2>2. \A d \in ResetDays : valid_reset_day(d) =>
          LET today == t \div DaySecs
              start == current_period_start(t, d)
          IN  /\ start % DaySecs = 0 /\ start <= t
              /\ {day \in start \div DaySecs .. today : IsNumbered(day, d)}
                   = {start \div DaySecs}
    BY <2>1, ConstantTypes, PeriodPlaced
  <2> QED
    BY <2>1, <2>2 DEF RightlyPlaced
<1> QED
  BY <1>1, <1>2, <1>3, PTL DEF Spec

=============================================================================
