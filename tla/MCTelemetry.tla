---------------------------- MODULE MCTelemetry ----------------------------
(***************************************************************************)
(* A small instance of Telemetry.  `scene', chosen at the start, says what *)
(* a behaviour is about.  The counters: the clock stands around the turn   *)
(* of a year and of a February with 29 days, the reset day is changed, and *)
(* one node reports; what the round does to the tables fails there.  The   *)
(* tables: two nodes back-fill (which stores a sample of the present       *)
(* second as a report does) around a few hours, a day and a week.  The     *)
(* calendar: only the clock moves, by days, through a century year, a leap *)
(* year and a common one.                                                  *)
(***************************************************************************)
EXTENDS Telemetry

CONSTANTS MaxSamples

VARIABLE scene

At(y, m, d, secs) == days_from_civil(y, m, d) * DaySecs + secs

TrafficInstants ==
    {At(2023, 12, 31, DaySecs - 10), At(2024, 1, 1, 5), At(2024, 1, 1, 25), At(2024, 2, 29, 0)}

HistoryInstants ==
    {At(2024, 5, 9, 7 * 3600 + 300), At(2024, 5, 9, 8 * 3600 + 600),
     At(2024, 5, 9, 9 * 3600 + 300),
     At(2024, 5, 10, 10 * 3600 + 30), At(2024, 5, 17, 12 * 3600)}

CalendarInstants ==
    {day * DaySecs + 43200 : day \in days_from_civil(2000, 1, 25) .. days_from_civil(2000, 4, 2)
                             \cup days_from_civil(2023, 11, 27) .. days_from_civil(2025, 3, 2)}

MCInstants == TrafficInstants \cup HistoryInstants \cup CalendarInstants

Sound == [finite |-> TRUE, used |-> 4, total |-> 10, rate |-> 3]
Contradictory == [finite |-> TRUE, used |-> 14, total |-> 6, rate |-> 1]
MCReports ==
    {Sound, Contradictory, [Sound EXCEPT !.finite = FALSE], [Sound EXCEPT !.total = 100]}

MCYears == 1999 .. 2025
MCViews == {86400, 40 * 86400}
MCResetDays == {1, 28, 31}

Scenes == [counters |-> TrafficInstants, tables |-> HistoryInstants,
           calendar |-> CalendarInstants]

Reporting == IF scene = "counters" THEN {CHOOSE n \in Nodes : TRUE} ELSE Nodes

MCInit ==
    /\ Init
    /\ scene \in DOMAIN Scenes
    /\ clock \in Scenes[scene]
    /\ \A n \in Nodes : row[n].on => scene = "counters" /\ n \in Reporting

\* Where in a round of the tables' scene others may come in: what they do at
\* the other steps they can do here as well.
Between == scene = "tables" => task \in {"sleep", "purge"}

Samples == raw \cup owed \cup UNION {r.of : r \in rollup}

MCNext ==
    /\ UNCHANGED scene
    /\ \/ \E t \in Scenes[scene] : Between /\ ClockShows(t)
       \/ scene # "calendar" /\ Round
       \/ scene # "calendar" /\ Between /\ Restart
       \/ /\ scene = "counters"
          /\ \/ \E p \in pending : Accumulate(p)
             \/ \E n \in Reporting, on \in BOOLEAN, d \in ResetDays :
                  (on \/ d = 1) /\ Rename(n, on, d)
             \/ /\ Cardinality(raw) < MaxSamples
                /\ \E n \in Reporting, t \in TrafficInstants, r \in Reports :
                     r # Contradictory /\ Metrics(n, t, r)
       \/ /\ scene = "tables" /\ Between
          /\ Cardinality(Samples) < MaxSamples
          /\ \E n \in Nodes, t \in HistoryInstants, r \in Reports : Backfill(n, t, r)
    /\ scene = "counters" => raw \subseteq raw' /\ UNCHANGED <<rollup, cursor>>

MCSpec == MCInit /\ [][MCNext]_<<vars, scene>>
=============================================================================
