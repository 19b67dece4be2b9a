------------------------------ MODULE Calendar ------------------------------
(***************************************************************************)
(* The integer calendar of traffic.rs: days since 1970-01-01 to a date and *)
(* back, and the start of the statistics period a moment belongs to.  A    *)
(* second definition, which counts the lengths of the months, says what    *)
(* the first has to compute.                                               *)
(***************************************************************************)
EXTENDS Integers, FiniteSets, FiniteSetsExt

CONSTANT Years      \* bound: the years, from 1970 on, the second definition covers

DaySecs == 86400

-----------------------------------------------------------------------------
(* As the code computes it.  Its division rounds towards zero and is set   *)
(* right for the years before 0; \div rounds down of itself.               *)

civil_from_days(days) ==
    LET z   == days + 719468
        era == z \div 146097
        doe == z - era * 146097
        yoe == (doe - doe \div 1460 + doe \div 36524 - doe \div 146096) \div 365
        doy == doe - (365 * yoe + yoe \div 4 - yoe \div 100)
        mp  == (5 * doy + 2) \div 153
        m   == IF mp < 10 THEN mp + 3 ELSE mp - 9
    IN  [y |-> yoe + era * 400 + (IF m <= 2 THEN 1 ELSE 0),
         m |-> m,
         d |-> doy - (153 * mp + 2) \div 5 + 1]

days_from_civil(year, m, d) ==
    LET y   == IF m <= 2 THEN year - 1 ELSE year
        era == y \div 400
        yoe == y - era * 400
        mp  == IF m > 2 THEN m - 3 ELSE m + 9
        doy == (153 * mp + 2) \div 5 + d - 1
    IN  era * 146097 + yoe * 365 + yoe \div 4 - yoe \div 100 + doy - 719468

valid_reset_day(d) == d \in 1 .. 28

\* Variant with a fault: the reset day itself still belongs to the last period.
PeriodStartAfterDay(now, reset_day) ==
    LET c == civil_from_days(now \div DaySecs) IN
      DaySecs * (IF c.d > reset_day THEN days_from_civil(c.y, c.m, reset_day)
                 ELSE IF c.m = 1 THEN days_from_civil(c.y - 1, 12, reset_day)
                 ELSE days_from_civil(c.y, c.m - 1, reset_day))

\* Midnight (UTC) of the last day of the month numbered reset_day.
current_period_start(now, reset_day) ==
    LET c == civil_from_days(now \div DaySecs) IN
      DaySecs * (IF c.d >= reset_day THEN days_from_civil(c.y, c.m, reset_day)
                 ELSE IF c.m = 1 THEN days_from_civil(c.y - 1, 12, reset_day)
                 ELSE days_from_civil(c.y, c.m - 1, reset_day))

-----------------------------------------------------------------------------
(* As the calendar is defined.                                             *)

IsLeap(y) == y % 4 = 0 /\ (y % 100 # 0 \/ y % 400 = 0)

MonthLength(y, m) ==
    IF m = 2 THEN IF IsLeap(y) THEN 29 ELSE 28
    ELSE IF m \in {4, 6, 9, 11} THEN 30 ELSE 31

YearStart(y) == 365 * (y - 1970) + Cardinality({k \in 1970 .. y - 1 : IsLeap(k)})

\* The days on which the months of Years begin.
MonthStarts ==
    {YearStart(y) + MapThenSumSet(LAMBDA k : MonthLength(y, k), 1 .. m - 1) :
       y \in Years, m \in 1 .. 12}

\* The day is the d-th of its month, for the d that every month has.
IsNumbered(day, d) == day + 1 - d \in MonthStarts
=============================================================================
