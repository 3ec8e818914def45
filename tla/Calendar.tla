------------------------------ MODULE Calendar ------------------------------
(***************************************************************************)
(* Periods (internal/provisioner/bounds.go, internal/importer/interval.go, *)
(* the date in internal/naming/naming.go) against a calendar that advances *)
(* by one tick at a time.                                                  *)
(*                                                                         *)
(* The code computes the period of an instant from the instant alone, with *)
(* Go's time.Date, AddDate and Weekday.  The clock below never computes: it *)
(* carries from the hour to the day, the weekday, the month and the year,  *)
(* and remembers when each period began.                                   *)
(***************************************************************************)
EXTENDS Integers, Sequences

CONSTANTS
    Starts,   \* dates, a Monday and the first of a month, where clocks start
    PerHour,  \* instants told apart in an hour
    Count,    \* periods asked for, premake + 1
    MaxDays   \* bound: days a clock runs

ASSUME CalendarAssumption ==
    /\ \A s \in Starts : s.year \in Nat /\ s.year >= 1970 /\ s.month \in 1 .. 12
    /\ {PerHour, Count, MaxDays} \subseteq Nat \ {0}

VARIABLES
    t,      \* the instant, counted from 1970-01-01 00:00 UTC
    civil,  \* its calendar date, weekday and time of day
    began,  \* when the current period of each kind began
    left    \* days the clock still runs

vars == <<t, civil, began, left>>

Kinds == {"hourly", "daily", "weekly", "monthly"}
Monday == 1
Hour == PerHour
Day == 24 * Hour

-----------------------------------------------------------------------------
(* Go's time package *)

IsLeap(y) == y % 4 = 0 /\ (y % 100 # 0 \/ y % 400 = 0)
DaysInMonth(y, m) == IF m = 2 THEN (IF IsLeap(y) THEN 29 ELSE 28)
                     ELSE IF m \in {4, 6, 9, 11} THEN 30 ELSE 31

DaysBeforeYear(y) == 365 * (y - 1970) + (y - 1969) \div 4 - (y - 1901) \div 100 + (y - 1601) \div 400
DaysBefore == <<0, 31, 59, 90, 120, 151, 181, 212, 243, 273, 304, 334>>
DaysBeforeMonth(y, m) == DaysBefore[m] + (IF m > 2 /\ IsLeap(y) THEN 1 ELSE 0)

\* time.Date at midnight, as a day number; months and days past the end carry.
Date(y, m, d) ==
    LET yy == y + (m - 1) \div 12
        mm == ((m - 1) % 12) + 1
    IN DaysBeforeYear(yy) + DaysBeforeMonth(yy, mm) + d - 1

YearOf(n) == CHOOSE y \in 1970 + n \div 366 .. 1970 + n \div 365 :
                DaysBeforeYear(y) <= n /\ n < DaysBeforeYear(y + 1)
MonthOf(n) ==
    LET y == YearOf(n)
        low == (n - DaysBeforeYear(y)) \div 31 + 1
    IN CHOOSE m \in {low, low + 1} : Date(y, m, 1) <= n /\ n < Date(y, m + 1, 1)
DayOf(n) == n - Date(YearOf(n), MonthOf(n), 1) + 1
Weekday(n) == (n + 4) % 7

ASSUME StartsAssumption == \A s \in Starts : Weekday(Date(s.year, s.month, 1)) = Monday

DayNumber(at) == at \div Day
\* AddDate keeps the time of day.
AddDate(at, months, days) ==
    LET n == DayNumber(at) IN
    Date(YearOf(n), MonthOf(n) + months, DayOf(n) + days) * Day + (at % Day)

-----------------------------------------------------------------------------
(* The code *)

\* Mutant of floorUTC: weeks begin on Sunday.
floorUTCSunday(at, k) ==
    LET n == DayNumber(at) IN
    CASE k = "hourly" -> at - (at % Hour)
      [] k = "daily" -> n * Day
      [] k = "weekly" -> AddDate(n * Day, 0, -Weekday(n))
      [] k = "monthly" -> Date(YearOf(n), MonthOf(n), 1) * Day

floorUTC(at, k) ==
    LET n == DayNumber(at) IN
    CASE k = "hourly" -> at - (at % Hour)
      [] k = "daily" -> n * Day
      [] k = "weekly" -> AddDate(n * Day, 0, -((Weekday(n) + 6) % 7))
      [] k = "monthly" -> Date(YearOf(n), MonthOf(n), 1) * Day

\* Mutant of nextUTC: a month is taken for the thirty days of its constant.
nextUTCThirty(from, k) ==
    CASE k = "hourly" -> from + Hour
      [] k = "daily" -> AddDate(from, 0, 1)
      [] k = "weekly" -> AddDate(from, 0, 7)
      [] k = "monthly" -> from + 30 * Day

nextUTC(from, k) ==
    CASE k = "hourly" -> from + Hour
      [] k = "daily" -> AddDate(from, 0, 1)
      [] k = "weekly" -> AddDate(from, 0, 7)
      [] k = "monthly" -> AddDate(from, 1, 0)

BoundsFor(at, k) == [from |-> floorUTC(at, k), to |-> nextUTC(floorUTC(at, k), k)]

NextBoundsUTC(at, k, count) ==
    LET from[i \in 1 .. count] == IF i = 1 THEN floorUTC(at, k) ELSE nextUTC(from[i - 1], k)
    IN [i \in 1 .. count |-> [from |-> from[i], to |-> nextUTC(from[i], k)]]

\* Mutant of intervalMatches: months are compared by their constant.
intervalMatchesThirty(k, b) ==
    b.to - b.from = CASE k = "hourly" -> Hour [] k = "daily" -> Day
                      [] k = "weekly" -> 7 * Day [] k = "monthly" -> 30 * Day

intervalMatches(k, b) ==
    CASE k = "hourly" -> b.to - b.from = Hour
      [] k = "daily" -> b.to - b.from = Day
      [] k = "weekly" -> b.to - b.from = 7 * Day
      [] k = "monthly" -> AddDate(b.from, 1, 0) = b.to

\* Mutant of DateSuffix: month and day are swapped.
DateSuffixSwapped(from) ==
    LET n == DayNumber(from) IN YearOf(n) * 10000 + DayOf(n) * 100 + MonthOf(n)

\* The date of a name, 20060102, and how it is read back.
DateSuffix(from) ==
    LET n == DayNumber(from) IN YearOf(n) * 10000 + MonthOf(n) * 100 + DayOf(n)
ParseDate(s) == Date(s \div 10000, (s \div 100) % 100, s % 100) * Day

-----------------------------------------------------------------------------
(* The clock *)

TypeOK ==
    /\ t \in Nat /\ left \in 0 .. MaxDays
    /\ civil \in [year : Nat, month : 1 .. 12, day : 1 .. 31, weekday : 0 .. 6, tick : 0 .. Day - 1]
    /\ civil.day <= DaysInMonth(civil.year, civil.month)
    /\ began \in [Kinds -> 0 .. t]

Init ==
    \E s \in Starts :
       /\ t = Date(s.year, s.month, 1) * Day
       /\ civil = [year |-> s.year, month |-> s.month, day |-> 1, weekday |-> Monday, tick |-> 0]
       /\ began = [k \in Kinds |-> t]
       /\ left = MaxDays

Tick ==
    /\ civil.tick < Day - 1
    /\ t' = t + 1
    /\ civil' = [civil EXCEPT !.tick = @ + 1]
    /\ began' = IF civil'.tick % Hour = 0 THEN [began EXCEPT !["hourly"] = t'] ELSE began
    /\ UNCHANGED left

\* Mutant of Midnight: no carry from the day to the month.
MidnightNoCarry ==
    /\ civil.tick = Day - 1 /\ left > 0
    /\ t' = t + 1 /\ left' = left - 1
    /\ civil' = [civil EXCEPT !.tick = 0, !.weekday = (@ + 1) % 7, !.day = @ + 1]
    /\ began' = [k \in Kinds |-> IF k \in {"hourly", "daily"} THEN t' ELSE began[k]]

Midnight ==
    LET monthEnds == civil.day = DaysInMonth(civil.year, civil.month)
        yearEnds == monthEnds /\ civil.month = 12
        weekday == (civil.weekday + 1) % 7
    IN
    /\ civil.tick = Day - 1 /\ left > 0
    /\ t' = t + 1 /\ left' = left - 1
    /\ civil' = [year |-> IF yearEnds THEN civil.year + 1 ELSE civil.year,
                 month |-> IF yearEnds THEN 1 ELSE IF monthEnds THEN civil.month + 1 ELSE civil.month,
                 day |-> IF monthEnds THEN 1 ELSE civil.day + 1,
                 weekday |-> weekday, tick |-> 0]
    /\ began' = [k \in Kinds |-> IF \/ k \in {"hourly", "daily"}
                                    \/ k = "weekly" /\ weekday = Monday
                                    \/ k = "monthly" /\ monthEnds
                                   THEN t' ELSE began[k]]

Next == Tick \/ Midnight
Spec == Init /\ [][Next]_vars

-----------------------------------------------------------------------------
(* Properties *)

\* The window computed for an instant is the period it lies in: it begins
\* where the calendar says the hour, day, week or month began, and has not
\* ended (bounds.go BoundsFor, which drains route rows with).
InstantIsInPeriod ==
    \A k \in Kinds : BoundsFor(t, k).from = began[k] /\ t < BoundsFor(t, k).to

\* Partitions made ahead are the ones asked for later: as time passes the
\* list of periods loses its first when that is over, gains one at the end,
\* and no bound in between moves, over the ends of months and years and over
\* February (bounds.go NextBoundsUTC).
PremadeStands ==
    [][\A k \in Kinds :
          LET old == NextBoundsUTC(t, k, Count)  new == NextBoundsUTC(t', k, Count) IN
          IF t' < old[1].to THEN new = old
          ELSE /\ old[1].to = began'[k]
               /\ SubSeq(new, 1, Count - 1) = Tail(old)
               /\ Count > 1 => new[Count].from = old[Count].to]_vars

\* The pre-flight of Import accepts the periods of the parent's own kind and
\* of no other (importer/interval.go intervalMatches).
KindsTellApart ==
    \A j, k \in Kinds : intervalMatches(j, BoundsFor(t, k)) <=> j = k

\* The name of a daily, weekly or monthly partition gives its lower bound
\* back, as compareNameAndBound needs it (naming.go Build and Parse).
NameTellsPeriod ==
    \A k \in Kinds \ {"hourly"} : ParseDate(DateSuffix(floorUTC(t, k))) = began[k]

\* A window that begins at midnight and that the pre-flight of Import lets
\* pass is a period, as the Provisioner makes them (interval.go
\* intervalMatches, bounds.go floorUTC).
OnlyPeriodsMatch ==
    \A k \in Kinds \ {"hourly"} :
       LET b == [from |-> floorUTC(t, "daily"), to |-> nextUTC(floorUTC(t, "daily"), k)] IN
       intervalMatches(k, b) => b = BoundsFor(b.from, k)
=============================================================================
