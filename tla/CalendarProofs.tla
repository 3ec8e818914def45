--------------------------- MODULE CalendarProofs ---------------------------
(***************************************************************************)
(* Proofs about periods: for every instant from 1970 on, whatever the      *)
(* resolution of the clock.                                                *)
(***************************************************************************)
EXTENDS Calendar, FiniteSetTheorems, SequenceTheorems, WellFoundedInduction, TLAPS

-----------------------------------------------------------------------------
(* Arithmetic *)

\* Quotient and remainder are unique.
LEMMA DivMod ==
    ASSUME NEW d \in Nat \ {0}, NEW q \in Int, NEW r \in 0 .. d - 1
    PROVE  (q * d + r) \div d = q /\ (q * d + r) % d = r
OBVIOUS

\* A number is its quotient times the divisor and its remainder.
LEMMA ModSplit ==
    ASSUME NEW x \in Int, NEW d \in Nat \ {0}
    PROVE  \E q \in Int, r \in 0 .. d - 1 : r = x % d /\ x = q * d + r
<1>1. PICK q \in Int : q = x \div d
  OBVIOUS
<1>2. PICK r \in 0 .. d - 1 : r = x % d
  OBVIOUS
<1>3. x = q * d + r
  BY <1>1, <1>2
<1> QED BY <1>2, <1>3

\* Multiplication by a natural number keeps the order.
LEMMA Times ==
    ASSUME NEW a \in Int, NEW b \in Int, NEW d \in Nat, a <= b
    PROVE  a * d <= b * d
OBVIOUS

\* The remainder of the next number is the next one, or 0.
LEMMA ModNext ==
    ASSUME NEW x \in Nat, NEW d \in Nat \ {0}
    PROVE  (x + 1) % d = 0 \/ (x + 1) % d = (x % d) + 1
<1>2. PICK q \in Int, r \in 0 .. d - 1 : r = x % d /\ x = q * d + r
  <2>1. x \in Int
    OBVIOUS
  <2> QED BY <2>1, ModSplit
<1>3. x = q * d + r
  BY <1>2
<1>4. CASE r + 1 < d
  <2>1. r + 1 \in 0 .. d - 1 /\ x + 1 = q * d + (r + 1)
    BY <1>3, <1>4
  <2>2. (q * d + (r + 1)) % d = r + 1
    BY <2>1, DivMod
  <2> QED BY <1>2, <2>1, <2>2
<1>5. CASE r + 1 = d
  <2>1. 0 \in 0 .. d - 1 /\ q + 1 \in Int /\ x + 1 = (q + 1) * d + 0
    BY <1>3, <1>5
  <2>2. ((q + 1) * d + 0) % d = 0
    BY <2>1, DivMod
  <2> QED BY <2>1, <2>2
<1> QED BY <1>4, <1>5

\* Every non-empty set of numbers has a least element.
LEMMA LeastElement ==
    ASSUME NEW S \in SUBSET Nat, S # {}
    PROVE  \E p \in S : \A q \in S : p <= q
<1> DEFINE T == {0 .. p : p \in S}
<1>1. \A p \in S : IsFiniteSet(0 .. p) /\ 0 .. p \in SUBSET Nat
  BY FS_Interval
<1>2. T \subseteq FiniteSubsetsOf(Nat)
  <2> SUFFICES ASSUME NEW p \in S PROVE 0 .. p \in FiniteSubsetsOf(Nat)
    OBVIOUS
  <2> QED BY <1>1 DEF FiniteSubsetsOf
<1>3. T # {}
  <2>1. PICK p \in S : TRUE
    OBVIOUS
  <2>2. 0 .. p \in T
    OBVIOUS
  <2> QED BY <2>2
<1>4. IsWellFoundedOn(StrictSubsetOrdering(Nat), FiniteSubsetsOf(Nat))
  BY FS_StrictSubsetOrderingWellFounded
<1> HIDE DEF T
<1>5. PICK X \in T : \A Y \in T : ~ (<<Y, X>> \in StrictSubsetOrdering(Nat))
  BY <1>2, <1>3, <1>4, WFMin, Zenon
<1>6. PICK p \in S : X = 0 .. p
  BY DEF T
<1>7. ASSUME NEW q \in S, q < p PROVE FALSE
  <2>1. <<0 .. q, 0 .. p>> \in StrictSubsetOrdering(Nat)
    BY <1>7 DEF StrictSubsetOrdering
  <2>2. 0 .. q \in T
    BY DEF T
  <2> QED BY <1>5, <1>6, <2>1, <2>2
<1>8. \A q \in S : p <= q
  BY <1>7
<1> QED BY <1>8

-----------------------------------------------------------------------------
(* Years and months *)

\* Days before a year are counted by an integer.
LEMMA YearType == ASSUME NEW y \in Int PROVE DaysBeforeYear(y) \in Int
BY DEF DaysBeforeYear

\* A year has 365 days, or 366 when it is a leap year.
LEMMA YearLength ==
    ASSUME NEW y \in Nat, y >= 1970
    PROVE  DaysBeforeYear(y + 1) = DaysBeforeYear(y) + (IF IsLeap(y) THEN 366 ELSE 365)
BY DEF DaysBeforeYear, IsLeap

\* Years do not overlap.
LEMMA YearsAscend ==
    ASSUME NEW y \in Nat, NEW z \in Nat, 1970 <= y, y < z
    PROVE  DaysBeforeYear(y + 1) <= DaysBeforeYear(z)
BY DEF DaysBeforeYear

\* Every day is in a year between those that years of 365 and of 366 days give.
LEMMA YearBracket ==
    ASSUME NEW y \in Nat, y >= 1970, NEW n \in Int,
           DaysBeforeYear(y) <= n, n < DaysBeforeYear(y + 1)
    PROVE  y \in 1970 + n \div 366 .. 1970 + n \div 365
<1>1. DaysBeforeYear(y) >= 365 * (y - 1970)
  BY DEF DaysBeforeYear
<1>2. DaysBeforeYear(y + 1) <= 366 * (y - 1969)
  BY DEF DaysBeforeYear
<1>3. n >= 365 * (y - 1970) /\ n < 366 * (y - 1969)
  BY <1>1, <1>2, YearType
<1>4. n \div 365 >= y - 1970
  BY <1>3
<1>5. n \div 366 < y - 1969
  BY <1>3
<1> QED BY <1>4, <1>5

\* YearOf finds the year of a day.
LEMMA YearIs ==
    ASSUME NEW y \in Nat, y >= 1970, NEW n \in Int,
           DaysBeforeYear(y) <= n, n < DaysBeforeYear(y + 1)
    PROVE  YearOf(n) = y
<1> DEFINE P(x) == DaysBeforeYear(x) <= n /\ n < DaysBeforeYear(x + 1)
<1>1. n \in Nat
  <2>1. DaysBeforeYear(y) >= 0
    BY DEF DaysBeforeYear
  <2> QED BY <2>1, YearType
<1>2. y \in 1970 + n \div 366 .. 1970 + n \div 365 /\ P(y)
  BY YearBracket
<1>3. ASSUME NEW z \in 1970 + n \div 366 .. 1970 + n \div 365, P(z) PROVE z = y
  <2>1. z \in Nat /\ z >= 1970
    BY <1>1
  <2>2. CASE z < y
    <3>1. DaysBeforeYear(z + 1) <= DaysBeforeYear(y)
      BY <2>1, <2>2, YearsAscend
    <3>2. /\ DaysBeforeYear(y) \in Int /\ DaysBeforeYear(z + 1) \in Int
      BY <2>1, YearType
    <3> QED BY <1>2, <1>3, <3>1, <3>2
  <2>3. CASE y < z
    <3>1. DaysBeforeYear(y + 1) <= DaysBeforeYear(z)
      BY <2>1, <2>3, YearsAscend
    <3>2. /\ DaysBeforeYear(z) \in Int /\ DaysBeforeYear(y + 1) \in Int
      BY <2>1, YearType
    <3> QED BY <1>2, <1>3, <3>1, <3>2
  <2> QED BY <2>1, <2>2, <2>3
<1> HIDE DEF P
<1>4. (CHOOSE x \in 1970 + n \div 366 .. 1970 + n \div 365 : P(x)) = y
  BY <1>2, <1>3
<1> QED BY <1>4 DEF YearOf, P

\* A month has 28 to 31 days.
LEMMA MonthRange ==
    ASSUME NEW y \in Nat, NEW m \in 1 .. 12
    PROVE  DaysInMonth(y, m) \in 28 .. 31
BY DEF DaysInMonth

\* Date inside a year: no month is carried.
LEMMA DateIs ==
    ASSUME NEW y \in Int, NEW m \in 1 .. 12, NEW d \in Int
    PROVE  Date(y, m, d) = DaysBeforeYear(y) + DaysBeforeMonth(y, m) + d - 1
<1>1. (m - 1) \div 12 = 0 /\ ((m - 1) % 12) + 1 = m /\ y + 0 = y
  OBVIOUS
<1> QED BY <1>1 DEF Date

\* The thirteenth month is January of the next year.
LEMMA DateAfterYear ==
    ASSUME NEW y \in Int, NEW d \in Int
    PROVE  Date(y, 13, d) = DaysBeforeYear(y + 1) + d - 1
<1>1. (13 - 1) \div 12 = 1 /\ ((13 - 1) % 12) + 1 = 1
  OBVIOUS
<1>2. DaysBeforeMonth(y + 1, 1) = 0
  BY DEF DaysBeforeMonth, DaysBefore
<1> QED BY <1>1, <1>2, YearType DEF Date

\* A month later is as many days later as the month has.
LEMMA MonthLength ==
    ASSUME NEW y \in Nat, y >= 1970, NEW m \in 1 .. 12, NEW d \in Int
    PROVE  Date(y, m + 1, d) = Date(y, m, d) + DaysInMonth(y, m)
<1>0. DaysBeforeYear(y) \in Int /\ DaysBeforeYear(y + 1) \in Int
  BY YearType
<1>1. CASE m = 12
  <2>1. DaysBeforeMonth(y, 12) = 334 + (IF IsLeap(y) THEN 1 ELSE 0) /\ DaysInMonth(y, 12) = 31
    BY DEF DaysBeforeMonth, DaysBefore, DaysInMonth
  <2>2. Date(y, 12, d) = DaysBeforeYear(y) + DaysBeforeMonth(y, 12) + d - 1
    BY DateIs
  <2>3. Date(y, 13, d) = DaysBeforeYear(y + 1) + d - 1
    BY DateAfterYear
  <2>4. DaysBeforeYear(y + 1) = DaysBeforeYear(y) + (IF IsLeap(y) THEN 366 ELSE 365)
    BY YearLength
  <2>5. Date(y, 13, d) = Date(y, 12, d) + 31
    BY <1>0, <2>1, <2>2, <2>3, <2>4
  <2>6. m + 1 = 13
    BY <1>1
  <2> QED BY <1>1, <2>1, <2>5, <2>6
<1>2. CASE m < 12
  <2>1. DaysBeforeMonth(y, m + 1) = DaysBeforeMonth(y, m) + DaysInMonth(y, m)
    BY <1>2 DEF DaysBeforeMonth, DaysBefore, DaysInMonth
  <2>2. m + 1 \in 1 .. 12
    BY <1>2
  <2>3. Date(y, m + 1, d) = DaysBeforeYear(y) + DaysBeforeMonth(y, m + 1) + d - 1
    BY <2>2, DateIs
  <2>4. Date(y, m, d) = DaysBeforeYear(y) + DaysBeforeMonth(y, m) + d - 1
    BY DateIs
  <2>5. DaysBeforeMonth(y, m) \in Int /\ DaysInMonth(y, m) \in Int
    BY DEF DaysBeforeMonth, DaysBefore, DaysInMonth
  <2> QED BY <1>0, <2>1, <2>3, <2>4, <2>5
<1> QED BY <1>1, <1>2

-----------------------------------------------------------------------------
(* Dates *)

\* Day n is the d-th of month m of year y.
IsDate(n, y, m, d) ==
    /\ y \in Nat /\ y >= 1970 /\ m \in 1 .. 12 /\ d \in 1 .. DaysInMonth(y, m)
    /\ n = Date(y, m, d)

\* Where a day lies in its year and in its month.
LEMMA DatePlace ==
    ASSUME NEW n, NEW y, NEW m, NEW d, IsDate(n, y, m, d)
    PROVE  /\ n \in Nat /\ d \in 1 .. 31
           /\ n = DaysBeforeYear(y) + DaysBeforeMonth(y, m) + d - 1
           /\ DaysBeforeYear(y) <= n /\ n < DaysBeforeYear(y + 1)
           /\ Date(y, m, 1) = n - d + 1
           /\ Date(y, m + 1, 1) = n - d + 1 + DaysInMonth(y, m)
<1>0. y \in Nat /\ y >= 1970 /\ m \in 1 .. 12 /\ DaysBeforeYear(y) \in Int
  BY YearType DEF IsDate
<1>a. d \in 1 .. DaysInMonth(y, m)
  BY DEF IsDate
<1>1. /\ DaysBeforeMonth(y, m) \in Int /\ DaysInMonth(y, m) \in Int
      /\ DaysBeforeMonth(y, m) >= 0 /\ DaysInMonth(y, m) <= 31
  BY <1>0 DEF DaysBeforeMonth, DaysBefore, DaysInMonth
<1>2. d \in 1 .. 31 /\ d <= DaysInMonth(y, m)
  BY <1>a, <1>1
<1>3. n = DaysBeforeYear(y) + DaysBeforeMonth(y, m) + d - 1
  BY <1>0, <1>2, DateIs DEF IsDate
<1>4. DaysBeforeMonth(y, m) + DaysInMonth(y, m) <= IF IsLeap(y) THEN 366 ELSE 365
  BY <1>0 DEF DaysBeforeMonth, DaysBefore, DaysInMonth
<1>5. DaysBeforeYear(y) >= 0
  BY <1>0 DEF DaysBeforeYear
<1>6. DaysBeforeYear(y + 1) = DaysBeforeYear(y) + (IF IsLeap(y) THEN 366 ELSE 365)
  BY <1>0, YearLength
<1>7. Date(y, m, 1) = DaysBeforeYear(y) + DaysBeforeMonth(y, m) + 1 - 1
  BY <1>0, DateIs
<1>8. Date(y, m + 1, 1) = Date(y, m, 1) + DaysInMonth(y, m)
  BY <1>0, MonthLength
<1>9. n \in Nat /\ DaysBeforeYear(y) <= n
  BY <1>0, <1>1, <1>2, <1>3, <1>5
<1>10. n < DaysBeforeYear(y + 1)
  BY <1>0, <1>1, <1>2, <1>3, <1>4, <1>6
<1>11. Date(y, m, 1) = n - d + 1
  BY <1>0, <1>1, <1>2, <1>3, <1>7
<1> QED BY <1>2, <1>3, <1>8, <1>9, <1>10, <1>11

\* Year, Month and Day give the date back.
LEMMA DateRead ==
    ASSUME NEW n, NEW y, NEW m, NEW d, IsDate(n, y, m, d)
    PROVE  YearOf(n) = y /\ MonthOf(n) = m /\ DayOf(n) = d
<1>0. y \in Nat /\ y >= 1970 /\ m \in 1 .. 12 /\ n \in Nat /\ d \in 1 .. DaysInMonth(y, m)
      /\ d \in 1 .. 31
  BY DatePlace DEF IsDate
<1>a. /\ DaysBeforeMonth(y, m) \in Int /\ DaysInMonth(y, m) \in Int
      /\ DaysBeforeYear(y) \in Int
  BY <1>0, YearType DEF DaysBeforeMonth, DaysBefore, DaysInMonth
<1>b. d <= DaysInMonth(y, m)
  BY <1>0, <1>a
<1>1. YearOf(n) = y
  BY <1>0, DatePlace, YearIs
<1> DEFINE low == (n - DaysBeforeYear(y)) \div 31 + 1
           P(x) == Date(y, x, 1) <= n /\ n < Date(y, x + 1, 1)
<1>2. low \in {m - 1, m}
  <2>1. n - DaysBeforeYear(y) = DaysBeforeMonth(y, m) + d - 1
    BY <1>0, <1>a, DatePlace
  <2>2. 31 * (m - 2) <= DaysBeforeMonth(y, m) /\ DaysBeforeMonth(y, m) + DaysInMonth(y, m) <= 31 * m
    BY <1>0 DEF DaysBeforeMonth, DaysBefore, DaysInMonth
  <2> DEFINE k == DaysBeforeMonth(y, m) + d - 1
  <2>4. k \in Int /\ 31 * (m - 2) <= k /\ k < 31 * m
    BY <1>0, <1>a, <1>b, <2>2
  <2>5. low = k \div 31 + 1
    BY <2>1
  <2> HIDE DEF k, low
  <2> QED BY <1>0, <2>4, <2>5
<1>3. P(m)
  BY <1>0, <1>a, <1>b, DatePlace
<1>4. ASSUME NEW x \in {low, low + 1}, P(x) PROVE x = m
  <2>1. x \in {m - 1, m, m + 1}
    BY <1>0, <1>2
  <2>2. CASE x = m - 1
    <3>1. Date(y, x + 1, 1) = n - d + 1
      BY <1>0, <2>2, DatePlace
    <3> QED BY <1>0, <1>4, <3>1
  <2>3. CASE x = m + 1
    <3>1. Date(y, x, 1) = n - d + 1 + DaysInMonth(y, m)
      BY <1>0, <2>3, DatePlace
    <3> QED BY <1>0, <1>a, <1>b, <1>4, <3>1
  <2> QED BY <2>1, <2>2, <2>3
<1>5. m \in {low, low + 1}
  BY <1>0, <1>2
<1> HIDE DEF P, low
<1>6. (CHOOSE x \in {low, low + 1} : P(x)) = m
  BY <1>3, <1>4, <1>5
<1>7. MonthOf(n) = m
  BY <1>1, <1>6 DEF MonthOf, low, P
<1>8. DayOf(n) = d
  BY <1>0, <1>1, <1>7, DatePlace DEF DayOf
<1> QED BY <1>1, <1>7, <1>8

\* Every day has a date: its year is the first that ends after it.
LEMMA DateExists ==
    ASSUME NEW n \in Nat
    PROVE  \E y, m, d : IsDate(n, y, m, d)
<1> DEFINE S == {y \in Nat : y >= 1970 /\ n < DaysBeforeYear(y + 1)}
<1>1. 1970 + n \in S
  <2>1. n < DaysBeforeYear(1970 + n + 1)
    BY DEF DaysBeforeYear
  <2> QED BY <2>1
<1>2. PICK y \in S : \A z \in S : y <= z
  <2>1. S \in SUBSET Nat
    OBVIOUS
  <2> HIDE DEF S
  <2>2. S # {}
    BY <1>1
  <2> QED BY <2>1, <2>2, LeastElement
<1>3. y \in Nat /\ y >= 1970 /\ n < DaysBeforeYear(y + 1) /\ DaysBeforeYear(y) \in Int
  BY YearType
<1>4. DaysBeforeYear(y) <= n
  <2>1. CASE y = 1970
    BY <2>1 DEF DaysBeforeYear
  <2>2. CASE y # 1970
    <3>1. y - 1 \in Nat /\ y - 1 >= 1970 /\ ~(y <= y - 1) /\ (y - 1) + 1 = y
      BY <1>3, <2>2
    <3>2. y - 1 \notin S
      BY <1>2, <3>1
    <3> QED BY <1>3, <3>1, <3>2
  <2> QED BY <2>1, <2>2
<1> DEFINE k == n - DaysBeforeYear(y)
           In(m) == DaysBeforeMonth(y, m) <= k /\ k < DaysBeforeMonth(y, m) + DaysInMonth(y, m)
<1>5. k \in Nat /\ k < IF IsLeap(y) THEN 366 ELSE 365
  BY <1>3, <1>4, YearLength
<1>a. n = DaysBeforeYear(y) + k
  BY <1>3
<1> HIDE DEF k
<1>6. \/ In(1) \/ In(2) \/ In(3) \/ In(4) \/ In(5) \/ In(6)
      \/ In(7) \/ In(8) \/ In(9) \/ In(10) \/ In(11) \/ In(12)
  BY <1>5 DEF DaysBeforeMonth, DaysBefore, DaysInMonth
<1>7. PICK m \in 1 .. 12 : In(m)
  <2> HIDE DEF In
  <2> QED BY <1>6
<1> DEFINE d == k - DaysBeforeMonth(y, m) + 1
<1>8. DaysBeforeMonth(y, m) \in Int /\ DaysInMonth(y, m) \in Int
  BY DEF DaysBeforeMonth, DaysBefore, DaysInMonth
<1>9. d \in 1 .. DaysInMonth(y, m) /\ d \in Int
  BY <1>5, <1>7, <1>8
<1>10. Date(y, m, d) = DaysBeforeYear(y) + DaysBeforeMonth(y, m) + d - 1
  <2> HIDE DEF d
  <2> QED BY <1>3, <1>9, DateIs
<1>11. Date(y, m, d) = n
  BY <1>3, <1>5, <1>8, <1>10, <1>a
<1> HIDE DEF d
<1>12. IsDate(n, y, m, d)
  BY <1>3, <1>9, <1>11 DEF IsDate
<1> QED BY <1>12

-----------------------------------------------------------------------------
(* Instants *)

\* Hours and days have a length.
LEMMA DayType == Hour \in Nat \ {0} /\ Day \in Nat \ {0} /\ Day = 24 * Hour
BY CalendarAssumption DEF Day, Hour

\* An instant is read as its day and its time of day.
LEMMA InstantRead ==
    ASSUME NEW n \in Int, NEW r \in 0 .. Day - 1
    PROVE  DayNumber(n * Day + r) = n /\ (n * Day + r) % Day = r
<1> HIDE DEF Day
<1> QED BY DayType, DivMod DEF DayNumber

\* So is midnight.
LEMMA MidnightRead ==
    ASSUME NEW n \in Int
    PROVE  DayNumber(n * Day) = n /\ (n * Day) % Day = 0 /\ n * Day \in Int
<1>1. n * Day + 0 = n * Day /\ 0 \in 0 .. Day - 1 /\ n * Day \in Int
  BY DayType
<1> QED BY <1>1, InstantRead

\* AddDate moves by days, and by a month to the same day of the next.
LEMMA AddDateIs ==
    ASSUME NEW n, NEW y, NEW m, NEW d, IsDate(n, y, m, d), NEW r \in 0 .. Day - 1
    PROVE  /\ \A k \in Int : AddDate(n * Day + r, 0, k) = (n + k) * Day + r
           /\ AddDate(n * Day + r, 1, 0) = (n + DaysInMonth(y, m)) * Day + r
<1>0. n \in Nat /\ y \in Nat /\ y >= 1970 /\ m \in 1 .. 12 /\ d \in 1 .. 31
  BY DatePlace DEF IsDate
<1>1. DayNumber(n * Day + r) = n /\ (n * Day + r) % Day = r
  BY <1>0, InstantRead
<1>2. YearOf(n) = y /\ MonthOf(n) = m /\ DayOf(n) = d
  BY DateRead
<1>3. ASSUME NEW k \in Int PROVE Date(y, m + 0, d + k) = n + k
  <2>1. Date(y, m, d + k) = DaysBeforeYear(y) + DaysBeforeMonth(y, m) + (d + k) - 1
    BY <1>0, DateIs
  <2>2. n = DaysBeforeYear(y) + DaysBeforeMonth(y, m) + d - 1
    BY DatePlace
  <2>3. DaysBeforeYear(y) \in Int /\ DaysBeforeMonth(y, m) \in Int /\ m + 0 = m
    BY <1>0, YearType DEF DaysBeforeMonth, DaysBefore
  <2> QED BY <1>0, <2>1, <2>2, <2>3
<1>4. Date(y, m + 1, d + 0) = n + DaysInMonth(y, m)
  <2>1. Date(y, m + 1, d) = Date(y, m, d) + DaysInMonth(y, m)
    BY <1>0, MonthLength
  <2> QED BY <1>0, <2>1 DEF IsDate
<1> QED BY <1>1, <1>2, <1>3, <1>4 DEF AddDate

\* Where the periods of an instant begin.
LEMMA FloorsAre ==
    ASSUME NEW n, NEW y, NEW m, NEW d, IsDate(n, y, m, d), NEW r \in 0 .. Day - 1
    PROVE  /\ floorUTC(n * Day + r, "daily") = n * Day
           /\ floorUTC(n * Day + r, "weekly") = (n - ((Weekday(n) + 6) % 7)) * Day
           /\ floorUTC(n * Day + r, "monthly") = (n - d + 1) * Day
<1>0. n \in Nat /\ DayNumber(n * Day + r) = n
  BY DatePlace, InstantRead
<1>1. YearOf(n) = y /\ MonthOf(n) = m /\ Date(y, m, 1) = n - d + 1
  BY DateRead, DatePlace
<1>2. floorUTC(n * Day + r, "monthly") = (n - d + 1) * Day
  BY <1>0, <1>1 DEF floorUTC
<1>3. floorUTC(n * Day + r, "daily") = n * Day
  BY <1>0 DEF floorUTC
<1>4. floorUTC(n * Day + r, "weekly") = (n - ((Weekday(n) + 6) % 7)) * Day
  <2> DEFINE k == (Weekday(n) + 6) % 7
  <2>1. k \in Nat /\ n * Day + 0 = n * Day /\ 0 \in 0 .. Day - 1
    BY <1>0, DayType DEF Weekday
  <2>2. floorUTC(n * Day + r, "weekly") = AddDate(n * Day, 0, -k)
    BY <1>0 DEF floorUTC
  <2> HIDE DEF k
  <2>3. AddDate(n * Day + 0, 0, -k) = (n + -k) * Day + 0
    BY <2>1, AddDateIs
  <2>4. (n + -k) * Day + 0 = (n - k) * Day
    BY <1>0, <2>1, DayType
  <2> QED BY <2>1, <2>2, <2>3, <2>4 DEF k
<1> QED BY <1>2, <1>3, <1>4

\* Where the periods that begin at midnight of a day end.
LEMMA NextsAre ==
    ASSUME NEW n, NEW y, NEW m, NEW d, IsDate(n, y, m, d)
    PROVE  /\ nextUTC(n * Day, "daily") = (n + 1) * Day
           /\ nextUTC(n * Day, "weekly") = (n + 7) * Day
           /\ nextUTC(n * Day, "monthly") = (n + DaysInMonth(y, m)) * Day
<1>0. n \in Nat /\ y \in Nat /\ m \in 1 .. 12
  BY DatePlace DEF IsDate
<1>1. n * Day + 0 = n * Day /\ 0 \in 0 .. Day - 1
  BY <1>0, DayType
<1>2. /\ AddDate(n * Day, 0, 1) = (n + 1) * Day + 0
      /\ AddDate(n * Day, 0, 7) = (n + 7) * Day + 0
      /\ AddDate(n * Day, 1, 0) = (n + DaysInMonth(y, m)) * Day + 0
  BY <1>1, AddDateIs
<1>3. DaysInMonth(y, m) \in Nat
  BY <1>0, MonthRange
<1>4. \A x \in Nat : x * Day + 0 = x * Day
  BY DayType
<1> QED BY <1>0, <1>2, <1>3, <1>4 DEF nextUTC

-----------------------------------------------------------------------------
(* The clock *)

\* The day the clock shows.
Today == Date(civil.year, civil.month, civil.day)

\* The clock agrees with the day it shows, and remembers the first instants
\* of the hour, the day, the week and the month.
ClockInv ==
    /\ TypeOK
    /\ IsDate(Today, civil.year, civil.month, civil.day)
    /\ t = Today * Day + civil.tick
    /\ civil.weekday = Weekday(Today)
    /\ began["hourly"] = t - (civil.tick % Hour)
    /\ began["daily"] = Today * Day
    /\ began["weekly"] = (Today - ((civil.weekday + 6) % 7)) * Day
    /\ began["monthly"] = (Today - civil.day + 1) * Day

\* What TypeOK says of the clock's date.
LEMMA CivilType ==
    ASSUME TypeOK
    PROVE  /\ civil.year \in Nat /\ civil.month \in 1 .. 12 /\ civil.day \in 1 .. 31
           /\ civil.weekday \in 0 .. 6 /\ civil.tick \in 0 .. Day - 1
           /\ civil.day <= DaysInMonth(civil.year, civil.month)
           /\ civil.day \in 1 .. DaysInMonth(civil.year, civil.month)
<1>1. /\ civil.year \in Nat /\ civil.month \in 1 .. 12 /\ civil.day \in 1 .. 31
      /\ civil.weekday \in 0 .. 6 /\ civil.tick \in 0 .. Day - 1
      /\ civil.day <= DaysInMonth(civil.year, civil.month)
  BY DEF TypeOK
<1>2. DaysInMonth(civil.year, civil.month) \in 28 .. 31
  BY <1>1, MonthRange
<1> QED BY <1>1, <1>2

\* A clock starts on a Monday, the first of a month.
LEMMA ClockInit == Init => ClockInv
<1> SUFFICES ASSUME Init PROVE ClockInv
  OBVIOUS
<1>1. PICK s \in Starts :
        /\ t = Date(s.year, s.month, 1) * Day
        /\ civil = [year |-> s.year, month |-> s.month, day |-> 1, weekday |-> Monday, tick |-> 0]
        /\ began = [k \in Kinds |-> t]
        /\ left = MaxDays
  BY DEF Init
<1>2. s.year \in Nat /\ s.year >= 1970 /\ s.month \in 1 .. 12
  BY CalendarAssumption
<1>3. DaysInMonth(s.year, s.month) \in 28 .. 31
  BY <1>2, MonthRange
<1>4. IsDate(Today, s.year, s.month, 1) /\ Today = Date(s.year, s.month, 1)
  BY <1>1, <1>2, <1>3 DEF IsDate, Today
<1>5. Today \in Nat
  BY <1>4, DatePlace
<1>6. Today * Day \in Nat /\ 0 \in 0 .. Day - 1 /\ 0 % Hour = 0
  BY <1>5, DayType
<1>7. civil.weekday = 1 /\ civil.tick = 0 /\ civil.day = 1
  BY <1>1 DEF Monday
<1>8. TypeOK
  <2>1. t \in Nat /\ t \in 0 .. t
    BY <1>1, <1>4, <1>6
  <2>2. left \in 0 .. MaxDays
    BY <1>1, CalendarAssumption
  <2>3. civil \in [year : Nat, month : 1 .. 12, day : 1 .. 31, weekday : 0 .. 6, tick : 0 .. Day - 1]
    BY <1>1, <1>2, <1>6 DEF Monday
  <2>4. civil.day <= DaysInMonth(civil.year, civil.month)
    BY <1>1, <1>3
  <2>5. began \in [Kinds -> 0 .. t]
    BY <1>1, <2>1
  <2> QED BY <2>1, <2>2, <2>3, <2>4, <2>5 DEF TypeOK
<1>9. civil.weekday = Weekday(Today)
  BY <1>1, <1>4, StartsAssumption
<1>10. began["hourly"] = t /\ began["daily"] = t /\ began["weekly"] = t /\ began["monthly"] = t
  BY <1>1 DEF Kinds
<1>11. t = Today * Day
  BY <1>1, <1>4
<1>12. /\ t = t - (0 % Hour) /\ Today * Day = Today * Day + 0
       /\ (Today - ((1 + 6) % 7)) * Day = Today * Day /\ (Today - 1 + 1) * Day = Today * Day
  BY <1>5, <1>6, <1>11, DayType
<1>13. IsDate(Today, civil.year, civil.month, civil.day)
  BY <1>1, <1>4
<1> QED BY <1>7, <1>8, <1>9, <1>10, <1>11, <1>12, <1>13 DEF ClockInv

\* A tick inside a day begins an hour at most.
LEMMA TickStep == ASSUME ClockInv, Tick PROVE ClockInv'
<1>0. TypeOK /\ Today \in Nat /\ civil.tick \in 0 .. Day - 1
  BY CivilType, DatePlace DEF ClockInv
<1>1. civil' = [civil EXCEPT !.tick = civil.tick + 1]
  BY DEF Tick
<1>2. /\ civil'.tick = civil.tick + 1 /\ civil'.year = civil.year /\ civil'.month = civil.month
      /\ civil'.day = civil.day /\ civil'.weekday = civil.weekday
  BY <1>0, <1>1 DEF TypeOK
<1>3. civil'.tick \in 0 .. Day - 1
  BY <1>0, <1>2, DayType DEF Tick
<1>4. civil' \in [year : Nat, month : 1 .. 12, day : 1 .. 31, weekday : 0 .. 6, tick : 0 .. Day - 1]
  BY <1>0, <1>1, <1>2, <1>3 DEF TypeOK
<1>5. t \in Nat /\ t' = t + 1 /\ left' = left
  BY <1>0 DEF Tick, TypeOK
<1>6. Today' = Today
  BY <1>2 DEF Today
<1>7. t' = Today * Day + civil'.tick
  <2>1. Today * Day \in Int /\ t = Today * Day + civil.tick
    BY <1>0, DayType DEF ClockInv
  <2> QED BY <1>0, <1>2, <1>5, <2>1
<1>8. /\ began'["daily"] = began["daily"] /\ began'["weekly"] = began["weekly"]
      /\ began'["monthly"] = began["monthly"]
      /\ began'["hourly"] = IF civil'.tick % Hour = 0 THEN t' ELSE began["hourly"]
      /\ began' \in [Kinds -> 0 .. t']
  <2>1. began \in [Kinds -> 0 .. t]
    BY <1>0 DEF TypeOK
  <2>2. t' \in 0 .. t' /\ 0 .. t \subseteq 0 .. t'
    BY <1>5
  <2>3. began' = IF civil'.tick % Hour = 0 THEN [began EXCEPT !["hourly"] = t'] ELSE began
    BY DEF Tick
  <2> QED BY <2>1, <2>2, <2>3 DEF Kinds
<1>9. began'["hourly"] = t' - (civil'.tick % Hour)
  <2>1. civil'.tick % Hour = 0 \/ civil'.tick % Hour = (civil.tick % Hour) + 1
    BY <1>0, <1>2, DayType, ModNext
  <2>2. began["hourly"] = t - (civil.tick % Hour) /\ civil.tick % Hour \in Int
    BY <1>0, DayType DEF ClockInv
  <2>3. CASE civil'.tick % Hour = 0
    BY <1>5, <1>8, <2>3
  <2>4. CASE civil'.tick % Hour # 0
    BY <1>5, <1>8, <2>1, <2>2, <2>4
  <2> QED BY <2>3, <2>4
<1>10. TypeOK'
  BY <1>0, <1>2, <1>4, <1>5, <1>8 DEF TypeOK
<1>11. IsDate(Today', civil'.year, civil'.month, civil'.day)
  BY <1>2, <1>6 DEF ClockInv
<1>12. /\ civil'.weekday = Weekday(Today')
       /\ began'["daily"] = Today' * Day
       /\ began'["weekly"] = (Today' - ((civil'.weekday + 6) % 7)) * Day
       /\ began'["monthly"] = (Today' - civil'.day + 1) * Day
  BY <1>2, <1>6, <1>8 DEF ClockInv
<1> QED BY <1>6, <1>7, <1>9, <1>10, <1>11, <1>12 DEF ClockInv

\* At midnight the day, and with it the week, the month and the year, carry.
LEMMA MidnightStep == ASSUME ClockInv, Midnight PROVE ClockInv'
<1> DEFINE y == civil.year
           m == civil.month
           d == civil.day
           w == (civil.weekday + 1) % 7
           monthEnds == d = DaysInMonth(y, m)
           yearEnds == monthEnds /\ m = 12
<1>0. TypeOK /\ Today \in Nat /\ y \in Nat /\ y >= 1970 /\ m \in 1 .. 12 /\ d \in 1 .. 31
      /\ civil.weekday \in 0 .. 6 /\ d <= DaysInMonth(y, m)
  BY CivilType, DatePlace DEF ClockInv, IsDate
<1>1. /\ civil'.year = IF yearEnds THEN y + 1 ELSE y
      /\ civil'.month = IF yearEnds THEN 1 ELSE IF monthEnds THEN m + 1 ELSE m
      /\ civil'.day = IF monthEnds THEN 1 ELSE d + 1
      /\ civil'.weekday = w /\ civil'.tick = 0
      /\ civil' = [year |-> civil'.year, month |-> civil'.month, day |-> civil'.day,
                   weekday |-> civil'.weekday, tick |-> civil'.tick]
  BY DEF Midnight
<1>2. DaysInMonth(y, m) \in 28 .. 31
  BY <1>0, MonthRange
<1>3. IsDate(Today, y, m, d)
  BY DEF ClockInv
<1>4. /\ civil'.year \in Nat /\ civil'.year >= 1970 /\ civil'.month \in 1 .. 12
      /\ civil'.day \in 1 .. DaysInMonth(civil'.year, civil'.month) /\ civil'.day \in 1 .. 31
      /\ Date(civil'.year, civil'.month, civil'.day) = Today + 1
  <2>1. CASE ~monthEnds
    <3>1. civil'.year = y /\ civil'.month = m /\ civil'.day = d + 1
      BY <1>1, <2>1
    <3>2. d + 1 \in 1 .. DaysInMonth(y, m) /\ d + 1 \in 1 .. 31
      BY <1>0, <1>2, <2>1
    <3>3. Date(y, m, d + 1) = Today + 1
      <4> HIDE DEF y, m, d
      <4>0. y \in Int /\ m \in 1 .. 12 /\ d + 1 \in Int
        BY <1>0
      <4>1. Date(y, m, d + 1) = DaysBeforeYear(y) + DaysBeforeMonth(y, m) + (d + 1) - 1
        BY <4>0, DateIs
      <4>2. Today = DaysBeforeYear(y) + DaysBeforeMonth(y, m) + d - 1
        BY <1>3, DatePlace
      <4>3. DaysBeforeYear(y) \in Int /\ DaysBeforeMonth(y, m) \in Int
        BY <1>0, YearType DEF DaysBeforeMonth, DaysBefore
      <4> QED BY <1>0, <4>1, <4>2, <4>3
    <3> HIDE DEF y, m, d
    <3> QED BY <1>0, <3>1, <3>2, <3>3
  <2>2. CASE monthEnds
    <3>0. Date(y, m + 1, 1) = Today + 1 /\ civil'.day = 1
      <4>1. Date(y, m + 1, 1) = Today - d + 1 + DaysInMonth(y, m)
        BY <1>3, DatePlace
      <4>2. civil'.day = 1
        BY <1>1, <2>2
      <4>3. Today - d + 1 + DaysInMonth(y, m) = Today + 1
        BY <1>0, <2>2
      <4> QED BY <4>1, <4>2, <4>3
    <3>1. CASE m = 12
      <4>1. civil'.year = y + 1 /\ civil'.month = 1
        BY <1>1, <2>2, <3>1
      <4>2. Date(y + 1, 1, 1) = DaysBeforeYear(y + 1)
        <5>1. Date(y + 1, 1, 1) = DaysBeforeYear(y + 1) + DaysBeforeMonth(y + 1, 1) + 1 - 1
          BY <1>0, DateIs
        <5>2. DaysBeforeMonth(y + 1, 1) = 0 /\ DaysBeforeYear(y + 1) \in Int
          BY <1>0, YearType DEF DaysBeforeMonth, DaysBefore
        <5> QED BY <5>1, <5>2
      <4>3. Date(y, 13, 1) = DaysBeforeYear(y + 1) + 1 - 1 /\ DaysBeforeYear(y + 1) \in Int
        <5> HIDE DEF y, m, d
        <5>1. y \in Int /\ y + 1 \in Int /\ 1 \in Int
          BY <1>0
        <5>2. Date(y, 13, 1) = DaysBeforeYear(y + 1) + 1 - 1
          BY <5>1, DateAfterYear
        <5>3. DaysBeforeYear(y + 1) \in Int
          BY <5>1, YearType
        <5> QED BY <5>2, <5>3
      <4>4. m + 1 = 13
        BY <3>1
      <4>5. Date(y + 1, 1, 1) = Today + 1
        BY <3>0, <4>2, <4>3, <4>4
      <4>6. 1 \in 1 .. DaysInMonth(y + 1, 1)
        BY <1>0 DEF DaysInMonth
      <4> HIDE DEF y, m, d
      <4> QED BY <1>0, <3>0, <4>1, <4>5, <4>6
    <3>2. CASE m # 12
      <4>1. civil'.year = y /\ civil'.month = m + 1
        BY <1>1, <2>2, <3>2
      <4>2. m + 1 \in 1 .. 12
        BY <1>0, <3>2
      <4>3. DaysInMonth(y, m + 1) \in 28 .. 31
        BY <1>0, <4>2, MonthRange
      <4> HIDE DEF y, m, d
      <4> QED BY <1>0, <3>0, <4>1, <4>2, <4>3
    <3> QED BY <3>1, <3>2
  <2> QED BY <2>1, <2>2
<1>5. Today' = Today + 1 /\ IsDate(Today', civil'.year, civil'.month, civil'.day)
  BY <1>4 DEF IsDate, Today
<1>6. /\ t \in Nat /\ t' = t + 1 /\ left' \in 0 .. MaxDays
  BY <1>0, CalendarAssumption DEF Midnight, TypeOK
<1>7. t' = Today' * Day
  <2>1. t = Today * Day + (Day - 1)
    BY DEF ClockInv, Midnight
  <2>2. t' = (Today + 1) * Day
    BY <1>0, <1>6, <2>1, DayType
  <2> QED BY <1>5, <2>2
<1>8. w \in 0 .. 6 /\ w = Weekday(Today')
  <2>1. civil.weekday = (Today + 4) % 7
    BY DEF ClockInv, Weekday
  <2>2. (((Today + 4) % 7) + 1) % 7 = (Today + 1 + 4) % 7
    BY <1>0
  <2> QED BY <1>0, <1>5, <2>1, <2>2 DEF Weekday
<1>9. /\ began'["hourly"] = t' /\ began'["daily"] = t'
      /\ began'["weekly"] = IF w = Monday THEN t' ELSE began["weekly"]
      /\ began'["monthly"] = IF monthEnds THEN t' ELSE began["monthly"]
      /\ began' = [k \in Kinds |-> began'[k]]
  BY DEF Midnight, Kinds
<1>10. began' \in [Kinds -> 0 .. t']
  <2>1. \A k \in Kinds : began[k] \in 0 .. t
    BY <1>0 DEF TypeOK
  <2>2. \A k \in Kinds : began'[k] = t' \/ began'[k] = began[k]
    BY DEF Midnight
  <2>3. \A k \in Kinds : began'[k] \in 0 .. t'
    BY <1>6, <2>1, <2>2
  <2> QED BY <1>9, <2>3
<1>11. TypeOK'
  <2>1. civil'.day <= DaysInMonth(civil'.year, civil'.month)
    <3>1. DaysInMonth(civil'.year, civil'.month) \in 28 .. 31
      BY <1>4, MonthRange
    <3> QED BY <1>4, <3>1
  <2>2. 0 \in 0 .. Day - 1
    BY DayType
  <2>3. civil' \in [year : Nat, month : 1 .. 12, day : 1 .. 31, weekday : 0 .. 6, tick : 0 .. Day - 1]
    BY <1>1, <1>4, <1>8, <2>2
  <2>4. t' \in Nat
    BY <1>6
  <2> QED BY <1>6, <1>10, <2>1, <2>3, <2>4 DEF TypeOK
<1>12. began'["weekly"] = (Today' - ((civil'.weekday + 6) % 7)) * Day
  <2>1. CASE w = 1
    <3>1. (w + 6) % 7 = 0
      BY <2>1
    <3>2. Today' - 0 = Today'
      BY <1>0, <1>5
    <3> QED BY <1>1, <1>7, <1>9, <2>1, <3>1, <3>2 DEF Monday
  <2>2. CASE w # 1
    <3>1. (w + 6) % 7 = ((civil.weekday + 6) % 7) + 1
      BY <1>0, <2>2
    <3>2. Today' - (((civil.weekday + 6) % 7) + 1) = Today - ((civil.weekday + 6) % 7)
      BY <1>0, <1>5
    <3>3. began'["weekly"] = (Today - ((civil.weekday + 6) % 7)) * Day
      BY <1>9, <2>2 DEF ClockInv, Monday
    <3> QED BY <1>1, <3>1, <3>2, <3>3
  <2> QED BY <2>1, <2>2
<1>13. began'["monthly"] = (Today' - civil'.day + 1) * Day
  <2>1. CASE monthEnds
    <3>1. civil'.day = 1 /\ Today' - 1 + 1 = Today'
      BY <1>0, <1>1, <1>5, <2>1
    <3> QED BY <1>7, <1>9, <2>1, <3>1
  <2>2. CASE ~monthEnds
    <3>1. civil'.day = d + 1
      BY <1>1, <2>2
    <3>2. Today' - (d + 1) + 1 = Today - d + 1
      BY <1>0, <1>5
    <3>3. began'["monthly"] = (Today - d + 1) * Day
      BY <1>9, <2>2 DEF ClockInv
    <3> QED BY <3>1, <3>2, <3>3
  <2> QED BY <2>1, <2>2
<1>14. t' = Today' * Day + civil'.tick /\ began'["hourly"] = t' - (civil'.tick % Hour)
  <2>1. 0 % Hour = 0 /\ Today' * Day + 0 = Today' * Day /\ t' - 0 = t'
    BY <1>0, <1>5, <1>6, DayType
  <2> QED BY <1>1, <1>7, <1>9, <2>1
<1> QED BY <1>1, <1>5, <1>7, <1>8, <1>9, <1>11, <1>12, <1>13, <1>14 DEF ClockInv

\* Every reachable state satisfies ClockInv.
LEMMA Clock == Spec => []ClockInv
<1>1. Init => ClockInv
  BY ClockInit
<1>2. ClockInv /\ [Next]_vars => ClockInv'
  <2> SUFFICES ASSUME ClockInv, [Next]_vars PROVE ClockInv'
    OBVIOUS
  <2>1. CASE Tick
    BY <2>1, TickStep
  <2>2. CASE Midnight
    BY <2>2, MidnightStep
  <2>3. CASE UNCHANGED vars
    BY <2>3 DEF vars, ClockInv, TypeOK, Today
  <2> QED BY <2>1, <2>2, <2>3 DEF Next
<1> QED BY <1>1, <1>2, PTL DEF Spec

\* The days on which the week and the month of the clock began.
WeekBegan == Today - ((civil.weekday + 6) % 7)
MonthBegan == Today - civil.day + 1

\* The first days of the week and the month are days of the calendar, and
\* today lies in both.
LEMMA BeganType ==
    ASSUME ClockInv
    PROVE  /\ Today \in Nat /\ civil.tick \in 0 .. Day - 1 /\ t \in Nat
           /\ WeekBegan \in Nat /\ Today < WeekBegan + 7
           /\ IsDate(MonthBegan, civil.year, civil.month, 1) /\ MonthBegan \in Nat
           /\ Today < MonthBegan + DaysInMonth(civil.year, civil.month)
           /\ DaysInMonth(civil.year, civil.month) \in 28 .. 31
<1>1. /\ Today \in Nat /\ civil.tick \in 0 .. Day - 1 /\ t \in Nat /\ civil.weekday \in 0 .. 6
      /\ civil.year \in Nat /\ civil.year >= 1970 /\ civil.month \in 1 .. 12
      /\ civil.day \in 1 .. DaysInMonth(civil.year, civil.month)
  BY CivilType, DatePlace DEF ClockInv, IsDate, TypeOK
<1>2. DaysInMonth(civil.year, civil.month) \in 28 .. 31
  BY <1>1, MonthRange
<1>3. (civil.weekday + 6) % 7 \in 0 .. 6
  BY <1>1
<1>4. WeekBegan \in Int /\ Today < WeekBegan + 7
  BY <1>1, <1>3 DEF WeekBegan
<1>5. WeekBegan >= 0
  <2>1. WeekBegan * Day \in Nat
    BY <1>1 DEF ClockInv, TypeOK, WeekBegan, Kinds
  <2>2. \A x \in Int : x * Day \in Nat => x >= 0
    <3> SUFFICES ASSUME NEW x \in Int, x * Day \in Nat, x < 0 PROVE FALSE
      OBVIOUS
    <3>1. x * Day <= -1 * Day
      BY DayType, Times
    <3> QED BY <3>1, DayType
  <2> QED BY <1>4, <2>1, <2>2
<1>6. IsDate(MonthBegan, civil.year, civil.month, 1)
  <2>1. Date(civil.year, civil.month, 1) = MonthBegan
    BY DatePlace DEF ClockInv, MonthBegan
  <2> QED BY <1>1, <1>2, <2>1 DEF IsDate
<1>7. MonthBegan \in Nat
  BY <1>6, DatePlace
<1>8. Today < MonthBegan + DaysInMonth(civil.year, civil.month)
  BY <1>1, <1>2 DEF MonthBegan
<1> QED BY <1>1, <1>2, <1>4, <1>5, <1>6, <1>7, <1>8

\* The windows the code computes, from what the clock remembers.
LEMMA Windows ==
    ASSUME ClockInv
    PROVE  /\ \A k \in Kinds : floorUTC(t, k) = began[k]
           /\ nextUTC(began["hourly"], "hourly") = began["hourly"] + Hour
           /\ nextUTC(began["daily"], "daily") = (Today + 1) * Day
           /\ nextUTC(began["weekly"], "weekly") = (WeekBegan + 7) * Day
           /\ nextUTC(began["monthly"], "monthly") =
                (MonthBegan + DaysInMonth(civil.year, civil.month)) * Day
<1>0. /\ Today \in Nat /\ civil.tick \in 0 .. Day - 1 /\ t \in Nat
      /\ WeekBegan \in Nat /\ IsDate(MonthBegan, civil.year, civil.month, 1)
      /\ IsDate(Today, civil.year, civil.month, civil.day)
      /\ t = Today * Day + civil.tick
  BY BeganType DEF ClockInv
<1>1. /\ floorUTC(t, "daily") = Today * Day
      /\ floorUTC(t, "weekly") = (Today - ((Weekday(Today) + 6) % 7)) * Day
      /\ floorUTC(t, "monthly") = (Today - civil.day + 1) * Day
  BY <1>0, FloorsAre
<1>2. floorUTC(t, "hourly") = t - (t % Hour)
  BY DEF floorUTC
<1>3. t % Hour = civil.tick % Hour
  <2> HIDE DEF Hour, Day
  <2>1. PICK q \in Int, r \in 0 .. Hour - 1 : r = civil.tick % Hour /\ civil.tick = q * Hour + r
    <3>1. civil.tick \in Int
      BY <1>0, DayType
    <3> QED BY <3>1, DayType, ModSplit
  <2>2. t = (Today * 24 + q) * Hour + r
    BY <1>0, <2>1, DayType
  <2>3. PICK p \in Int : p = Today * 24 + q
    BY <1>0
  <2>4. (p * Hour + r) % Hour = r
    BY DayType, DivMod
  <2> QED BY <2>1, <2>2, <2>3, <2>4
<1>4. \A k \in Kinds : floorUTC(t, k) = began[k]
  BY <1>1, <1>2, <1>3 DEF ClockInv, Kinds
<1>5. /\ began["daily"] = Today * Day /\ began["weekly"] = WeekBegan * Day
      /\ began["monthly"] = MonthBegan * Day
  BY DEF ClockInv, WeekBegan, MonthBegan
<1>6. nextUTC(Today * Day, "daily") = (Today + 1) * Day
  BY <1>0, NextsAre
<1>7. nextUTC(WeekBegan * Day, "weekly") = (WeekBegan + 7) * Day
  BY <1>0, DateExists, NextsAre
<1>8. nextUTC(MonthBegan * Day, "monthly") =
        (MonthBegan + DaysInMonth(civil.year, civil.month)) * Day
  BY <1>0, NextsAre
<1>9. nextUTC(began["hourly"], "hourly") = began["hourly"] + Hour
  BY DEF nextUTC
<1> QED BY <1>4, <1>5, <1>6, <1>7, <1>8, <1>9

\* The clock's calendar date is always a date (Calendar.tla TypeOK).
THEOREM TypeCorrect == Spec => []TypeOK
BY Clock, PTL DEF ClockInv

\* BoundsFor gives an instant the period it lies in: it begins where the
\* calendar says the hour, day, week or month began, and has not ended.
THEOREM PeriodsHoldTheirInstants == Spec => []InstantIsInPeriod
<1>1. ClockInv => InstantIsInPeriod
  <2> SUFFICES ASSUME ClockInv PROVE InstantIsInPeriod
    OBVIOUS
  <2>1. /\ Today \in Nat /\ civil.tick \in 0 .. Day - 1 /\ t \in Nat
        /\ WeekBegan \in Nat /\ Today < WeekBegan + 7 /\ MonthBegan \in Nat
        /\ Today < MonthBegan + DaysInMonth(civil.year, civil.month)
        /\ DaysInMonth(civil.year, civil.month) \in 28 .. 31
    BY BeganType
  <2>2. \A k \in Kinds : floorUTC(t, k) = began[k]
    BY Windows
  <2>3. t < (Today + 1) * Day
    BY <2>1, DayType DEF ClockInv
  <2>4. \A x \in Nat : Today < x => t < x * Day
    <3> SUFFICES ASSUME NEW x \in Nat, Today < x PROVE t < x * Day
      OBVIOUS
    <3>1. (Today + 1) * Day <= x * Day
      BY <2>1, DayType, Times
    <3>2. (Today + 1) * Day \in Int /\ x * Day \in Int
      BY <2>1, DayType
    <3> QED BY <2>1, <2>3, <3>1, <3>2
  <2>5. t < nextUTC(began["hourly"], "hourly")
    <3>1. began["hourly"] = t - (civil.tick % Hour) /\ civil.tick % Hour \in 0 .. Hour - 1
      BY <2>1, DayType DEF ClockInv
    <3> QED BY <2>1, <3>1, DayType, Windows
  <2>6. t < nextUTC(began["daily"], "daily")
    BY <2>1, <2>3, Windows
  <2>7. t < nextUTC(began["weekly"], "weekly")
    BY <2>1, <2>4, Windows
  <2>8. t < nextUTC(began["monthly"], "monthly")
    BY <2>1, <2>4, Windows
  <2>9. \A k \in Kinds : t < nextUTC(began[k], k)
    BY <2>5, <2>6, <2>7, <2>8 DEF Kinds
  <2> QED BY <2>2, <2>9 DEF InstantIsInPeriod, BoundsFor
<1> QED BY <1>1, Clock, PTL

\* A date written 20060102 has its year, month and day in its digits.
LEMMA YearDigits ==
    ASSUME NEW y \in Nat, NEW m \in 1 .. 12, NEW d \in 1 .. 31
    PROVE  (y * 10000 + m * 100 + d) \div 10000 = y
OBVIOUS

\* The digits without the day.
LEMMA YearMonthDigits ==
    ASSUME NEW y \in Nat, NEW m \in 1 .. 12, NEW d \in 1 .. 31
    PROVE  (y * 10000 + m * 100 + d) \div 100 = y * 100 + m
OBVIOUS

\* The month among them.
LEMMA MonthDigits ==
    ASSUME NEW y \in Nat, NEW m \in 1 .. 12
    PROVE  (y * 100 + m) % 100 = m
OBVIOUS

\* The last two digits are the day.
LEMMA DayDigits ==
    ASSUME NEW y \in Nat, NEW m \in 1 .. 12, NEW d \in 1 .. 31
    PROVE  (y * 10000 + m * 100 + d) % 100 = d
OBVIOUS

\* The date in the name of a day is read back as that day.
LEMMA DateReadsBack ==
    ASSUME NEW n, NEW y, NEW m, NEW d, IsDate(n, y, m, d)
    PROVE  ParseDate(DateSuffix(n * Day)) = n * Day
<1>0. n \in Nat /\ y \in Nat /\ m \in 1 .. 12 /\ d \in 1 .. 31 /\ n = Date(y, m, d)
  BY DatePlace DEF IsDate
<1>1. DayNumber(n * Day) = n
  BY <1>0, MidnightRead
<1>2. YearOf(n) = y /\ MonthOf(n) = m /\ DayOf(n) = d
  BY DateRead
<1>3. DateSuffix(n * Day) = y * 10000 + m * 100 + d
  BY <1>1, <1>2 DEF DateSuffix
<1>4. PICK s : s = y * 10000 + m * 100 + d
  OBVIOUS
<1>5. s \div 10000 = y /\ (s \div 100) % 100 = m /\ s % 100 = d
  <2>1. y \in Nat /\ m \in 1 .. 12 /\ d \in 1 .. 31
    BY <1>0
  <2>2. (y * 10000 + m * 100 + d) \div 10000 = y
    BY <2>1, YearDigits
  <2>3. (y * 10000 + m * 100 + d) \div 100 = y * 100 + m
    BY <2>1, YearMonthDigits
  <2>4. (y * 100 + m) % 100 = m
    BY <2>1, MonthDigits
  <2>5. (y * 10000 + m * 100 + d) % 100 = d
    BY <2>1, DayDigits
  <2> QED BY <1>4, <2>2, <2>3, <2>4, <2>5
<1>6. ParseDate(s) = Date(y, m, d) * Day
  BY <1>5 DEF ParseDate
<1> QED BY <1>0, <1>3, <1>4, <1>6

\* The name of a daily, weekly or monthly partition gives its lower bound
\* back: what Build writes, Parse reads (naming.go).
THEOREM NamesAreReadBack == Spec => []NameTellsPeriod
<1>1. ClockInv => NameTellsPeriod
  <2> SUFFICES ASSUME ClockInv PROVE NameTellsPeriod
    OBVIOUS
  <2>1. /\ IsDate(Today, civil.year, civil.month, civil.day)
        /\ WeekBegan \in Nat /\ IsDate(MonthBegan, civil.year, civil.month, 1)
    BY BeganType DEF ClockInv
  <2>2. \A k \in Kinds : floorUTC(t, k) = began[k]
    BY Windows
  <2>3. /\ began["daily"] = Today * Day /\ began["weekly"] = WeekBegan * Day
        /\ began["monthly"] = MonthBegan * Day
    BY DEF ClockInv, WeekBegan, MonthBegan
  <2>4. ParseDate(DateSuffix(Today * Day)) = Today * Day
    BY <2>1, DateReadsBack
  <2>5. ParseDate(DateSuffix(WeekBegan * Day)) = WeekBegan * Day
    BY <2>1, DateExists, DateReadsBack
  <2>6. ParseDate(DateSuffix(MonthBegan * Day)) = MonthBegan * Day
    BY <2>1, DateReadsBack
  <2> QED BY <2>2, <2>3, <2>4, <2>5, <2>6 DEF NameTellsPeriod, Kinds
<1> QED BY <1>1, Clock, PTL

\* A month is at least four weeks.
LEMMA MonthIsLater ==
    ASSUME NEW n \in Nat, NEW r \in 0 .. Day - 1
    PROVE  /\ AddDate(n * Day + r, 1, 0) \in Int
           /\ n * Day + r + 28 * Day <= AddDate(n * Day + r, 1, 0)
<1>1. PICK y, m, d : IsDate(n, y, m, d)
  BY DateExists
<1>2. AddDate(n * Day + r, 1, 0) = (n + DaysInMonth(y, m)) * Day + r
  BY <1>1, AddDateIs
<1>3. PICK l \in 28 .. 31 : l = DaysInMonth(y, m)
  BY <1>1, MonthRange DEF IsDate
<1> HIDE DEF Day
<1>4. (n + 28) * Day <= (n + l) * Day
  BY <1>3, DayType, Times
<1>5. (n + 28) * Day = n * Day + 28 * Day
  BY DayType
<1>6. n * Day \in Int /\ 28 * Day \in Int /\ (n + l) * Day \in Int /\ r \in Int
  BY <1>3, DayType
<1> QED BY <1>2, <1>3, <1>4, <1>5, <1>6

\* How long the windows of the clock's periods are, and which of them a month
\* later than its beginning ends.
LEMMA Lengths ==
    ASSUME ClockInv
    PROVE  /\ BoundsFor(t, "hourly").to - BoundsFor(t, "hourly").from = Hour
           /\ BoundsFor(t, "daily").to - BoundsFor(t, "daily").from = Day
           /\ BoundsFor(t, "weekly").to - BoundsFor(t, "weekly").from = 7 * Day
           /\ BoundsFor(t, "monthly").to - BoundsFor(t, "monthly").from \in Nat
           /\ BoundsFor(t, "monthly").to - BoundsFor(t, "monthly").from >= 28 * Day
           /\ AddDate(BoundsFor(t, "monthly").from, 1, 0) = BoundsFor(t, "monthly").to
           /\ \A k \in Kinds \ {"monthly"} :
                AddDate(BoundsFor(t, k).from, 1, 0) # BoundsFor(t, k).to
<1>0. /\ Today \in Nat /\ civil.tick \in 0 .. Day - 1 /\ t \in Nat
      /\ WeekBegan \in Nat /\ MonthBegan \in Nat
  BY BeganType
<1>1. PICK l \in 28 .. 31 : l = DaysInMonth(civil.year, civil.month)
  BY BeganType
<1>2. /\ began["daily"] = Today * Day /\ began["weekly"] = WeekBegan * Day
      /\ began["monthly"] = MonthBegan * Day
      /\ began["hourly"] = t - (civil.tick % Hour) /\ t = Today * Day + civil.tick
  BY DEF ClockInv, WeekBegan, MonthBegan
<1>3. /\ \A k \in Kinds : BoundsFor(t, k).from = began[k]
      /\ BoundsFor(t, "hourly").to = began["hourly"] + Hour
      /\ BoundsFor(t, "daily").to = (Today + 1) * Day
      /\ BoundsFor(t, "weekly").to = (WeekBegan + 7) * Day
      /\ BoundsFor(t, "monthly").to = (MonthBegan + l) * Day
  BY <1>1, Windows DEF BoundsFor, Kinds
<1>4. /\ BoundsFor(t, "hourly").from = began["hourly"]
      /\ BoundsFor(t, "daily").from = Today * Day
      /\ BoundsFor(t, "weekly").from = WeekBegan * Day
      /\ BoundsFor(t, "monthly").from = MonthBegan * Day
  BY <1>2, <1>3 DEF Kinds
<1>5. PICK r \in 0 .. Day - 1 : began["hourly"] = Today * Day + r
  <2>1. PICK x \in 0 .. Hour - 1 : x = civil.tick % Hour /\ x <= civil.tick
    BY <1>0, DayType
  <2>2. civil.tick - x \in 0 .. Day - 1
    BY <1>0, <2>1, DayType
  <2>3. began["hourly"] = Today * Day + (civil.tick - x)
    BY <1>0, <1>2, <2>1, DayType
  <2> QED BY <2>2, <2>3
<1> HIDE DEF Day, Hour
<1>6. \A n \in Nat : n * Day \in Int /\ 0 \in 0 .. Day - 1 /\ n * Day + 0 = n * Day
  BY DayType
<1>7. \A n \in Nat, x \in Nat : (n + x) * Day - n * Day = x * Day
  BY DayType
<1>8. \A n \in Nat : n * Day + 28 * Day <= AddDate(n * Day, 1, 0) /\ AddDate(n * Day, 1, 0) \in Int
  BY <1>6, MonthIsLater
<1>9. BoundsFor(t, "hourly").to - BoundsFor(t, "hourly").from = Hour
  <2>1. began["hourly"] \in Int
    BY <1>0, <1>5, DayType
  <2> QED BY <1>3, <1>4, <2>1, DayType
<1>10. BoundsFor(t, "daily").to - BoundsFor(t, "daily").from = Day
  <2>1. 1 * Day = Day
    BY DayType
  <2> QED BY <1>0, <1>3, <1>4, <1>7, <2>1
<1>11. BoundsFor(t, "weekly").to - BoundsFor(t, "weekly").from = 7 * Day
  BY <1>0, <1>3, <1>4, <1>7
<1>12. BoundsFor(t, "monthly").to - BoundsFor(t, "monthly").from = l * Day
  BY <1>0, <1>3, <1>4, <1>7
<1>13. l * Day \in Nat /\ l * Day >= 28 * Day
  BY DayType, Times
<1>14. AddDate(BoundsFor(t, "monthly").from, 1, 0) = BoundsFor(t, "monthly").to
  <2>1. nextUTC(began["monthly"], "monthly") = AddDate(began["monthly"], 1, 0)
    BY DEF nextUTC
  <2> QED BY <1>1, <1>2, <1>3, <1>4, <2>1, Windows
<1>15. AddDate(BoundsFor(t, "hourly").from, 1, 0) # BoundsFor(t, "hourly").to
  <2>1. /\ AddDate(Today * Day + r, 1, 0) \in Int
        /\ Today * Day + r + 28 * Day <= AddDate(Today * Day + r, 1, 0)
    BY <1>0, MonthIsLater
  <2>2. BoundsFor(t, "hourly").to = Today * Day + r + Hour /\ Today * Day + r \in Int
    BY <1>0, <1>3, <1>5, DayType
  <2>3. Hour < 28 * Day /\ Hour \in Int /\ 28 * Day \in Int
    BY DayType
  <2> QED BY <1>4, <1>5, <2>1, <2>2, <2>3
<1>16. ASSUME NEW n \in Nat, NEW x \in Nat, x < 28
       PROVE  AddDate(n * Day, 1, 0) # (n + x) * Day
  <2>1. (n + x) * Day = n * Day + x * Day /\ x * Day < 28 * Day /\ x * Day \in Int /\ 28 * Day \in Int
    BY <1>16, DayType
  <2> QED BY <1>6, <1>8, <2>1
<1>17. /\ AddDate(BoundsFor(t, "daily").from, 1, 0) # BoundsFor(t, "daily").to
       /\ AddDate(BoundsFor(t, "weekly").from, 1, 0) # BoundsFor(t, "weekly").to
  BY <1>0, <1>3, <1>4, <1>16
<1>18. \A k \in Kinds \ {"monthly"} : AddDate(BoundsFor(t, k).from, 1, 0) # BoundsFor(t, k).to
  BY <1>15, <1>17 DEF Kinds
<1> QED BY <1>9, <1>10, <1>11, <1>12, <1>13, <1>14, <1>18

\* The pre-flight of Import accepts the periods of the parent's own kind and
\* of no other (importer/interval.go intervalMatches).
THEOREM PreflightTellsApart == Spec => []KindsTellApart
<1>1. ClockInv => KindsTellApart
  <2> SUFFICES ASSUME ClockInv, NEW j \in Kinds, NEW k \in Kinds
               PROVE  intervalMatches(j, BoundsFor(t, k)) <=> j = k
    BY DEF KindsTellApart
  <2>1. PICK x : x = BoundsFor(t, k).to - BoundsFor(t, k).from
    OBVIOUS
  <2>2. /\ k = "hourly" => x = Hour
        /\ k = "daily" => x = Day
        /\ k = "weekly" => x = 7 * Day
        /\ k = "monthly" => x \in Nat /\ x >= 28 * Day
    BY <2>1, Lengths
  <2>3. AddDate(BoundsFor(t, k).from, 1, 0) = BoundsFor(t, k).to <=> k = "monthly"
    BY Lengths
  <2>4. intervalMatches(j, BoundsFor(t, k)) =
          CASE j = "hourly" -> x = Hour
            [] j = "daily" -> x = Day
            [] j = "weekly" -> x = 7 * Day
            [] j = "monthly" -> AddDate(BoundsFor(t, k).from, 1, 0) = BoundsFor(t, k).to
    BY <2>1 DEF intervalMatches
  <2>5. CASE j = "monthly"
    BY <2>3, <2>4, <2>5
  <2>6. CASE j # "monthly"
    <3>1. intervalMatches(j, BoundsFor(t, k)) <=>
            x = IF j = "hourly" THEN Hour ELSE IF j = "daily" THEN Day ELSE 7 * Day
      BY <2>4, <2>6 DEF Kinds
    <3> QED BY <2>2, <2>6, <3>1, DayType DEF Kinds
  <2> QED BY <2>5, <2>6
<1> QED BY <1>1, Clock, PTL

-----------------------------------------------------------------------------
(* Periods made ahead *)

\* g[0], g[1], ... are the beginnings of successive periods of kind k.
Follow(g, k) == \A i \in Nat : g[i + 1] = nextUTC(g[i], k)

\* The first n of those periods.
PeriodsOf(g, n) == [i \in 1 .. n |-> [from |-> g[i - 1], to |-> g[i]]]

\* The list is the periods from one beginning to the next.
LEMMA ListIs ==
    ASSUME NEW at, NEW k, NEW count \in Nat, NEW g, g[0] = floorUTC(at, k), Follow(g, k)
    PROVE  NextBoundsUTC(at, k, count) = PeriodsOf(g, count)
<1> DEFINE Step(f) == [i \in 1 .. count |-> IF i = 1 THEN floorUTC(at, k) ELSE nextUTC(f[i - 1], k)]
           F == CHOOSE f : f = Step(f)
           G == [i \in 1 .. count |-> g[i - 1]]
<1>1. \A i \in 1 .. count : i - 1 \in Nat /\ (i - 1) + 1 = i /\ nextUTC(g[i - 1], k) = g[i]
  <2> SUFFICES ASSUME NEW i \in 1 .. count
               PROVE  i - 1 \in Nat /\ (i - 1) + 1 = i /\ nextUTC(g[i - 1], k) = g[i]
    OBVIOUS
  <2>1. PICK p \in Nat : p = i - 1 /\ p + 1 = i
    OBVIOUS
  <2> QED BY <2>1 DEF Follow
<1>2. NextBoundsUTC(at, k, count) = [i \in 1 .. count |-> [from |-> F[i], to |-> nextUTC(F[i], k)]]
  BY DEF NextBoundsUTC
<1>3. G = Step(G)
  <2>1. \A i \in 1 .. count : G[i] = Step(G)[i]
    <3> SUFFICES ASSUME NEW i \in 1 .. count PROVE G[i] = Step(G)[i]
      OBVIOUS
    <3>1. CASE i = 1
      BY <3>1
    <3>2. CASE i # 1
      <4>1. i - 1 \in 1 .. count
        BY <3>2
      <4>2. G[i - 1] = g[(i - 1) - 1] /\ G[i] = g[i - 1]
        BY <4>1
      <4>3. nextUTC(g[(i - 1) - 1], k) = g[i - 1]
        BY <1>1, <4>1
      <4> QED BY <3>2, <4>2, <4>3
    <3> QED BY <3>1, <3>2
  <2> QED BY <2>1
<1> HIDE DEF Step
<1>4. F = Step(F)
  BY <1>3
<1>5. \A i \in 1 .. count : F[i] = g[i - 1]
  <2> DEFINE Bad == {i \in 1 .. count : F[i] # g[i - 1]}
  <2> HIDE DEF F
  <2> SUFFICES ASSUME Bad # {} PROVE FALSE
    OBVIOUS
  <2>1. PICK i \in Bad : \A j \in Bad : i <= j
    <3>1. Bad \in SUBSET Nat
      OBVIOUS
    <3> HIDE DEF Bad
    <3> QED BY <3>1, LeastElement
  <2>2. F[i] = IF i = 1 THEN floorUTC(at, k) ELSE nextUTC(F[i - 1], k)
    BY <1>4 DEF Step
  <2>3. CASE i = 1
    BY <2>1, <2>2, <2>3
  <2>4. CASE i # 1
    <3>1. PICK p \in 1 .. count : p = i - 1
      BY <2>4
    <3>2. p \notin Bad
      BY <2>1, <3>1
    <3>3. F[p] = g[p - 1] /\ nextUTC(g[p - 1], k) = g[p]
      BY <1>1, <3>2
    <3> QED BY <2>1, <2>2, <2>4, <3>1, <3>3
  <2> QED BY <2>3, <2>4
<1> HIDE DEF F
<1> QED BY <1>1, <1>2, <1>5 DEF PeriodsOf

\* Month after month, across the ends of years.
LEMMA MonthsCarry ==
    ASSUME NEW y \in Nat, y >= 1970, NEW m \in Nat \ {0}
    PROVE  /\ Date(y, m, 1) \in Nat
           /\ nextUTC(Date(y, m, 1) * Day, "monthly") = Date(y, m + 1, 1) * Day
<1>0. PICK q \in Nat, r \in 0 .. 11 : m - 1 = q * 12 + r /\ q = (m - 1) \div 12 /\ r = (m - 1) % 12
  OBVIOUS
<1>1. PICK yy \in Nat : yy = y + q /\ yy >= 1970
  OBVIOUS
<1>2. PICK mm \in 1 .. 12 : mm = r + 1
  OBVIOUS
<1>3. Date(y, m, 1) = DaysBeforeYear(yy) + DaysBeforeMonth(yy, mm) + 1 - 1
  BY <1>0, <1>1, <1>2 DEF Date
<1>4. Date(yy, mm, 1) = DaysBeforeYear(yy) + DaysBeforeMonth(yy, mm) + 1 - 1
  BY DateIs
<1>5. DaysInMonth(yy, mm) \in 28 .. 31
  BY MonthRange
<1>6. IsDate(Date(y, m, 1), yy, mm, 1)
  BY <1>1, <1>3, <1>4, <1>5 DEF IsDate
<1>7. Date(y, m, 1) \in Nat
  BY <1>6, DatePlace
<1>8. Date(yy, mm + 1, 1) = Date(y, m, 1) + DaysInMonth(yy, mm)
  <2>1. Date(yy, mm + 1, 1) = Date(y, m, 1) - 1 + 1 + DaysInMonth(yy, mm)
    BY <1>6, DatePlace
  <2> QED BY <1>5, <1>7, <2>1
<1>9. Date(yy, mm + 1, 1) = Date(y, m + 1, 1)
  <2>1. CASE r < 11
    <3>1. PICK x \in 1 .. 12 : x = mm + 1
      BY <1>2, <2>1
    <3>2. ((m + 1) - 1) \div 12 = q /\ ((m + 1) - 1) % 12 = r + 1 /\ r + 1 + 1 = x
      BY <1>0, <1>2, <2>1, <3>1
    <3>3. Date(y, m + 1, 1) = DaysBeforeYear(yy) + DaysBeforeMonth(yy, x) + 1 - 1
      BY <1>1, <3>2 DEF Date
    <3>4. Date(yy, x, 1) = DaysBeforeYear(yy) + DaysBeforeMonth(yy, x) + 1 - 1
      BY DateIs
    <3> QED BY <3>1, <3>3, <3>4
  <2>2. CASE r = 11
    <3>1. ((m + 1) - 1) \div 12 = q + 1 /\ ((m + 1) - 1) % 12 = 0 /\ y + (q + 1) = yy + 1 /\ mm + 1 = 13
      BY <1>0, <1>1, <1>2, <2>2
    <3>2. DaysBeforeMonth(yy + 1, 1) = 0 /\ DaysBeforeYear(yy + 1) \in Int
      BY YearType DEF DaysBeforeMonth, DaysBefore
    <3>3. Date(y, m + 1, 1) = DaysBeforeYear(yy + 1) + DaysBeforeMonth(yy + 1, 0 + 1) + 1 - 1
      BY <3>1 DEF Date
    <3>4. Date(yy, 13, 1) = DaysBeforeYear(yy + 1) + 1 - 1
      BY DateAfterYear
    <3> QED BY <3>1, <3>2, <3>3, <3>4
  <2> QED BY <2>1, <2>2
<1> QED BY <1>6, <1>7, <1>8, <1>9, NextsAre

\* Every period of the clock is followed by another, without end.
LEMMA PeriodsFollow ==
    ASSUME ClockInv, NEW k \in Kinds
    PROVE  \E g : g[0] = began[k] /\ Follow(g, k)
<1>0. /\ Today \in Nat /\ civil.tick \in 0 .. Day - 1 /\ t \in Nat
      /\ WeekBegan \in Nat /\ MonthBegan \in Nat
  BY BeganType
<1>1. /\ began["daily"] = Today * Day /\ began["weekly"] = WeekBegan * Day
      /\ began["monthly"] = MonthBegan * Day
  BY DEF ClockInv, WeekBegan, MonthBegan
<1>2. civil.year \in Nat /\ civil.year >= 1970 /\ civil.month \in Nat \ {0}
      /\ civil.month \in 1 .. 12 /\ Date(civil.year, civil.month, 1) = MonthBegan
  BY BeganType DEF IsDate
<1>3. CASE k = "hourly"
  <2> DEFINE g == [i \in Nat |-> began["hourly"] + i * Hour]
  <2>1. began["hourly"] \in Int
    BY DEF ClockInv, TypeOK, Kinds
  <2>2. g[0] = began["hourly"]
    BY <2>1, DayType
  <2>3. ASSUME NEW i \in Nat PROVE g[i + 1] = nextUTC(g[i], "hourly")
    <3>1. g[i + 1] = began["hourly"] + (i + 1) * Hour /\ g[i] = began["hourly"] + i * Hour
      OBVIOUS
    <3>2. began["hourly"] + (i + 1) * Hour = began["hourly"] + i * Hour + Hour
      BY <2>1, DayType
    <3> HIDE DEF g
    <3> QED BY <3>1, <3>2 DEF nextUTC
  <2> HIDE DEF g
  <2> QED BY <1>3, <2>2, <2>3 DEF Follow
<1>4. ASSUME NEW n \in Nat, NEW l \in Nat
      PROVE  \E g : /\ g[0] = n * Day
                    /\ \A i \in Nat : \E x \in Nat : g[i] = x * Day /\ g[i + 1] = (x + l) * Day
  <2> DEFINE g == [i \in Nat |-> (n + i * l) * Day]
  <2>1. g[0] = n * Day
    OBVIOUS
  <2>2. ASSUME NEW i \in Nat
        PROVE  \E x \in Nat : g[i] = x * Day /\ g[i + 1] = (x + l) * Day
    <3>1. PICK x \in Nat : x = n + i * l
      OBVIOUS
    <3>2. n + (i + 1) * l = x + l
      BY <3>1
    <3>3. g[i] = (n + i * l) * Day /\ g[i + 1] = (n + (i + 1) * l) * Day
      OBVIOUS
    <3> HIDE DEF g
    <3> QED BY <3>1, <3>2, <3>3
  <2> HIDE DEF g
  <2> QED BY <2>1, <2>2
<1>5. \A x \in Nat : nextUTC(x * Day, "daily") = (x + 1) * Day /\ nextUTC(x * Day, "weekly") = (x + 7) * Day
  BY DateExists, NextsAre
<1>6. CASE k = "daily"
  <2>1. PICK g : g[0] = Today * Day
                 /\ \A i \in Nat : \E x \in Nat : g[i] = x * Day /\ g[i + 1] = (x + 1) * Day
    BY <1>0, <1>4
  <2> QED BY <1>1, <1>5, <1>6, <2>1 DEF Follow
<1>7. CASE k = "weekly"
  <2>1. PICK g : g[0] = WeekBegan * Day
                 /\ \A i \in Nat : \E x \in Nat : g[i] = x * Day /\ g[i + 1] = (x + 7) * Day
    BY <1>0, <1>4
  <2> QED BY <1>1, <1>5, <1>7, <2>1 DEF Follow
<1>8. CASE k = "monthly"
  <2> DEFINE g == [i \in Nat |-> Date(civil.year, civil.month + i, 1) * Day]
  <2>1. g[0] = MonthBegan * Day
    <3>1. civil.month + 0 = civil.month
      BY <1>2
    <3> QED BY <1>2, <3>1
  <2>2. ASSUME NEW i \in Nat PROVE g[i + 1] = nextUTC(g[i], "monthly")
    <3>1. PICK x \in Nat \ {0} : x = civil.month + i /\ x + 1 = civil.month + (i + 1)
      BY <1>2
    <3>2. g[i] = Date(civil.year, x, 1) * Day /\ g[i + 1] = Date(civil.year, x + 1, 1) * Day
      BY <3>1
    <3>3. nextUTC(Date(civil.year, x, 1) * Day, "monthly") = Date(civil.year, x + 1, 1) * Day
      BY <1>2, MonthsCarry
    <3> HIDE DEF g
    <3> QED BY <3>2, <3>3
  <2> HIDE DEF g
  <2> QED BY <1>1, <1>8, <2>1, <2>2 DEF Follow
<1> QED BY <1>3, <1>6, <1>7, <1>8 DEF Kinds

\* A period goes on until it ends, and the next one begins where it ended.
LEMMA PeriodTurns ==
    ASSUME ClockInv, Next, NEW k \in Kinds
    PROVE  IF t' < nextUTC(began[k], k) THEN began'[k] = began[k]
           ELSE began'[k] = nextUTC(began[k], k)
<1>0. /\ Today \in Nat /\ civil.tick \in 0 .. Day - 1 /\ t \in Nat /\ t' = t + 1
      /\ WeekBegan \in Nat /\ MonthBegan \in Nat /\ civil.weekday \in 0 .. 6
      /\ civil.day \in 1 .. 31
  BY BeganType, CivilType DEF ClockInv, Next, Tick, Midnight
<1>1. PICK l \in 28 .. 31 : l = DaysInMonth(civil.year, civil.month)
  BY BeganType
<1>2. /\ nextUTC(began["hourly"], "hourly") = began["hourly"] + Hour
      /\ nextUTC(began["daily"], "daily") = (Today + 1) * Day
      /\ nextUTC(began["weekly"], "weekly") = (WeekBegan + 7) * Day
      /\ nextUTC(began["monthly"], "monthly") = (MonthBegan + l) * Day
  BY <1>1, Windows
<1>3. t = Today * Day + civil.tick /\ began["hourly"] = t - (civil.tick % Hour)
      /\ began \in [Kinds -> 0 .. t]
  BY DEF ClockInv, TypeOK
<1>4. Today < WeekBegan + 7 /\ Today < MonthBegan + l
  BY <1>1, BeganType
<1>5. \A x \in Nat : Today < x => (Today + 1) * Day <= x * Day /\ (Today + 1) * Day \in Int /\ x * Day \in Int
  BY <1>0, DayType, Times
<1> HIDE DEF Day, Hour
<1>6. CASE Tick
  <2>1. PICK r \in Nat : r = civil.tick + 1 /\ r < Day
    BY <1>0, <1>6, DayType DEF Tick
  <2>2. t' = Today * Day + r /\ t' < (Today + 1) * Day
    BY <1>0, <1>3, <2>1, DayType
  <2>3. civil'.tick = r
    BY <1>6, <2>1 DEF Tick, ClockInv, TypeOK
  <2>4. began' = IF r % Hour = 0 THEN [began EXCEPT !["hourly"] = t'] ELSE began
    BY <1>6, <2>3 DEF Tick
  <2>5. CASE k # "hourly"
    <3>1. began'[k] = began[k]
      BY <1>3, <2>4, <2>5
    <3>2. t' < (WeekBegan + 7) * Day /\ t' < (MonthBegan + l) * Day
      BY <1>0, <1>4, <1>5, <2>2
    <3>3. t' < nextUTC(began[k], k)
      BY <1>2, <2>2, <2>5, <3>2 DEF Kinds
    <3> QED BY <3>1, <3>3
  <2>6. CASE k = "hourly"
    <3>1. PICK x \in 0 .. Hour - 1 : x = civil.tick % Hour
      BY <1>0, DayType
    <3>2. CASE r % Hour = 0
      <4>1. x + 1 = Hour
        <5>1. ~(x + 1 < Hour)
          <6> SUFFICES ASSUME x + 1 < Hour PROVE FALSE
            OBVIOUS
          <6>1. PICK q \in Int, z \in 0 .. Hour - 1 : z = civil.tick % Hour /\ civil.tick = q * Hour + z
            <7>1. civil.tick \in Int
              BY <1>0, DayType
            <7> QED BY <7>1, DayType, ModSplit
          <6>2. r = q * Hour + (x + 1) /\ x + 1 \in 0 .. Hour - 1
            BY <2>1, <3>1, <6>1, DayType
          <6>3. (q * Hour + (x + 1)) % Hour = x + 1
            BY <6>2, DayType, DivMod
          <6> QED BY <3>2, <6>2, <6>3
        <5> QED BY <5>1, DayType
      <4>2. began'["hourly"] = t'
        BY <1>3, <2>4, <3>2 DEF Kinds
      <4>3. t' = began["hourly"] + Hour
        BY <1>0, <1>3, <3>1, <4>1, DayType
      <4> QED BY <1>0, <1>2, <2>6, <4>2, <4>3
    <3>3. CASE r % Hour # 0
      <4>1. r % Hour = x + 1 /\ r % Hour \in 0 .. Hour - 1
        <5>1. civil.tick \in Nat /\ r = civil.tick + 1
          BY <1>0, <2>1, DayType
        <5>2. r % Hour = 0 \/ r % Hour = (civil.tick % Hour) + 1
          BY <5>1, ModNext, DayType
        <5> QED BY <3>1, <3>3, <5>1, <5>2, DayType
      <4>2. began' = began
        BY <2>4, <3>3
      <4>3. t' < began["hourly"] + Hour
        BY <1>0, <1>3, <3>1, <4>1, DayType
      <4> QED BY <1>2, <2>6, <4>2, <4>3
    <3> QED BY <3>2, <3>3
  <2> QED BY <2>5, <2>6
<1>7. CASE Midnight
  <2>1. civil.tick = Day - 1 /\ t' = (Today + 1) * Day
    BY <1>0, <1>3, <1>7, DayType DEF Midnight
  <2>2. \A x \in Nat : Today < x => (t' < x * Day <=> Today + 1 # x) /\ (Today + 1 = x => t' = x * Day)
    <3> SUFFICES ASSUME NEW x \in Nat, Today < x
                 PROVE  (t' < x * Day <=> Today + 1 # x) /\ (Today + 1 = x => t' = x * Day)
      OBVIOUS
    <3>1. CASE Today + 1 = x
      BY <1>0, <2>1, <3>1, DayType
    <3>2. CASE Today + 1 # x
      <4>1. (Today + 2) * Day <= x * Day
        BY <1>0, <3>2, DayType, Times
      <4>2. (Today + 2) * Day = (Today + 1) * Day + Day
        BY <1>0, DayType
      <4>3. (Today + 1) * Day \in Int /\ x * Day \in Int
        BY <1>0, DayType
      <4> QED BY <2>1, <3>2, <4>1, <4>2, <4>3, DayType
    <3> QED BY <3>1, <3>2
  <2>3. /\ began'["hourly"] = t' /\ began'["daily"] = t'
        /\ began'["weekly"] = IF (civil.weekday + 1) % 7 = 1 THEN t' ELSE began["weekly"]
        /\ began'["monthly"] = IF civil.day = l THEN t' ELSE began["monthly"]
    BY <1>1, <1>7 DEF Midnight, Kinds, Monday
  <2>4. CASE k = "hourly"
    <3>1. PICK x \in 0 .. Hour - 1 : x = civil.tick % Hour /\ x + 1 = Hour
      <4>1. PICK h \in Nat : h = Hour - 1 /\ h \in 0 .. Hour - 1
        BY DayType
      <4>2. civil.tick = 23 * Hour + h
        BY <2>1, <4>1, DayType
      <4>3. (23 * Hour + h) % Hour = h
        BY <4>1, DayType, DivMod
      <4> QED BY <4>1, <4>2, <4>3, DayType
    <3>2. t' = began["hourly"] + Hour
      BY <1>0, <1>3, <3>1, DayType
    <3> QED BY <1>0, <1>2, <2>3, <2>4, <3>2
  <2>5. CASE k = "daily"
    <3>1. ~(t' < (Today + 1) * Day)
      BY <1>0, <2>2
    <3> QED BY <1>2, <2>1, <2>3, <2>5, <3>1
  <2>6. CASE k = "weekly"
    <3>1. (civil.weekday + 1) % 7 = 1 <=> Today + 1 = WeekBegan + 7
      BY <1>0 DEF WeekBegan
    <3>2. WeekBegan + 7 \in Nat
      BY <1>0
    <3> QED BY <1>2, <1>4, <2>2, <2>3, <2>6, <3>1, <3>2
  <2>7. CASE k = "monthly"
    <3>1. civil.day = l <=> Today + 1 = MonthBegan + l
      BY <1>0 DEF MonthBegan
    <3>2. MonthBegan + l \in Nat
      BY <1>0
    <3> QED BY <1>2, <1>4, <2>2, <2>3, <2>7, <3>1, <3>2
  <2> QED BY <2>4, <2>5, <2>6, <2>7 DEF Kinds
<1> QED BY <1>6, <1>7 DEF Next

\* Dropping the last element of a list.
LEMMA FrontIs ==
    ASSUME NEW S, NEW n \in Nat \ {0}, NEW f \in Seq(S), Len(f) = n
    PROVE  /\ SubSeq(f, 1, n - 1) \in Seq(S) /\ Len(SubSeq(f, 1, n - 1)) = n - 1
           /\ \A i \in 1 .. n - 1 : SubSeq(f, 1, n - 1)[i] = f[i]
OBVIOUS

\* A list loses its first element and keeps the rest.
LEMMA ListShifts ==
    ASSUME NEW n \in Nat \ {0}, NEW old, NEW new, NEW S,
           old = [i \in 1 .. n |-> old[i]], new = [i \in 1 .. n |-> new[i]],
           \A i \in 1 .. n : old[i] \in S /\ new[i] \in S,
           \A i \in 1 .. n - 1 : new[i] = old[i + 1]
    PROVE  SubSeq(new, 1, n - 1) = Tail(old)
<1>1. old \in Seq(S) /\ new \in Seq(S) /\ Len(old) = n /\ Len(new) = n /\ old # << >>
  OBVIOUS
<1>2. /\ Tail(old) \in Seq(S) /\ Len(Tail(old)) = n - 1
      /\ \A i \in 1 .. n - 1 : Tail(old)[i] = old[i + 1]
  BY <1>1
<1>3. /\ SubSeq(new, 1, n - 1) \in Seq(S) /\ Len(SubSeq(new, 1, n - 1)) = n - 1
      /\ \A i \in 1 .. n - 1 : SubSeq(new, 1, n - 1)[i] = new[i]
  BY <1>1, FrontIs
<1>4. PICK u \in Seq(S), v \in Seq(S) : u = SubSeq(new, 1, n - 1) /\ v = Tail(old)
  BY <1>2, <1>3
<1>5. Len(u) = Len(v) /\ \A i \in 1 .. Len(u) : u[i] = v[i]
  BY <1>2, <1>3, <1>4
<1> QED BY <1>4, <1>5, SeqEqual

\* Partitions made ahead are the ones asked for later (NextBoundsUTC): as
\* time passes the list of periods loses its first when that is over, gains
\* one at the end, and no bound in between moves, over the ends of months and
\* years and over February.
THEOREM PremadeIsAskedFor == Spec => PremadeStands
<1> DEFINE Floors == \A k \in Kinds : floorUTC(t, k) = began[k]
<1>a. ClockInv => Floors
  BY Windows
<1>b. ClockInv' => Floors'
  BY <1>a, PTL
<1> DEFINE Stands(k) ==
      LET old == NextBoundsUTC(t, k, Count)  new == NextBoundsUTC(t', k, Count) IN
      IF t' < old[1].to THEN new = old
      ELSE /\ old[1].to = began'[k]
           /\ SubSeq(new, 1, Count - 1) = Tail(old)
           /\ Count > 1 => new[Count].from = old[Count].to
<1>1. ASSUME ClockInv, ClockInv', Next, NEW k \in Kinds PROVE Stands(k)
  <2>1. PICK g : g[0] = began[k] /\ Follow(g, k)
    BY <1>1, PeriodsFollow
  <2>2. g[0] = floorUTC(t, k)
    BY <1>1, <1>a, <2>1
  <2>3. floorUTC(t', k) = began'[k]
    BY <1>1, <1>b
  <2>4. Count \in Nat /\ Count \in Nat \ {0} /\ 1 \in 1 .. Count /\ Count \in 1 .. Count
    BY CalendarAssumption
  <2>5. PICK old : /\ old = NextBoundsUTC(t, k, Count)
                   /\ old = PeriodsOf(g, Count)
    BY <2>1, <2>2, <2>4, ListIs
  <2>6. old[1].to = g[1] /\ g[1] = nextUTC(began[k], k)
    <3>1. g[0 + 1] = nextUTC(g[0], k) /\ 0 + 1 = 1
      BY <2>1 DEF Follow
    <3> QED BY <2>1, <2>4, <2>5, <3>1 DEF PeriodsOf
  <2>7. CASE t' < nextUTC(began[k], k)
    <3>1. g[0] = floorUTC(t', k)
      BY <1>1, <2>1, <2>3, <2>7, PeriodTurns
    <3>2. NextBoundsUTC(t', k, Count) = PeriodsOf(g, Count)
      BY <2>1, <2>4, <3>1, ListIs
    <3> QED BY <2>5, <2>6, <2>7, <3>2
  <2>8. CASE ~(t' < nextUTC(began[k], k))
    <3>1. began'[k] = g[1]
      BY <1>1, <2>6, <2>8, PeriodTurns
    <3>2. PICK h : h = [i \in Nat |-> g[i + 1]]
      OBVIOUS
    <3>3. h[0] = floorUTC(t', k)
      <4>1. h[0] = g[0 + 1] /\ 0 + 1 = 1
        BY <3>2
      <4> QED BY <2>3, <3>1, <4>1
    <3>4. Follow(h, k)
      BY <2>1, <3>2 DEF Follow
    <3>5. PICK new : /\ new = NextBoundsUTC(t', k, Count)
                     /\ new = PeriodsOf(h, Count)
      BY <2>4, <3>3, <3>4, ListIs
    <3>6. new = [i \in 1 .. Count |-> new[i]] /\ old = [i \in 1 .. Count |-> old[i]]
      BY <2>5, <3>5 DEF PeriodsOf
    <3>7. ASSUME NEW i \in 1 .. Count - 1 PROVE new[i] = old[i + 1]
      <4>1. PICK p \in Nat : p = i - 1 /\ p + 1 = i /\ i \in Nat /\ i \in 1 .. Count
                             /\ i + 1 \in 1 .. Count /\ (i + 1) - 1 = i
        BY <2>4
      <4>2. h[p] = g[p + 1] /\ h[i] = g[i + 1]
        BY <3>2, <4>1
      <4>3. new[i] = [from |-> h[i - 1], to |-> h[i]]
        BY <3>5, <4>1 DEF PeriodsOf
      <4>4. old[i + 1] = [from |-> g[(i + 1) - 1], to |-> g[i + 1]]
        BY <2>5, <4>1 DEF PeriodsOf
      <4> QED BY <4>1, <4>2, <4>3, <4>4
    <3>8. SubSeq(new, 1, Count - 1) = Tail(old)
      <4>1. PICK S : S = {old[i] : i \in 1 .. Count} \cup {new[i] : i \in 1 .. Count}
        OBVIOUS
      <4>2. \A i \in 1 .. Count : old[i] \in S /\ new[i] \in S
        BY <4>1
      <4> QED BY <2>4, <3>6, <3>7, <4>2, ListShifts
    <3>9. new[Count].from = old[Count].to
      <4>1. PICK p \in Nat : p = Count - 1 /\ p + 1 = Count
        BY <2>4
      <4>2. new[Count].from = h[p]
        BY <2>4, <3>5, <4>1 DEF PeriodsOf
      <4>3. old[Count].to = g[Count]
        BY <2>4, <2>5 DEF PeriodsOf
      <4>4. h[p] = g[p + 1]
        BY <3>2, <4>1
      <4> QED BY <4>1, <4>2, <4>3, <4>4
    <3> QED BY <2>5, <2>6, <2>8, <3>1, <3>5, <3>8, <3>9
  <2> QED BY <2>7, <2>8
<1>2. ClockInv /\ ClockInv' /\ [Next]_vars => [\A k \in Kinds : Stands(k)]_vars
  BY <1>1
<1> QED BY <1>2, Clock, PTL DEF Spec, PremadeStands

=============================================================================
