----------------------------- MODULE RulesProofs -----------------------------
(***************************************************************************)
(* Theorems about MCRules: that the two calendars of gps-core agree and an *)
(* age is the number of birthdays that have come, how numbers and dates    *)
(* are read from a page, and what a journal shows, hides and commits to,   *)
(* for bodies, predicates and salts of any length.                         *)
(*                                                                         *)
(* The calendar is proved from its other side: DayNumber counts the days   *)
(* before a date, one more for each next date, and civil_from_days undoes  *)
(* it.  Of predicates it is proved that evaluator and publisher find the   *)
(* same operator, so they cut the same operand off.                        *)
(***************************************************************************)
EXTENDS MCRules, SequenceLemmas, FiniteSetTheorems, SequenceTheorems, TLAPS

-----------------------------------------------------------------------------
(* Days of an era *)

\* A quotient is the number that leaves a remainder.
LEMMA DivIs ==
  ASSUME NEW b \in Nat \ {0}, NEW n \in Int, NEW k \in Int, b * k <= n, n < b * k + b
  PROVE  n \div b = k
  OBVIOUS

\* Day doy of year r of the q-th four years of century c, counted in its era.
DayOfEra(c, q, r, doy) == 36524 * c + 1461 * q + 365 * r + doy

\* The year of an era that civil_from_days finds for a day of it.
YearIn(doe) == (doe - doe \div 1460 + doe \div 36524 - doe \div 146096) \div 365

\* civil_from_days finds the year of a day of an era.
LEMMA YearRead ==
  ASSUME NEW c \in Nat, NEW q \in Nat, NEW r \in Nat, c <= 3, q <= 24, r <= 3,
         NEW doy \in Nat, doy <= 365,
         doy = 365 => r = 3 /\ (q # 24 \/ c = 3), NEW doe \in Int, doe = DayOfEra(c, q, r, doy)
  PROVE  /\ doe \in Nat /\ doe <= 146096
         /\ YearIn(doe) = 100 * c + 4 * q + r
<1> DEFINE e == IF 24 * c + q + 365 * r + doy >= 1460 THEN 1 ELSE 0
           l == IF doe = 146096 THEN 1 ELSE 0
           yoe == 100 * c + 4 * q + r
<1>1. doe \in Nat /\ doe <= 146096
  BY DEF DayOfEra
<1>2. doe \div 1460 = 25 * c + q + e
  <2>1. 1460 * (25 * c + q + e) <= doe /\ doe < 1460 * (25 * c + q + e) + 1460
    BY DEF DayOfEra
  <2>2. 25 * c + q + e \in Int /\ doe \in Int /\ 1460 \in Nat \ {0}
    BY <1>1
  <2> HIDE DEF e
  <2> QED
    BY <2>1, <2>2, DivIs
<1>3. doe \div 36524 = c + l
  <2>1. 36524 * (c + l) <= doe /\ doe < 36524 * (c + l) + 36524
    BY DEF DayOfEra
  <2>2. c + l \in Int /\ doe \in Int /\ 36524 \in Nat \ {0}
    BY <1>1
  <2> HIDE DEF l
  <2> QED
    BY <2>1, <2>2, DivIs
<1>4. doe \div 146096 = l
  <2> QED
    BY <1>1
<1>5. doe - doe \div 1460 + doe \div 36524 - doe \div 146096 = 365 * yoe + (doy - e)
  <2>1. doe - (25 * c + q + e) + (c + l) - l = 365 * yoe + (doy - e)
    BY DEF DayOfEra
  <2> HIDE DEF l, e, yoe
  <2> QED
    BY <1>2, <1>3, <1>4, <2>1
<1>6. doy - e \in Nat /\ doy - e <= 364 /\ yoe \in Int
  OBVIOUS
<1> HIDE DEF e, yoe
<1>7. (365 * yoe + (doy - e)) \div 365 = yoe
  <2>1. 365 * yoe <= 365 * yoe + (doy - e) /\ 365 * yoe + (doy - e) < 365 * yoe + 365
    BY <1>6
  <2>2. 365 * yoe + (doy - e) \in Int /\ 365 \in Nat \ {0}
    BY <1>6
  <2> QED
    BY <1>6, <2>1, <2>2, DivIs
<1> QED
  BY <1>1, <1>5, <1>7 DEF yoe, YearIn

\* The days of a year before its month mp; a year begins in March.
MonthDays(mp) == (153 * mp + 2) \div 5

\* The months of a year, from March to February.
LEMMA MonthStarts ==
  /\ MonthDays(0) = 0 /\ MonthDays(1) = 31 /\ MonthDays(2) = 61 /\ MonthDays(3) = 92
  /\ MonthDays(4) = 122 /\ MonthDays(5) = 153 /\ MonthDays(6) = 184 /\ MonthDays(7) = 214
  /\ MonthDays(8) = 245 /\ MonthDays(9) = 275 /\ MonthDays(10) = 306 /\ MonthDays(11) = 337
  BY DEF MonthDays

\* civil_from_days finds the month of a day of a year.
LEMMA MonthRead ==
  ASSUME NEW mp \in 0..11, NEW d \in 1..31, d = 31 => mp \in {0, 2, 4, 5, 7, 9, 10}
  PROVE  (5 * (MonthDays(mp) + d - 1) + 2) \div 153 = mp
<1> DEFINE k == 5 * (MonthDays(mp) + d - 1) + 2
<1>1. mp \in {0, 1, 2, 3, 4, 5, 6, 7, 8, 9, 10, 11}
  OBVIOUS
<1>2. 153 * mp <= k /\ k < 153 * mp + 153 /\ k \in Int
  BY <1>1, MonthStarts
<1> HIDE DEF k
<1>3. k \div 153 = mp
  BY <1>2, DivIs
<1> QED
  BY <1>3 DEF k

\* The dates valid_ymd accepts.
Dates == {x \in [y : Nat, m : 1..12, d : 1..31] : ValidYmd(x.y, x.m, x.d)}

\* A year that begins in March, with its number of months before.
YearOf(x)  == IF x.m <= 2 THEN x.y - 1 ELSE x.y
MonthOf(x) == IF x.m <= 2 THEN x.m + 9 ELSE x.m - 3

\* The days before year a, and the number of a date: the inverse of civil_from_days.
YearDays(a) == 365 * a + a \div 4 - a \div 100 + a \div 400

DayNumber(x) == YearDays(YearOf(x)) + MonthDays(MonthOf(x)) + x.d - 1 - 719468

\* Year a is year 100c + 4q + r of an era.
Parts(a, era, c, q, r) ==
  /\ era \in Int /\ c \in Nat /\ q \in Nat /\ r \in Nat /\ c <= 3 /\ q <= 24 /\ r <= 3
  /\ a = 400 * era + 100 * c + 4 * q + r

\* It has such parts, and the quotients of the leap rule follow from them.
HasParts(a) ==
  \E era \in Int, c \in Nat, q \in Nat, r \in Nat :
    /\ Parts(a, era, c, q, r)
    /\ a \div 4 = 100 * era + 25 * c + q /\ a \div 100 = 4 * era + c /\ a \div 400 = era

\* Every year is a year of an era.
LEMMA YearParts == ASSUME NEW a \in Int PROVE HasParts(a)
<1> DEFINE era == a \div 400
           n == a - 400 * era
           c == n \div 100
           k == n - 100 * c
           q == k \div 4
           r == k - 4 * q
<1>1. era \in Int /\ n \in Int /\ 0 <= n /\ n < 400
  OBVIOUS
<1> HIDE DEF era
<1>2. c \in Int /\ k \in Int /\ 0 <= k /\ k < 100 /\ 0 <= c /\ c <= 3
  BY <1>1
<1> HIDE DEF n, c
<1>3. q \in Int /\ r \in Int /\ 0 <= r /\ r < 4 /\ 0 <= q /\ q <= 24
  BY <1>2
<1> HIDE DEF k, q
<1>4. a = 400 * era + 100 * c + 4 * q + r
  BY <1>1, <1>2, <1>3 DEF n, k
<1> HIDE DEF r
<1>5. c \in Nat /\ q \in Nat /\ r \in Nat /\ c <= 3 /\ q <= 24 /\ r <= 3
  BY <1>2, <1>3
<1>6. a \div 4 = 100 * era + 25 * c + q
  <2> DEFINE m == 100 * era + 25 * c + q
  <2>1. m \in Int /\ 4 * m <= a /\ a < 4 * m + 4
    BY <1>1, <1>2, <1>3, <1>4
  <2> HIDE DEF m
  <2>2. a \div 4 = m
    BY <2>1, DivIs
  <2> QED
    BY <2>2 DEF m
<1>7. a \div 100 = 4 * era + c
  <2> DEFINE m == 4 * era + c
  <2>1. m \in Int /\ 100 * m <= a /\ a < 100 * m + 100
    BY <1>1, <1>2, <1>3, <1>4
  <2> HIDE DEF m
  <2>2. a \div 100 = m
    BY <2>1, DivIs
  <2> QED
    BY <2>2 DEF m
<1>8. Parts(a, era, c, q, r)
  BY <1>1, <1>4, <1>5 DEF Parts
<1> QED
  BY <1>1, <1>5, <1>6, <1>7, <1>8 DEF era, HasParts

\* Day z is day doe of an era.
InEra(z, era, doe) == doe <= 146096 /\ z = 146097 * era + doe

\* The era of a day, whatever its sign.
LEMMA EraIs ==
  ASSUME NEW era \in Int, NEW doe \in Nat, NEW z \in Int, InEra(z, era, doe)
  PROVE  Era(z) = era
<1>0. doe <= 146096 /\ z = 146097 * era + doe
  BY DEF InEra
<1>1. z \in Int /\ 146097 * era <= z /\ z < 146097 * era + 146097
  BY <1>0
<1>2. CASE z >= 0
  <2>1. Era(z) = z \div 146097
    BY <1>1, <1>2 DEF Era, Quotient
  <2>2. z \div 146097 = era
    BY <1>1, DivIs
  <2> QED
    BY <2>1, <2>2
<1>3. CASE z < 0
  <2> DEFINE w == 146096 - z
             back == -era
  <2>1. w \in Int /\ back \in Int /\ 146097 * back <= w /\ w < 146097 * back + 146097
    BY <1>1
  <2>2. Era(z) = -(w \div 146097)
    BY <1>1, <1>3 DEF Era, Quotient
  <2> HIDE DEF w, back
  <2>3. w \div 146097 = back
    BY <2>1, DivIs
  <2> QED
    BY <2>2, <2>3 DEF back
<1> QED
  BY <1>1, <1>2, <1>3

\* The parts of a date, by month and by month from March.
LEMMA MonthTypes ==
  ASSUME NEW x \in Dates
  PROVE  /\ x.y \in Nat /\ x.m \in 1..12 /\ x.d \in 1..31 /\ x = Date(x.y, x.m, x.d)
         /\ YearOf(x) \in Int /\ MonthOf(x) \in 0..11
         /\ x.d = 31 => MonthOf(x) \in {0, 2, 4, 5, 7, 9, 10}
         /\ MonthOf(x) = 11 => /\ x.m = 2 /\ YearOf(x) = x.y - 1
                               /\ x.d <= 29 /\ (x.d = 29 => Leap(x.y))
         /\ x.m = IF MonthOf(x) < 10 THEN MonthOf(x) + 3 ELSE MonthOf(x) - 9
         /\ x.y = YearOf(x) + IF x.m <= 2 THEN 1 ELSE 0
<1>1. x.y \in Nat /\ x.m \in 1..12 /\ x.d \in 1..31 /\ x = Date(x.y, x.m, x.d)
  BY DEF Dates, Date
<1>2. x.d <= LastDay(x.y, x.m)
  BY DEF Dates, ValidYmd
<1>3. x.m \in {1, 2, 3, 4, 5, 6, 7, 8, 9, 10, 11, 12}
  BY <1>1
<1>4. YearOf(x) \in Int /\ MonthOf(x) \in 0..11
  BY <1>1 DEF YearOf, MonthOf
<1>5. x.d = 31 => MonthOf(x) \in {0, 2, 4, 5, 7, 9, 10}
  BY <1>1, <1>2, <1>3 DEF LastDay, MonthOf
<1>6. MonthOf(x) = 11 => x.m = 2 /\ YearOf(x) = x.y - 1
  BY <1>1 DEF MonthOf, YearOf
<1>7. x.m = 2 => x.d <= 29 /\ (x.d = 29 => Leap(x.y))
  BY <1>1, <1>2 DEF LastDay
<1> QED
  BY <1>1, <1>3, <1>4, <1>5, <1>6, <1>7 DEF YearOf, MonthOf

\* A leap year ends the four years, and one that ends a century its era too.
LEMMA LeapPlace ==
  ASSUME NEW y \in Int, NEW a \in Int,
         NEW era \in Int, NEW c \in Nat, NEW q \in Nat, NEW r \in Nat,
         Parts(a, era, c, q, r), y = a + 1, Leap(y)
  PROVE  r = 3 /\ (q # 24 \/ c = 3)
<1>0. c <= 3 /\ q <= 24 /\ r <= 3 /\ y = 400 * era + 100 * c + 4 * q + r + 1
  BY DEF Parts
<1> DEFINE k4 == y \div 4
           k100 == y \div 100
           k400 == y \div 400
<1>1. k4 \in Int /\ k100 \in Int /\ k400 \in Int
  OBVIOUS
<1>2. \/ y = 4 * k4 /\ y # 100 * k100
      \/ y = 400 * k400
  BY DEF Leap
<1>3. k100 = 4 * era + c + IF q = 24 /\ r = 3 THEN 1 ELSE 0
  <2> DEFINE m == 4 * era + c + IF q = 24 /\ r = 3 THEN 1 ELSE 0
  <2>1. m \in Int /\ 100 * m <= y /\ y < 100 * m + 100
    BY <1>0
  <2> HIDE DEF m
  <2>2. y \div 100 = m
    BY <2>1, DivIs
  <2> QED
    BY <2>2 DEF m
<1> HIDE DEF k4, k100, k400
<1>4. r = 3
  BY <1>0, <1>1, <1>2
<1>5. CASE q = 24
  BY <1>0, <1>1, <1>2, <1>3, <1>4, <1>5
<1> QED
  BY <1>4, <1>5

\* civil_from_days gives every day of the calendar its date.
LEMMA CivilInverts ==
  ASSUME NEW x \in Dates
  PROVE  DayNumber(x) \in Int /\ CivilFromDays(DayNumber(x)) = x
<1>1. PICK a \in Int, mp \in 0..11, d \in 1..31 : a = YearOf(x) /\ mp = MonthOf(x) /\ d = x.d
  BY MonthTypes
<1>2. PICK doy \in Nat :
        doy = MonthDays(mp) + d - 1 /\ doy <= 365 /\ (doy = 365 => mp = 11 /\ d = 29)
  <2>1. mp \in {0, 1, 2, 3, 4, 5, 6, 7, 8, 9, 10, 11} /\ (mp = 11 => d <= 29)
    BY <1>1, MonthTypes
  <2>2. MonthDays(mp) + d - 1 \in Nat
    BY <2>1, MonthStarts
  <2>3. MonthDays(mp) + d - 1 <= 365 /\ (MonthDays(mp) + d - 1 = 365 => mp = 11 /\ d = 29)
    BY <2>1, MonthStarts
  <2> QED
    BY <2>2, <2>3
<1>3. PICK era \in Int, c \in Nat, q \in Nat, r \in Nat :
        /\ Parts(a, era, c, q, r)
        /\ a \div 4 = 100 * era + 25 * c + q /\ a \div 100 = 4 * era + c /\ a \div 400 = era
  <2>1. HasParts(a)
    BY YearParts
  <2> QED
    BY <2>1 DEF HasParts
<1>31. c <= 3 /\ q <= 24 /\ r <= 3 /\ a = 400 * era + 100 * c + 4 * q + r
  BY <1>3 DEF Parts
<1>4. doy = 365 => r = 3 /\ (q # 24 \/ c = 3)
  <2> SUFFICES ASSUME doy = 365 PROVE r = 3 /\ (q # 24 \/ c = 3)
    OBVIOUS
  <2>1. Leap(x.y) /\ a = x.y - 1 /\ x.y \in Nat
    BY <1>1, <1>2, MonthTypes
  <2>2. PICK y \in Int : y = x.y
    BY <2>1
  <2>3. y = a + 1 /\ Leap(y)
    BY <2>1, <2>2
  <2> QED
    BY <1>3, <2>3, LeapPlace
<1>5. PICK doe \in Int : doe = DayOfEra(c, q, r, doy)
  BY DEF DayOfEra
<1>6. PICK yoe \in Nat : yoe = 100 * c + 4 * q + r
  OBVIOUS
<1>7. doe \in Nat /\ doe <= 146096 /\ YearIn(doe) = yoe
  BY <1>2, <1>31, <1>4, <1>5, <1>6, YearRead
<1>8. PICK z \in Int : z = 146097 * era + doe
  OBVIOUS
<1>9. DayNumber(x) = z - 719468
  <2>1. YearDays(a) = 365 * a + (100 * era + 25 * c + q) - (4 * era + c) + era
    BY <1>3 DEF YearDays
  <2>2. DayNumber(x) = YearDays(a) + MonthDays(mp) + d - 1 - 719468
    BY <1>1 DEF DayNumber
  <2>3. MonthDays(mp) \in Int
    BY DEF MonthDays
  <2>4. DayNumber(x) = 365 * a + (100 * era + 25 * c + q) - (4 * era + c) + era + doy - 719468
    BY <1>2, <2>1, <2>2, <2>3
  <2>5. doe = 36524 * c + 1461 * q + 365 * r + doy
    BY <1>5 DEF DayOfEra
  <2> QED
    BY <1>31, <1>8, <2>4, <2>5
<1>10. DayNumber(x) + 719468 = z /\ Era(z) = era /\ z - era * 146097 = doe
  <2>1. InEra(z, era, doe)
    BY <1>7, <1>8 DEF InEra
  <2>2. Era(z) = era
    BY <1>7, <2>1, EraIs
  <2> QED
    BY <1>8, <1>9, <2>2
<1>11. Quotient(yoe, 4) = 25 * c + q /\ Quotient(yoe, 100) = c
  <2>1. Quotient(yoe, 4) = yoe \div 4 /\ Quotient(yoe, 100) = yoe \div 100
    BY DEF Quotient
  <2>2. PICK m \in Int : m = 25 * c + q
    OBVIOUS
  <2>3. 4 * m <= yoe /\ yoe < 4 * m + 4 /\ 100 * c <= yoe /\ yoe < 100 * c + 100
    BY <1>31, <1>6, <2>2
  <2>4. yoe \div 4 = m /\ yoe \div 100 = c
    BY <2>3, DivIs
  <2> QED
    BY <2>1, <2>2, <2>4
<1>12. doe - (365 * yoe + Quotient(yoe, 4) - Quotient(yoe, 100)) = doy
  <2>1. doe = 36524 * c + 1461 * q + 365 * r + doy
    BY <1>5 DEF DayOfEra
  <2> QED
    BY <1>6, <1>11, <2>1
<1>13. Quotient(5 * doy + 2, 153) = mp /\ Quotient(153 * mp + 2, 5) = MonthDays(mp)
  <2>1. (5 * doy + 2) \div 153 = mp
    BY <1>1, <1>2, MonthTypes, MonthRead
  <2> QED
    BY <2>1 DEF Quotient, MonthDays
<1>14. Quotient(doe - Quotient(doe, 1460) + Quotient(doe, 36524) - Quotient(doe, 146096), 365)
         = yoe
  <2>1. /\ Quotient(doe, 1460) = doe \div 1460 /\ Quotient(doe, 36524) = doe \div 36524
        /\ Quotient(doe, 146096) = doe \div 146096
    BY <1>7 DEF Quotient
  <2>2. PICK s \in Int : s = doe - doe \div 1460 + doe \div 36524 - doe \div 146096
    OBVIOUS
  <2>3. s >= 0 /\ s \div 365 = yoe
    BY <1>7, <2>2 DEF YearIn
  <2>4. Quotient(s, 365) = s \div 365
    BY <2>3 DEF Quotient
  <2>5. doe - Quotient(doe, 1460) + Quotient(doe, 36524) - Quotient(doe, 146096) = s
    BY <2>1, <2>2
  <2> QED
    BY <2>3, <2>4, <2>5
<1>15. CivilFromDays(DayNumber(x)) =
         [y |-> yoe + era * 400 + (IF (IF mp < 10 THEN mp + 3 ELSE mp - 9) <= 2 THEN 1 ELSE 0),
          m |-> IF mp < 10 THEN mp + 3 ELSE mp - 9,
          d |-> doy - MonthDays(mp) + 1]
  BY <1>10, <1>12, <1>13, <1>14 DEF CivilFromDays
<1>16. /\ x.m = IF mp < 10 THEN mp + 3 ELSE mp - 9
       /\ x.y = a + IF x.m <= 2 THEN 1 ELSE 0
       /\ x = [y |-> x.y, m |-> x.m, d |-> x.d]
  BY <1>1, MonthTypes DEF Date
<1>17. yoe + era * 400 = a
  BY <1>31, <1>6
<1>18. doy - MonthDays(mp) + 1 = x.d
  <2>1. MonthDays(mp) \in Int
    BY DEF MonthDays
  <2> QED
    BY <1>1, <1>2, <2>1
<1> QED
  BY <1>9, <1>15, <1>16, <1>17, <1>18

\* A quotient grows where its divisor divides.
LEMMA StepQuotient ==
  ASSUME NEW y \in Int, NEW b \in Nat \ {0}
  PROVE  y \div b = (y - 1) \div b + IF y % b = 0 THEN 1 ELSE 0
<1>1. PICK k \in Int, r \in Int : k = y \div b /\ r = y % b /\ y = b * k + r /\ 0 <= r /\ r < b
  OBVIOUS
<1>2. CASE r = 0
  <2>1. PICK j \in Int, n \in Int : j = k - 1 /\ n = y - 1
    OBVIOUS
  <2>2. b * j <= n /\ n < b * j + b
    BY <1>1, <1>2, <2>1
  <2>3. n \div b = j
    BY <2>1, <2>2, DivIs
  <2> QED
    BY <1>1, <1>2, <2>1, <2>3
<1>3. CASE r # 0
  <2>1. PICK n \in Int : n = y - 1
    OBVIOUS
  <2>2. b * k <= n /\ n < b * k + b
    BY <1>1, <1>3, <2>1
  <2>3. n \div b = k
    BY <2>1, <2>2, DivIs
  <2> QED
    BY <1>1, <1>3, <2>1, <2>3
<1> QED
  BY <1>2, <1>3

\* A year that ends in February has its leap day if the year of that February is leap.
LEMMA YearLength ==
  ASSUME NEW y \in Int
  PROVE  YearDays(y) = YearDays(y - 1) + IF Leap(y) THEN 366 ELSE 365
<1>1. /\ y \div 4 = (y - 1) \div 4 + IF y % 4 = 0 THEN 1 ELSE 0
      /\ y \div 100 = (y - 1) \div 100 + IF y % 100 = 0 THEN 1 ELSE 0
      /\ y \div 400 = (y - 1) \div 400 + IF y % 400 = 0 THEN 1 ELSE 0
  BY StepQuotient
<1>2. (y % 400 = 0 => y % 100 = 0) /\ (y % 100 = 0 => y % 4 = 0)
  OBVIOUS
<1>3. PICK q4 \in Int, q100 \in Int, q400 \in Int :
        q4 = (y - 1) \div 4 /\ q100 = (y - 1) \div 100 /\ q400 = (y - 1) \div 400
  OBVIOUS
<1>4. YearDays(y - 1) = 365 * (y - 1) + q4 - q100 + q400
  BY <1>3 DEF YearDays
<1>5. YearDays(y) = 365 * y + (q4 + IF y % 4 = 0 THEN 1 ELSE 0)
                    - (q100 + IF y % 100 = 0 THEN 1 ELSE 0)
                    + (q400 + IF y % 400 = 0 THEN 1 ELSE 0)
  BY <1>1, <1>3 DEF YearDays
<1> QED
  BY <1>2, <1>4, <1>5 DEF Leap

\* A month has 28 to 31 days ...
LEMMA LastDayIs ==
  ASSUME NEW p \in Nat, NEW n \in Nat
  PROVE  LastDay(p, n) \in Nat /\ LastDay(p, n) >= 28 /\ LastDay(p, n) <= 31
  BY DEF LastDay

\* ... all of which valid_ymd accepts ...
LEMMA ValidIs ==
  ASSUME NEW p \in Nat, NEW n \in Nat, NEW e \in Nat
  PROVE  ValidYmd(p, n, e) <=> n >= 1 /\ n <= 12 /\ e >= 1 /\ e <= LastDay(p, n)
<1>1. PICK l \in Nat : l = LastDay(p, n)
  BY LastDayIs
<1>2. ValidYmd(p, n, e) <=> n \in 1..12 /\ e \in 1..l
  BY <1>1 DEF ValidYmd
<1>3. n \in 1..12 <=> n >= 1 /\ n <= 12
  OBVIOUS
<1>4. e \in 1..l <=> e >= 1 /\ e <= l
  OBVIOUS
<1> QED
  BY <1>1, <1>2, <1>3, <1>4

\* ... and they are the dates.
LEMMA DateIs ==
  ASSUME NEW p \in Nat, NEW n \in Nat, NEW e \in Nat, ValidYmd(p, n, e)
  PROVE  Date(p, n, e) \in Dates
<1>1. n >= 1 /\ n <= 12 /\ e >= 1 /\ e <= 31
  BY LastDayIs, ValidIs
<1>2. n \in 1..12 /\ e \in 1..31
  BY <1>1
<1> QED
  BY <1>2 DEF Dates, Date

\* The number of a date.
LEMMA NumberIs ==
  ASSUME NEW p \in Nat, NEW n \in Nat, NEW e \in Nat
  PROVE  DayNumber(Date(p, n, e)) =
           YearDays(IF n <= 2 THEN p - 1 ELSE p)
           + MonthDays(IF n <= 2 THEN n + 9 ELSE n - 3) + e - 1 - 719468
  BY DEF DayNumber, YearOf, MonthOf, Date

\* The date that follows y-m-d, by where it stands.
LEMMA NextIs ==
  ASSUME NEW y \in Nat, NEW m \in Nat, NEW d \in Nat,
         NEW up \in Nat, NEW next \in Nat, NEW one \in Nat, NEW after \in Nat,
         up = y + 1, next = m + 1, one = 1, after = d + 1
  PROVE  NextDate(Date(y, m, d)) =
           IF ValidYmd(y, m, after) THEN Date(y, m, after)
           ELSE IF ValidYmd(y, next, one) THEN Date(y, next, one) ELSE Date(up, one, one)
  BY DEF NextDate, Date

\* The next date has the next number.
LEMMA NextNumber ==
  ASSUME NEW y \in Nat, NEW m \in Nat, NEW d \in Nat,
         NEW up \in Nat, NEW next \in Nat, NEW one \in Nat, NEW after \in Nat,
         up = y + 1, next = m + 1, one = 1, after = d + 1, ValidYmd(y, m, d),
         NEW x, x = Date(y, m, d)
  PROVE  NextDate(x) \in Dates /\ DayNumber(NextDate(x)) = DayNumber(x) + 1
<1>1. m >= 1 /\ m <= 12 /\ d >= 1 /\ d <= LastDay(y, m)
  BY ValidIs
<1>2. \A p \in Int : YearDays(p) \in Int /\ MonthDays(p) \in Int
  BY DEF YearDays, MonthDays
<1>3. CASE ValidYmd(y, m, after)
  <2>1. NextDate(x) = Date(y, m, after)
    BY <1>3, NextIs
  <2>2. Date(y, m, after) \in Dates
    BY <1>3, DateIs
  <2>3. PICK a \in Int, p \in Nat :
          a = (IF m <= 2 THEN y - 1 ELSE y) /\ p = (IF m <= 2 THEN m + 9 ELSE m - 3)
    BY <1>1
  <2>4. DayNumber(Date(y, m, d)) = YearDays(a) + MonthDays(p) + d - 1 - 719468
    BY <2>3, NumberIs
  <2>5. DayNumber(Date(y, m, after)) = YearDays(a) + MonthDays(p) + after - 1 - 719468
    BY <2>3, NumberIs
  <2> QED
    BY <1>2, <2>1, <2>2, <2>3, <2>4, <2>5
<1>4. CASE ~ValidYmd(y, m, after) /\ m < 12
  <2>1. d = LastDay(y, m) /\ ValidYmd(y, next, one)
    <3>1. ~(after <= LastDay(y, m))
      BY <1>1, <1>4, ValidIs
    <3>2. LastDay(y, m) \in Nat
      BY LastDayIs
    <3>3. ValidYmd(y, next, one) <=> next >= 1 /\ next <= 12 /\ one >= 1 /\ one <= LastDay(y, next)
      BY ValidIs
    <3>4. PICK l \in Nat : l = LastDay(y, next) /\ l >= 28
      BY LastDayIs
    <3>5. d = LastDay(y, m)
      BY <1>1, <3>1, <3>2
    <3> QED
      BY <1>1, <1>4, <3>2, <3>3, <3>4, <3>5
  <2>2. NextDate(x) = Date(y, next, one) /\ Date(y, next, one) \in Dates
    BY <1>4, <2>1, NextIs, DateIs
  <2>3. CASE m = 2
    <3>1. YearDays(y) = YearDays(y - 1) + IF Leap(y) THEN 366 ELSE 365
      BY YearLength
    <3>2. d = IF Leap(y) THEN 29 ELSE 28
      BY <2>1, <2>3 DEF LastDay
    <3>3. DayNumber(Date(y, m, d)) = YearDays(y - 1) + MonthDays(11) + d - 1 - 719468
      BY <2>3, NumberIs
    <3>4. DayNumber(Date(y, next, one)) = YearDays(y) + MonthDays(0) + 1 - 1 - 719468
      BY <2>3, NumberIs
    <3> QED
      BY <1>2, <2>2, <3>1, <3>2, <3>3, <3>4, MonthStarts
  <2>4. CASE m # 2
    <3>1. m \in {1, 3, 4, 5, 6, 7, 8, 9, 10, 11}
      BY <1>1, <1>4, <2>4
    <3>2. d = IF m \in {4, 6, 9, 11} THEN 30 ELSE 31
      BY <2>1, <2>4 DEF LastDay
    <3>3. PICK a \in Int, p \in Nat :
            a = (IF m <= 2 THEN y - 1 ELSE y) /\ p = (IF m <= 2 THEN m + 9 ELSE m - 3)
      BY <3>1
    <3>4. DayNumber(Date(y, m, d)) = YearDays(a) + MonthDays(p) + d - 1 - 719468
      BY <3>3, NumberIs
    <3>5. DayNumber(Date(y, next, one)) = YearDays(a) + MonthDays(p + 1) + 1 - 1 - 719468
      <4>1. /\ a = (IF next <= 2 THEN y - 1 ELSE y)
            /\ p + 1 = (IF next <= 2 THEN next + 9 ELSE next - 3)
        BY <3>1, <3>3
      <4> QED
        BY <4>1, NumberIs
    <3>6. MonthDays(p + 1) = MonthDays(p) + d
      <4>1. m <= 2 => m = 1 /\ p = 10
        BY <3>1, <3>3
      <4>2. CASE m = 1
        BY <3>2, <4>1, <4>2, MonthStarts
      <4>3. CASE m # 1
        <5>1. p = m - 3
          BY <3>1, <3>3, <4>3
        <5> QED
          BY <3>1, <3>2, <4>3, <5>1, MonthStarts
      <4> QED
        BY <4>2, <4>3
    <3> QED
      BY <1>2, <2>2, <3>3, <3>4, <3>5, <3>6
  <2> QED
    BY <2>3, <2>4
<1>5. CASE ~ValidYmd(y, m, after) /\ m = 12
  <2>1. LastDay(y, m) = 31
    BY <1>5 DEF LastDay
  <2>2. d = 31 /\ ~ValidYmd(y, next, one) /\ ValidYmd(up, one, one)
    <3>1. ~(after <= 31)
      BY <1>1, <1>5, <2>1, ValidIs
    <3>2. PICK l \in Nat : l = LastDay(up, one) /\ l >= 28
      BY LastDayIs
    <3>3. ValidYmd(up, one, one) <=> one >= 1 /\ one <= 12 /\ one >= 1 /\ one <= LastDay(up, one)
      BY ValidIs
    <3>4. ValidYmd(y, next, one) => next <= 12
      BY ValidIs
    <3>5. ValidYmd(up, one, one)
      BY <3>2, <3>3
    <3>6. d = 31
      BY <1>1, <2>1, <3>1
    <3> QED
      BY <1>5, <3>4, <3>5, <3>6
  <2>3. NextDate(x) = Date(up, one, one) /\ Date(up, one, one) \in Dates
    BY <1>5, <2>2, NextIs, DateIs
  <2>4. DayNumber(Date(y, m, d)) = YearDays(y) + MonthDays(9) + d - 1 - 719468
    BY <1>5, NumberIs
  <2>5. DayNumber(Date(up, one, one)) = YearDays(y) + MonthDays(10) + 1 - 1 - 719468
    BY NumberIs
  <2> QED
    BY <1>2, <2>2, <2>3, <2>4, <2>5, MonthStarts
<1> QED
  BY <1>1, <1>3, <1>4, <1>5

\* The date of the next day has the next number.
LEMMA NextDay ==
  ASSUME NEW x \in Dates
  PROVE  NextDate(x) \in Dates /\ DayNumber(NextDate(x)) = DayNumber(x) + 1
<1>1. PICK y \in Nat, m \in Nat, d \in Nat : ValidYmd(y, m, d) /\ x = Date(y, m, d)
  BY DEF Dates, Date
<1>2. y + 1 \in Nat /\ m + 1 \in Nat /\ 1 \in Nat /\ d + 1 \in Nat
  OBVIOUS
<1> QED
  BY <1>1, <1>2, NextNumber

\* 400 years have 146097 days.
LEMMA EraDays ==
  ASSUME NEW a \in Int, NEW k \in Nat, NEW b \in Int, b = a + 400 * k
  PROVE  YearDays(b) = YearDays(a) + 146097 * k
<1>1. PICK q4 \in Int, q100 \in Int, q400 \in Int :
        q4 = a \div 4 /\ q100 = a \div 100 /\ q400 = a \div 400
  OBVIOUS
<1>2. /\ 4 * q4 <= a /\ a < 4 * q4 + 4 /\ 100 * q100 <= a /\ a < 100 * q100 + 100
      /\ 400 * q400 <= a /\ a < 400 * q400 + 400
  BY <1>1
<1>3. PICK n4 \in Int, n100 \in Int, n400 \in Int :
        n4 = q4 + 100 * k /\ n100 = q100 + 4 * k /\ n400 = q400 + k
  OBVIOUS
<1>4. /\ 4 * n4 <= b /\ b < 4 * n4 + 4 /\ 100 * n100 <= b /\ b < 100 * n100 + 100
      /\ 400 * n400 <= b /\ b < 400 * n400 + 400
  BY <1>2, <1>3
<1>5. b \div 4 = n4 /\ b \div 100 = n100 /\ b \div 400 = n400
  BY <1>4, DivIs
<1> QED
  BY <1>1, <1>3, <1>5 DEF YearDays

\* The same date in a later period is a date, and this many days later.
LEMMA LaterEra ==
  ASSUME NEW y \in Nat, NEW m \in Nat, NEW d \in Nat, ValidYmd(y, m, d),
         NEW k \in Nat, NEW w \in Nat, w = y + 400 * k
  PROVE  /\ Date(w, m, d) \in Dates
         /\ DayNumber(Date(w, m, d)) = DayNumber(Date(y, m, d)) + 146097 * k
<1>1. Leap(w) <=> Leap(y)
  BY DEF Leap
<1>2. ValidYmd(w, m, d)
  BY <1>1 DEF ValidYmd, LastDay
<1>3. CASE m <= 2
  <2>1. PICK a \in Int, b \in Int, p \in Int : a = y - 1 /\ b = w - 1 /\ p = m + 9
    OBVIOUS
  <2>2. DayNumber(Date(y, m, d)) = YearDays(a) + MonthDays(p) + d - 1 - 719468
    BY <1>3, <2>1, NumberIs
  <2>3. DayNumber(Date(w, m, d)) = YearDays(b) + MonthDays(p) + d - 1 - 719468
    BY <1>3, <2>1, NumberIs
  <2>4. b = a + 400 * k
    BY <2>1
  <2>5. YearDays(b) = YearDays(a) + 146097 * k
    BY <2>4, EraDays
  <2>6. YearDays(a) \in Int /\ MonthDays(p) \in Int
    BY DEF YearDays, MonthDays
  <2> QED
    BY <1>2, <2>2, <2>3, <2>5, <2>6, DateIs
<1>4. CASE ~(m <= 2)
  <2>1. PICK p \in Int : p = m - 3
    OBVIOUS
  <2>2. DayNumber(Date(y, m, d)) = YearDays(y) + MonthDays(p) + d - 1 - 719468
    BY <1>4, <2>1, NumberIs
  <2>3. DayNumber(Date(w, m, d)) = YearDays(w) + MonthDays(p) + d - 1 - 719468
    BY <1>4, <2>1, NumberIs
  <2>4. YearDays(w) = YearDays(y) + 146097 * k
    BY EraDays
  <2>5. YearDays(y) \in Int /\ MonthDays(p) \in Int
    BY DEF YearDays, MonthDays
  <2> QED
    BY <1>2, <2>2, <2>3, <2>4, <2>5, DateIs
<1> QED
  BY <1>3, <1>4

\* The first days, with their dates.
LEMMA FirstDays ==
  /\ ValidYmd(0, 1, 1) /\ DayNumber(Date(0, 1, 1)) = -719528
  /\ ValidYmd(1901, 12, 14) /\ DayNumber(Date(1901, 12, 14)) = -24855
<1>1. ValidYmd(0, 1, 1) /\ ValidYmd(1901, 12, 14)
  BY DEF ValidYmd, LastDay
<1>2. YearDays(-1) = -366
  <2>1. PICK a \in Int, b \in Int, k \in Nat : a = -1 /\ b = 399 /\ k = 1
    OBVIOUS
  <2>2. b = a + 400 * k
    BY <2>1
  <2>5. YearDays(b) = YearDays(a) + 146097 * k
    BY <2>2, EraDays
  <2>3. YearDays(b) = 145731
    BY <2>1 DEF YearDays
  <2>4. YearDays(a) \in Int
    BY DEF YearDays
  <2> QED
    BY <2>1, <2>5, <2>3, <2>4
<1>21. YearDays(1901) = 694325
  BY DEF YearDays
<1>3. DayNumber(Date(0, 1, 1)) = YearDays(0 - 1) + MonthDays(10) + 1 - 1 - 719468
  BY DEF DayNumber, YearOf, MonthOf, Date
<1>4. DayNumber(Date(1901, 12, 14)) = YearDays(1901) + MonthDays(9) + 14 - 1 - 719468
  BY DEF DayNumber, YearOf, MonthOf, Date
<1>5. 0 - 1 = -1
  OBVIOUS
<1> QED
  BY <1>1, <1>2, <1>21, <1>3, <1>4, <1>5, MonthStarts

-----------------------------------------------------------------------------
(* Days pass *)

\* The date is on the calendar, and the day is its number.
DayInv == date \in Dates /\ day = DayNumber(date)

\* The first day has the number of its date ...
LEMMA DayInit == Init => DayInv
<1> SUFFICES ASSUME NEW k \in Eras, day = Start.day + 146097 * k,
                    date = [Start.date EXCEPT !.y = @ + 400 * k]
             PROVE  DayInv
  BY DEF Init
<1>0. k \in Nat
  BY ExtractionAssumption
<1>1. PICK y \in Nat, m \in Nat, d \in Nat :
        Start.date = Date(y, m, d) /\ ValidYmd(y, m, d) /\ Start.day = DayNumber(Date(y, m, d))
  <2>1. CASE Start = YearZero
    <3>1. Start.date = Date(0, 1, 1) /\ Start.day = DayNumber(Date(0, 1, 1))
      BY <2>1, FirstDays DEF YearZero
    <3>2. 0 \in Nat /\ 1 \in Nat
      OBVIOUS
    <3> WITNESS 0 \in Nat, 1 \in Nat, 1 \in Nat
    <3> QED
      BY <3>1, FirstDays
  <2>2. CASE Start = Seconds32
    <3>1. Start.date = Date(1901, 12, 14) /\ Start.day = DayNumber(Date(1901, 12, 14))
      BY <2>2, FirstDays DEF Seconds32
    <3>2. 1901 \in Nat /\ 12 \in Nat /\ 14 \in Nat
      OBVIOUS
    <3> WITNESS 1901 \in Nat, 12 \in Nat, 14 \in Nat
    <3> QED
      BY <3>1, FirstDays
  <2> QED
    BY <2>1, <2>2, ExtractionAssumption
<1>2. PICK w \in Nat : w = y + 400 * k
  BY <1>0
<1>3. date = Date(w, m, d)
  BY <1>0, <1>1, <1>2 DEF Date
<1>4. /\ Date(w, m, d) \in Dates
      /\ DayNumber(Date(w, m, d)) = DayNumber(Date(y, m, d)) + 146097 * k
  BY <1>0, <1>1, <1>2, LaterEra
<1> QED
  BY <1>1, <1>3, <1>4 DEF DayInv

\* ... and so has every day that follows, ...
LEMMA DayStep == DayInv /\ [Next]_vars => DayInv'
<1> SUFFICES ASSUME DayInv, [Next]_vars PROVE DayInv'
  OBVIOUS
<1>1. CASE Midnight
  <2>1. date' = NextDate(date) /\ day' = day + 1
    BY <1>1 DEF Midnight
  <2>2. NextDate(date) \in Dates /\ DayNumber(NextDate(date)) = DayNumber(date) + 1
    BY NextDay DEF DayInv
  <2> QED
    BY <2>1, <2>2 DEF DayInv
<1>2. CASE \E c \in Alphabet : Write(c)
  BY <1>2, Zenon DEF DayInv, Write
<1>3. CASE UNCHANGED vars
  BY <1>3 DEF DayInv, vars
<1> QED
  BY <1>1, <1>2, <1>3 DEF Next

\* ... whatever else is written.
LEMMA RulesDayStep == DayInv /\ [RulesNext]_all => DayInv'
<1> SUFFICES ASSUME DayInv, [RulesNext]_all PROVE DayInv'
  OBVIOUS
<1>1. CASE Next
  BY <1>1, DayStep
<1>2. CASE UNCHANGED vars
  BY <1>2 DEF DayInv, vars
<1>3. [Next]_vars
  BY DEF RulesNext, all, WriteLiteral, WritePredicate, WriteSalt
<1> QED
  BY <1>1, <1>2, <1>3

\* The day is always the number of the date, counted from 1970-01-01.
THEOREM DaysCounted == RulesSpec => []DayInv
<1>1. RulesInit => DayInv
  BY DayInit DEF RulesInit
<1> QED
  BY <1>1, RulesDayStep, PTL DEF RulesSpec

\* civil_from_days counts exactly the days valid_ymd accepts, in their order.
THEOREM CalendarsAlwaysAgree == RulesSpec => []CalendarsAgree
<1>1. DayInv => CalendarsAgree
  BY CivilInverts DEF DayInv, CalendarsAgree
<1> QED
  BY <1>1, DaysCounted, PTL

\* Every second of a day is of that day.
LEMMA DayOfInstant ==
  ASSUME NEW n \in Int, NEW now \in {n * 86400, n * 86400 + 86399}
  PROVE  now \div 86400 = n
  BY DivIs

\* The birthdays that have come, counted.
LEMMA CountsBirthdays ==
  ASSUME NEW x \in Dates, NEW b \in [y : Nat, m : Nat, d : Nat], AtLeast(x, b.y, b.m, b.d)
  PROVE  Cardinality({y \in (b.y + 1)..x.y : AtLeast(x, y, b.m, b.d)}) =
           x.y - b.y - (IF BeforeBirthday(x.m, x.d, b) THEN 1 ELSE 0)
<1>1. x.y \in Nat /\ x.m \in Nat /\ x.d \in Nat /\ b.y \in Nat /\ b.m \in Nat /\ b.d \in Nat
  BY DEF Dates
<1>2. PICK e \in Int : e = IF BeforeBirthday(x.m, x.d, b) THEN x.y - 1 ELSE x.y
  BY <1>1
<1> DEFINE Y == {y \in (b.y + 1)..x.y : AtLeast(x, y, b.m, b.d)}
<1>3. Y = (b.y + 1)..e
  BY <1>1, <1>2 DEF AtLeast, BeforeBirthday
<1>4. b.y <= e
  BY <1>1, <1>2 DEF AtLeast, BeforeBirthday
<1>5. Cardinality((b.y + 1)..e) = e - b.y
  <2>1. PICK f \in Int : f = b.y + 1
    BY <1>1
  <2>2. Cardinality(f..e) = IF f > e THEN 0 ELSE e - f + 1
    BY FS_Interval
  <2> QED
    BY <1>1, <1>4, <2>1, <2>2
<1>6. IF BeforeBirthday(x.m, x.d, b) THEN e = x.y - 1 ELSE e = x.y
  BY <1>2
<1> HIDE DEF Y
<1>7. BeforeBirthday(x.m, x.d, b) => Cardinality(Y) = x.y - b.y - 1
  BY <1>1, <1>3, <1>5, <1>6
<1>8. ~BeforeBirthday(x.m, x.d, b) => Cardinality(Y) = x.y - b.y - 0
  BY <1>1, <1>3, <1>5, <1>6
<1>9. Cardinality(Y) = x.y - b.y - (IF BeforeBirthday(x.m, x.d, b) THEN 1 ELSE 0)
  BY <1>7, <1>8
<1> QED
  BY <1>9 DEF Y

\* From birth on, the age is the number of birthdays that have come.
THEOREM AgesCounted == RulesSpec => []AgeCountsBirthdays
<1>1. DayInv => AgeCountsBirthdays
  <2> SUFFICES ASSUME DayInv, NEW b \in Births, NEW now \in Instants, AtLeast(date, b.y, b.m, b.d)
               PROVE  AgeYears(b, now) =
                        Cardinality({y \in (b.y + 1)..date.y : AtLeast(date, y, b.m, b.d)})
    BY DEF AgeCountsBirthdays
  <2>1. day \in Int /\ CivilFromDays(day) = date /\ date \in Dates
    BY CivilInverts DEF DayInv
  <2>2. now \div 86400 = day
    <3>1. now \in {day * 86400, day * 86400 + 86399}
      BY DEF Instants
    <3> QED
      BY <2>1, <3>1, DayOfInstant
  <2>3. AgeYears(b, now) = date.y - b.y - (IF BeforeBirthday(date.m, date.d, b) THEN 1 ELSE 0)
    BY <2>1, <2>2 DEF AgeYears
  <2>4. b \in [y : Nat, m : Nat, d : Nat]
    BY ExtractionAssumption
  <2> QED
    BY <2>1, <2>3, <2>4, CountsBirthdays
<1> QED
  BY <1>1, DaysCounted, PTL

-----------------------------------------------------------------------------
(* Numbers *)

\* The characters of a number are of three kinds.
LEMMA KindsOfCharacter ==
  /\ Digits \cap Separators = {} /\ Digits \cap Signs = {} /\ Separators \cap Signs = {}
<1>1. \A n \in 1..10 : DigitNames[n] \notin {".", ",", "+", "-"}
  <2> TAKE n \in 1..10
  <2>1. n = 1 \/ n = 2 \/ n = 3 \/ n = 4 \/ n = 5 \/ n = 6 \/ n = 7 \/ n = 8 \/ n = 9 \/ n = 10
    OBVIOUS
  <2>2. /\ DigitNames[1] = "0" /\ DigitNames[2] = "1" /\ DigitNames[3] = "2"
        /\ DigitNames[4] = "3" /\ DigitNames[5] = "4" /\ DigitNames[6] = "5"
        /\ DigitNames[7] = "6" /\ DigitNames[8] = "7" /\ DigitNames[9] = "8"
        /\ DigitNames[10] = "9"
    BY SMT DEF DigitNames
  <2> QED
    BY <2>1, <2>2
<1>2. Digits \cap {".", ",", "+", "-"} = {}
  <2>1. DOMAIN DigitNames = 1..10
    BY DEF DigitNames
  <2> QED
    BY <1>1, <2>1 DEF Digits, Range
<1> QED
  BY <1>2 DEF Separators, Signs

\* What a convention groups by is not what begins its fractions.
LEMMA Marks ==
  ASSUME NEW fmt \in NumberFormats
  PROVE  /\ Grouping(fmt) \subseteq Separators /\ Decimal(fmt) \subseteq Separators
         /\ Grouping(fmt) \cap Decimal(fmt) = {}
  BY DEF Grouping, Decimal, Separators

\* A position that has a digit or a mark is one of the text.
LEMMA Positions ==
  ASSUME NEW S, NEW s \in Seq(S), NEW k \in Int
  PROVE  /\ Len(s) \in Nat
         /\ IsDigit(s, k) => k \in 1..Len(s) /\ ~Has(s, k, Separators) /\ ~Has(s, k, Signs)
         /\ \A cs : Has(s, k, cs) => k \in 1..Len(s)
         /\ Has(s, k, Signs) => ~Has(s, k, Separators)
<1>1. Len(s) \in Nat /\ DOMAIN s = 1..Len(s)
  OBVIOUS
<1> QED
  BY <1>1, KindsOfCharacter DEF Has, IsDigit

LEMMA LeastIs ==
  ASSUME NEW T \in SUBSET Nat, T # {}
  PROVE  Least(T) \in T /\ \A y \in T : Least(T) <= y
  BY LeastNatural DEF Least

\* A run of digits ends ...
LEMMA RunEnds ==
  ASSUME NEW S, NEW s \in Seq(S), NEW p \in 1..(Len(s) + 1)
  PROVE  /\ RunEnd(s, p) \in p..(Len(s) + 1)
         /\ ~IsDigit(s, RunEnd(s, p)) /\ \A k \in p..(RunEnd(s, p) - 1) : IsDigit(s, k)
<1> DEFINE T == {q \in p..(Len(s) + 1) : ~IsDigit(s, q)}
<1>1. Len(s) \in Nat /\ Len(s) + 1 \in T
  BY Positions
<1>2. T \in SUBSET Nat /\ T # {}
  BY <1>1
<1>3. PICK q \in T : \A y \in T : q <= y
  BY <1>2, LeastNatural
<1>4. q \in p..(Len(s) + 1) /\ ~IsDigit(s, q) /\ \A k \in p..(q - 1) : IsDigit(s, k)
  BY <1>1, <1>3
<1> QED
  BY <1>4 DEF RunEnd

\* ... where the first other character stands.
LEMMA RunEndIs ==
  ASSUME NEW S, NEW s \in Seq(S), NEW p \in 1..(Len(s) + 1), NEW q \in p..(Len(s) + 1),
         ~IsDigit(s, q), \A k \in p..(q - 1) : IsDigit(s, k)
  PROVE  RunEnd(s, p) = q
<1>1. Len(s) \in Nat
  OBVIOUS
<1> DEFINE r == RunEnd(s, p)
<1>2. r \in p..(Len(s) + 1) /\ ~IsDigit(s, r) /\ \A k \in p..(r - 1) : IsDigit(s, k)
  BY RunEnds
<1> HIDE DEF r
<1>3. ~(r < q) /\ ~(q < r)
  BY <1>1, <1>2
<1> QED
  BY <1>1, <1>2, <1>3 DEF r

\* n groups of three digits start at i, and no more.
HasGroups(s, i, fmt, n) ==
  /\ ~GroupAt(s, i + 4 * n, fmt)
  /\ \A k \in 0..(n - 1) : GroupAt(s, i + 4 * k, fmt)

\* The groups end ...
LEMMA GroupsEndAt ==
  ASSUME NEW S, NEW s \in Seq(S), NEW i \in 1..(Len(s) + 1), NEW fmt
  PROVE  \E n \in 0..Len(s) : HasGroups(s, i, fmt, n) /\ GroupsEnd(s, i, fmt) = i + 4 * n
<1> DEFINE T == {n \in Nat : ~GroupAt(s, i + 4 * n, fmt)}
<1>1. Len(s) \in Nat
  OBVIOUS
<1>2. Len(s) \in T
  <2>1. ~Has(s, i + 4 * Len(s), Grouping(fmt))
    BY <1>1, Positions
  <2> QED
    BY <1>1, <2>1 DEF GroupAt
<1>3. PICK n \in T : \A y \in T : n <= y
  <2> HIDE DEF T
  <2>1. T \in SUBSET Nat /\ T # {}
    BY <1>2 DEF T
  <2> QED
    BY <2>1, LeastNatural
<1>4. n \in 0..Len(s)
  <2> HIDE DEF T
  <2>1. n <= Len(s) /\ n \in Nat
    BY <1>2, <1>3 DEF T
  <2> QED
    BY <1>1, <2>1
<1>5. HasGroups(s, i, fmt, n)
  <2> SUFFICES ASSUME NEW k \in 0..(n - 1) PROVE GroupAt(s, i + 4 * k, fmt)
    BY <1>3 DEF HasGroups
  <2>1. k \in Nat /\ ~(n <= k)
    BY <1>4
  <2> QED
    BY <1>3, <2>1
<1>6. \E m \in 0..Len(s) : HasGroups(s, i, fmt, m)
  BY <1>4, <1>5
<1> DEFINE c == CHOOSE m \in 0..Len(s) : HasGroups(s, i, fmt, m)
<1>7. c \in 0..Len(s) /\ HasGroups(s, i, fmt, c)
  BY <1>6
<1>8. GroupsEnd(s, i, fmt) = i + 4 * c
  BY DEF GroupsEnd, HasGroups
<1> QED
  BY <1>7, <1>8

\* ... after as many as there are.
LEMMA GroupsEndIs ==
  ASSUME NEW S, NEW s \in Seq(S), NEW i \in 1..(Len(s) + 1), NEW fmt,
         NEW n \in Nat, HasGroups(s, i, fmt, n)
  PROVE  GroupsEnd(s, i, fmt) = i + 4 * n
<1>1. PICK m \in 0..Len(s) : HasGroups(s, i, fmt, m) /\ GroupsEnd(s, i, fmt) = i + 4 * m
  BY GroupsEndAt
<1>2. m \in Nat
  OBVIOUS
<1>3. ~(m < n)
  <2> SUFFICES ASSUME m < n PROVE FALSE
    OBVIOUS
  <2>1. m \in 0..(n - 1)
    BY <1>2
  <2> QED
    BY <1>1, <2>1 DEF HasGroups
<1>4. ~(n < m)
  <2> SUFFICES ASSUME n < m PROVE FALSE
    OBVIOUS
  <2>1. n \in 0..(m - 1)
    BY <1>2
  <2> QED
    BY <1>1, <2>1 DEF HasGroups
<1> QED
  BY <1>1, <1>2, <1>3, <1>4

\* A digit, or a separator between two: what a reader takes for part of a number.
PartOf(s, k) ==
  IsDigit(s, k) \/ (Has(s, k, Separators) /\ IsDigit(s, k - 1) /\ IsDigit(s, k + 1))

\* A number that ends at e has parts from i on, a digit last, and no digit after it.
NumberTo(s, i, e) ==
  /\ e \in (i + 1)..(Len(s) + 1)
  /\ IsDigit(s, e - 1) /\ ~IsDigit(s, e)
  /\ \A k \in i..(e - 1) : PartOf(s, k)

\* A run of digits is such a number, ...
LEMMA RunIsNumber ==
  ASSUME NEW S, NEW s \in Seq(S), NEW i \in Nat, IsDigit(s, i)
  PROVE  NumberTo(s, i, RunEnd(s, i))
<1>1. Len(s) \in Nat /\ i \in 1..Len(s)
  BY Positions
<1> DEFINE r == RunEnd(s, i)
<1>2. r \in i..(Len(s) + 1) /\ ~IsDigit(s, r) /\ \A k \in i..(r - 1) : IsDigit(s, k)
  <2>1. i \in 1..(Len(s) + 1)
    BY <1>1
  <2> QED
    BY <2>1, RunEnds
<1> HIDE DEF r
<1>3. r # i
  BY <1>2
<1>4. r \in (i + 1)..(Len(s) + 1) /\ r - 1 \in i..(r - 1)
  BY <1>1, <1>2, <1>3
<1>5. NumberTo(s, i, r)
  BY <1>2, <1>4 DEF NumberTo, PartOf
<1> QED
  BY <1>5 DEF r

\* ... with the groups that follow too, ...
LEMMA GroupsAreNumber ==
  ASSUME NEW S, NEW s \in Seq(S), NEW i \in Nat, NEW r \in Nat, NumberTo(s, i, r),
         NEW fmt \in NumberFormats, NEW n \in Nat, HasGroups(s, r, fmt, n)
  PROVE  NumberTo(s, i, r + 4 * n)
<1>1. Len(s) \in Nat /\ r \in (i + 1)..(Len(s) + 1)
  BY Positions DEF NumberTo
<1>2. CASE n = 0
  <2>1. r + 4 * n = r
    BY <1>1, <1>2
  <2> QED
    BY <2>1
<1>3. CASE n # 0
  <2>1. n - 1 \in 0..(n - 1)
    BY <1>3
  <2>2. GroupAt(s, r + 4 * (n - 1), fmt)
    BY <2>1 DEF HasGroups
  <2> DEFINE g == r + 4 * n
  <2>3. g - 1 \in ((r + 4 * (n - 1)) + 1)..((r + 4 * (n - 1)) + 3) /\ g = (r + 4 * (n - 1)) + 4
    BY <1>1, <2>1
  <2>4. IsDigit(s, g - 1) /\ ~IsDigit(s, g)
    BY <2>2, <2>3 DEF GroupAt
  <2>5. g \in (i + 1)..(Len(s) + 1)
    <3>1. g - 1 \in 1..Len(s)
      BY <1>1, <2>4, Positions
    <3> QED
      BY <1>1, <3>1
  <2>6. ASSUME NEW k \in r..(g - 1)
        PROVE  PartOf(s, k)
    <3> DEFINE a == (k - r) \div 4
               b == (k - r) % 4
    <3>1. k - r \in Nat /\ k - r < 4 * n
      BY <1>1
    <3>2. a \in Nat /\ b \in 0..3 /\ k = (r + 4 * a) + b /\ a < n
      BY <1>1, <3>1
    <3> HIDE DEF a, b
    <3>3. a \in 0..(n - 1)
      BY <3>2
    <3>4. GroupAt(s, r + 4 * a, fmt)
      BY <3>3 DEF HasGroups
    <3>5. \A j \in ((r + 4 * a) + 1)..((r + 4 * a) + 3) : IsDigit(s, j)
      BY <3>4 DEF GroupAt
    <3>6. CASE b # 0
      <4>1. k \in ((r + 4 * a) + 1)..((r + 4 * a) + 3)
        BY <1>1, <3>2, <3>6
      <4> QED
        BY <3>5, <4>1 DEF PartOf
    <3>7. CASE b = 0
      <4>1. k = r + 4 * a /\ k + 1 \in ((r + 4 * a) + 1)..((r + 4 * a) + 3)
        BY <1>1, <3>2, <3>7
      <4>2. IsDigit(s, k + 1) /\ Has(s, k, Separators)
        BY <3>4, <3>5, <4>1, Marks DEF GroupAt, Has
      <4>3. IsDigit(s, k - 1)
        <5>1. CASE a = 0
          <6>1. k - 1 = r - 1
            BY <1>1, <4>1, <5>1
          <6> QED
            BY <6>1 DEF NumberTo
        <5>2. CASE a # 0
          <6>1. a - 1 \in 0..(n - 1)
            BY <3>2, <5>2
          <6>2. GroupAt(s, r + 4 * (a - 1), fmt)
            BY <6>1 DEF HasGroups
          <6>3. k - 1 \in ((r + 4 * (a - 1)) + 1)..((r + 4 * (a - 1)) + 3)
            BY <1>1, <3>2, <4>1, <6>1
          <6> QED
            BY <6>2, <6>3 DEF GroupAt
        <5> QED
          BY <5>1, <5>2
      <4> QED
        BY <4>2, <4>3 DEF PartOf
    <3> QED
      BY <3>6, <3>7
  <2>7. \A k \in i..(g - 1) : PartOf(s, k)
    <3> TAKE k \in i..(g - 1)
    <3> HIDE DEF g
    <3>1. k \in i..(r - 1) \/ k \in r..(g - 1)
      BY <1>1
    <3> QED
      BY <2>6, <3>1 DEF NumberTo
  <2> HIDE DEF g
  <2>8. NumberTo(s, i, g)
    BY <2>4, <2>5, <2>7 DEF NumberTo
  <2> QED
    BY <2>8 DEF g
<1> QED
  BY <1>2, <1>3

\* ... and with the fraction after them.
LEMMA FractionIsNumber ==
  ASSUME NEW S, NEW s \in Seq(S), NEW i \in Nat, NEW g \in Nat, NumberTo(s, i, g),
         NEW fmt \in NumberFormats
  PROVE  FractionEnd(s, g, fmt) \in Nat /\ NumberTo(s, i, FractionEnd(s, g, fmt))
<1>1. Len(s) \in Nat /\ g \in (i + 1)..(Len(s) + 1)
  BY Positions DEF NumberTo
<1>2. CASE ~(Has(s, g, Decimal(fmt)) /\ IsDigit(s, g + 1))
  <2>1. FractionEnd(s, g, fmt) = g
    BY <1>2 DEF FractionEnd
  <2> QED
    BY <2>1
<1>3. CASE Has(s, g, Decimal(fmt)) /\ IsDigit(s, g + 1)
  <2> DEFINE f == RunEnd(s, g + 1)
  <2>1. FractionEnd(s, g, fmt) = f
    BY <1>3 DEF FractionEnd
  <2>2. NumberTo(s, g + 1, f)
    <3>1. g + 1 \in Nat
      BY <1>1
    <3> QED
      BY <1>3, <3>1, RunIsNumber
  <2> HIDE DEF f
  <2>3. f \in (g + 2)..(Len(s) + 1) /\ f \in Nat
    BY <1>1, <2>2 DEF NumberTo
  <2>4. PartOf(s, g)
    BY <1>3, Marks DEF PartOf, Has, NumberTo
  <2>5. \A k \in i..(f - 1) : PartOf(s, k)
    <3> TAKE k \in i..(f - 1)
    <3>1. k \in i..(g - 1) \/ k = g \/ k \in (g + 1)..(f - 1)
      BY <1>1, <2>3
    <3> QED
      BY <2>2, <2>4, <3>1 DEF NumberTo
  <2>6. f \in (i + 1)..(Len(s) + 1)
    BY <1>1, <2>3
  <2>7. NumberTo(s, i, f)
    BY <2>2, <2>5, <2>6 DEF NumberTo
  <2> QED
    BY <2>1, <2>3, <2>7
<1> QED
  BY <1>2, <1>3

\* What number_at takes for a number is one.
TokenEnd(s, i, fmt) == FractionEnd(s, GroupsEnd(s, RunEnd(s, i), fmt), fmt)

LEMMA TokenIsNumber ==
  ASSUME NEW S, NEW s \in Seq(S), NEW i \in Nat, IsDigit(s, i), NEW fmt \in NumberFormats
  PROVE  NumberTo(s, i, TokenEnd(s, i, fmt))
<1> DEFINE r == RunEnd(s, i)
<1>1. NumberTo(s, i, r)
  BY RunIsNumber
<1> HIDE DEF r
<1>2. Len(s) \in Nat /\ r \in 1..(Len(s) + 1) /\ r \in Nat
  BY <1>1, Positions DEF NumberTo
<1>3. PICK n \in 0..Len(s) : HasGroups(s, r, fmt, n) /\ GroupsEnd(s, r, fmt) = r + 4 * n
  BY <1>2, GroupsEndAt
<1>4. n \in Nat /\ r + 4 * n \in Nat
  BY <1>2
<1>5. NumberTo(s, i, r + 4 * n)
  BY <1>1, <1>2, <1>3, <1>4, GroupsAreNumber
<1>6. NumberTo(s, i, FractionEnd(s, r + 4 * n, fmt))
  BY <1>4, <1>5, FractionIsNumber
<1> QED
  BY <1>3, <1>6 DEF TokenEnd, r

\* Where the parts of the number that begins at i end.
PrintedEnd(s, i) ==
  CHOOSE q \in i..(Len(s) + 1) : ~PartOf(s, q) /\ \A k \in i..(q - 1) : PartOf(s, k)

LEMMA PrintedIs == ASSUME NEW s
                   PROVE  Printed(s) = LET p == Least(Starts(s))
                                       IN SubSeq(s, p, PrintedEnd(s, IntStart(s, p)) - 1)
  BY DEF Printed, PrintedEnd, PartOf

\* The parts of a number end ...
LEMMA PartsEnd ==
  ASSUME NEW S, NEW s \in Seq(S), NEW i \in 1..(Len(s) + 1)
  PROVE  /\ PrintedEnd(s, i) \in i..(Len(s) + 1)
         /\ ~PartOf(s, PrintedEnd(s, i)) /\ \A k \in i..(PrintedEnd(s, i) - 1) : PartOf(s, k)
<1> DEFINE T == {q \in i..(Len(s) + 1) : ~PartOf(s, q)}
<1>1. Len(s) \in Nat /\ Len(s) + 1 \in T
  BY Positions DEF PartOf
<1>2. T \in SUBSET Nat /\ T # {}
  BY <1>1
<1>3. PICK q \in T : \A y \in T : q <= y
  BY <1>2, LeastNatural
<1>4. q \in i..(Len(s) + 1) /\ ~PartOf(s, q) /\ \A k \in i..(q - 1) : PartOf(s, k)
  BY <1>1, <1>3
<1> QED
  BY <1>4 DEF PrintedEnd

\* ... where the first other character stands.
LEMMA PartsEndAt ==
  ASSUME NEW S, NEW s \in Seq(S), NEW i \in 1..(Len(s) + 1), NEW q \in i..(Len(s) + 1),
         ~PartOf(s, q), \A k \in i..(q - 1) : PartOf(s, k)
  PROVE  PrintedEnd(s, i) = q
<1>1. Len(s) \in Nat
  OBVIOUS
<1> DEFINE r == PrintedEnd(s, i)
<1>2. r \in i..(Len(s) + 1) /\ ~PartOf(s, r) /\ \A k \in i..(r - 1) : PartOf(s, k)
  BY PartsEnd
<1> HIDE DEF r
<1>3. ~(r < q) /\ ~(q < r)
  BY <1>1, <1>2
<1> QED
  BY <1>1, <1>2, <1>3 DEF r

\* Where a number may start: none of its characters stands before the first.
LEMMA FirstStart ==
  ASSUME NEW S, NEW s \in Seq(S), Starts(s) # {}, NEW p, p = Least(Starts(s)),
         NEW i, i = IntStart(s, p)
  PROVE  /\ p \in 1..Len(s) /\ i \in {p, p + 1} /\ IsDigit(s, i)
         /\ i = p + 1 <=> Has(s, p, Signs)
         /\ \A k \in 1..(p - 1) : ~IsDigit(s, k)
<1>1. Len(s) \in Nat /\ DOMAIN s = 1..Len(s)
  OBVIOUS
<1>2. Starts(s) \in SUBSET Nat
  BY <1>1 DEF Starts
<1>3. p \in Starts(s) /\ \A y \in Starts(s) : p <= y
  BY <1>2, LeastIs
<1>4. p \in 1..Len(s) /\ IsDigit(s, i)
  BY <1>1, <1>3 DEF Starts
<1>5. i \in {p, p + 1} /\ (i = p + 1 <=> Has(s, p, Signs))
  BY <1>4 DEF IntStart
<1>6. ASSUME NEW k \in 1..(p - 1), IsDigit(s, k)
      PROVE  FALSE
  <2>1. k \in 1..Len(s) /\ ~Has(s, k, Signs)
    BY <1>4, <1>6, Positions
  <2>2. IntStart(s, k) = k
    BY <2>1 DEF IntStart
  <2>3. k \in Starts(s)
    BY <1>1, <1>6, <2>1, <2>2 DEF Starts
  <2> QED
    BY <1>3, <1>4, <1>6, <2>3
<1> QED
  BY <1>4, <1>5, <1>6

\* The number that number_at returns is all of the number that is printed.
LEMMA ReadsWhole ==
  ASSUME NEW S, NEW s \in Seq(S), NEW fmt \in NumberFormats, ReadNumber(s, fmt) # None
  PROVE  ReadNumber(s, fmt) = Printed(s)
<1> DEFINE p == Least(Starts(s))
           i == IntStart(s, p)
           e == TokenEnd(s, i, fmt)
<1>1. Starts(s) # {} /\ ReadNumber(s, fmt) = NumberAt(s, p, fmt)
  BY DEF ReadNumber
<1>2. p \in 1..Len(s) /\ i \in {p, p + 1} /\ IsDigit(s, i)
  BY <1>1, FirstStart
<1>3. Len(s) \in Nat /\ i \in Nat /\ i \in 1..Len(s)
  BY <1>2, Positions
<1>4. NumberAt(s, p, fmt) =
        IF IsDigit(s, i) /\ ~Continues(s, p, e) THEN SubSeq(s, p, e - 1) ELSE None
  BY DEF NumberAt, TokenEnd
<1>5. ~Continues(s, p, e) /\ NumberAt(s, p, fmt) = SubSeq(s, p, e - 1)
  BY <1>1, <1>2, <1>4
<1>6. NumberTo(s, i, e)
  BY <1>2, <1>3, TokenIsNumber
<1> HIDE DEF p, i, e
<1>7. ~PartOf(s, e)
  BY <1>5, <1>6 DEF PartOf, Continues, NumberTo
<1>8. PrintedEnd(s, i) = e
  <2>1. i \in 1..(Len(s) + 1) /\ e \in i..(Len(s) + 1) /\ \A k \in i..(e - 1) : PartOf(s, k)
    BY <1>3, <1>6 DEF NumberTo
  <2> QED
    BY <1>7, <2>1, PartsEndAt
<1> QED
  BY <1>1, <1>5, <1>8, PrintedIs DEF p, i

-----------------------------------------------------------------------------
(* Numerals *)

\* The characters of s from i up to e.
Part(s, i, e) == SubSeq(s, i, e - 1)

Cut(s, i, e) == i \in 1..(Len(s) + 1) /\ e \in i..(Len(s) + 1)

\* A character of a part is one of the text.
LEMMA PartIs ==
  ASSUME NEW S, NEW s \in Seq(S), NEW i \in Nat, NEW e \in Nat, Cut(s, i, e)
  PROVE  /\ Part(s, i, e) \in Seq(S) /\ Len(Part(s, i, e)) = e - i
         /\ DOMAIN Part(s, i, e) = 1..(e - i)
         /\ \A k \in 1..(e - i) : Part(s, i, e)[k] = s[i + k - 1]
<1>1. Len(s) \in Nat /\ i \in 1..(Len(s) + 1) /\ e \in i..(Len(s) + 1)
  BY DEF Cut
<1> DEFINE t == SubSeq(s, i, e - 1)
<1>2. /\ t \in Seq(S) /\ Len(t) = IF i <= e - 1 THEN (e - 1) - i + 1 ELSE 0
      /\ \A k \in 1..((e - 1) - i + 1) : t[k] = s[i + k - 1]
  <2>1. i \in 1..(Len(s) + 1) /\ e - 1 \in 0..Len(s)
    BY <1>1
  <2> QED
    BY <1>1, <2>1, SubSeqProperties
<1> HIDE DEF t
<1>3. Len(t) = e - i /\ DOMAIN t = 1..Len(t) /\ (e - 1) - i + 1 = e - i
  BY <1>1, <1>2
<1> QED
  BY <1>2, <1>3 DEF t, Part

\* A part of digits is what its positions are.
LEMMA DigitsOfPart ==
  ASSUME NEW S, NEW s \in Seq(S), NEW i \in 1..(Len(s) + 1), NEW e \in i..(Len(s) + 1),
         AllDigits(Part(s, i, e))
  PROVE  i < e /\ \A k \in i..(e - 1) : IsDigit(s, k)
<1> DEFINE t == Part(s, i, e)
<1>1. /\ t \in Seq(S) /\ Len(t) = e - i /\ DOMAIN t = 1..(e - i)
      /\ \A k \in 1..(e - i) : t[k] = s[i + k - 1]
  <2>1. Cut(s, i, e)
    BY DEF Cut
  <2> QED
    BY <2>1, PartIs
<1>2. t # <<>> /\ Range(t) \subseteq Digits
  BY DEF AllDigits
<1> HIDE DEF t
<1>3. Len(s) \in Nat /\ DOMAIN s = 1..Len(s)
  OBVIOUS
<1>4. i < e
  <2> SUFFICES ASSUME e = i PROVE FALSE
    BY <1>3
  <2>1. Len(t) = 0
    BY <1>1, <1>3
  <2> QED
    BY <1>1, <1>2, <2>1
<1>5. ASSUME NEW k \in i..(e - 1)
      PROVE  IsDigit(s, k)
  <2>1. (k - i + 1) \in 1..(e - i) /\ i + (k - i + 1) - 1 = k /\ k \in 1..Len(s)
    BY <1>3
  <2>2. t[k - i + 1] = s[k] /\ t[k - i + 1] \in Range(t)
    BY <1>1, <2>1 DEF Range
  <2> QED
    BY <1>2, <1>3, <2>1, <2>2 DEF IsDigit, Has
<1> QED
  BY <1>4, <1>5

\* A whole part, before which nothing is a group and after which none follows, is
\* read to its end.
LEMMA WholeIsRead ==
  ASSUME NEW S, NEW s \in Seq(S), NEW i \in 1..(Len(s) + 1), NEW e \in i..(Len(s) + 1),
         NEW fmt \in NumberFormats, Whole(Part(s, i, e), fmt),
         ~IsDigit(s, e), ~GroupAt(s, e, fmt)
  PROVE  i < e /\ IsDigit(s, e - 1) /\ GroupsEnd(s, RunEnd(s, i), fmt) = e
<1> DEFINE t == Part(s, i, e)
<1>1. Len(s) \in Nat /\ DOMAIN s = 1..Len(s)
  OBVIOUS
<1>2. /\ t \in Seq(S) /\ Len(t) = e - i /\ DOMAIN t = 1..(e - i)
      /\ \A k \in 1..(e - i) : t[k] = s[i + k - 1]
  <2>1. Cut(s, i, e)
    BY DEF Cut
  <2>2. t \in Seq(S)
    <3>1. i \in Nat /\ e \in Nat
      OBVIOUS
    <3>2. Part(s, i, e) \in Seq(S)
      BY <2>1, <3>1, PartIs
    <3> QED
      BY <3>2
  <2>3. Len(t) = e - i
    BY <2>1, PartIs
  <2>4. DOMAIN t = 1..(e - i)
    BY <2>1, PartIs
  <2>5. \A k \in 1..(e - i) : t[k] = s[i + k - 1]
    BY <2>1, PartIs
  <2> QED
    BY <2>2, <2>3, <2>4, <2>5
<1>3. CASE AllDigits(t)
  <2>1. i < e /\ \A k \in i..(e - 1) : IsDigit(s, k)
    BY <1>3, DigitsOfPart
  <2>2. RunEnd(s, i) = e
    BY <2>1, RunEndIs
  <2>3. HasGroups(s, e, fmt, 0)
    BY <1>1 DEF HasGroups
  <2>4. GroupsEnd(s, e, fmt) = e
    <3>1. e \in 1..(Len(s) + 1) /\ 0 \in Nat
      BY <1>1
    <3>2. GroupsEnd(s, e, fmt) = e + 4 * 0
      BY <2>3, <3>1, GroupsEndIs
    <3> QED
      BY <1>1, <3>2
  <2>5. IsDigit(s, e - 1)
    BY <1>1, <2>1
  <2> QED
    BY <2>1, <2>2, <2>4, <2>5
<1>4. ASSUME NEW n \in 1..3, Len(t) > n, (Len(t) - n) % 4 = 0,
             \A k \in DOMAIN t :
               t[k] \in IF k > n /\ (k - n) % 4 = 1 THEN Grouping(fmt) ELSE Digits
      PROVE  i < e /\ IsDigit(s, e - 1) /\ GroupsEnd(s, RunEnd(s, i), fmt) = e
  <2> DEFINE r == i + n
             g == (Len(t) - n) \div 4
  <2> HIDE DEF t
  <2>1. n \in Nat /\ e - i > n /\ g \in Nat /\ g > 0 /\ e = r + 4 * g
    BY <1>1, <1>2, <1>4
  <2> HIDE DEF g
  <2>2. r \in (i + 1)..(Len(s) + 1) /\ r \in 1..(Len(s) + 1) /\ e \in Nat /\ e <= Len(s) + 1
    BY <1>1, <2>1
  <2>3. ASSUME NEW k \in i..(e - 1)
        PROVE  /\ k \in DOMAIN s
               /\ s[k] \in IF k >= r /\ (k - r) % 4 = 0 THEN Grouping(fmt) ELSE Digits
    <3>1. k - i + 1 \in 1..(e - i) /\ k \in DOMAIN s /\ i + (k - i + 1) - 1 = k
      BY <1>1
    <3>2. s[k] \in IF (k - i + 1) > n /\ ((k - i + 1) - n) % 4 = 1 THEN Grouping(fmt) ELSE Digits
      BY <1>2, <1>4, <3>1
    <3>3. (k - i + 1) > n <=> k >= r
      BY <1>1, <2>1
    <3>4. k >= r => (((k - i + 1) - n) % 4 = 1 <=> (k - r) % 4 = 0)
      BY <1>1, <2>1
    <3> QED
      BY <3>1, <3>2, <3>3, <3>4
  <2>4. ASSUME NEW k \in i..(e - 1), ~(k >= r /\ (k - r) % 4 = 0)
        PROVE  IsDigit(s, k)
    BY <2>3, <2>4 DEF IsDigit, Has
  <2>5. ASSUME NEW k \in i..(e - 1), k >= r, (k - r) % 4 = 0
        PROVE  Has(s, k, Grouping(fmt))
    BY <2>3, <2>5 DEF Has
  <2>6. RunEnd(s, i) = r
    <3>1. \A k \in i..(r - 1) : IsDigit(s, k)
      BY <1>1, <2>1, <2>4
    <3>2. ~IsDigit(s, r)
      <4>1. r \in i..(e - 1) /\ r >= r /\ (r - r) % 4 = 0
        BY <1>1, <2>1
      <4>2. Has(s, r, Separators)
        BY <2>5, <4>1, Marks DEF Has
      <4>3. r \in Int
        BY <2>2
      <4> QED
        BY <4>2, <4>3, Positions
    <3>3. r \in i..(Len(s) + 1)
      BY <2>2
    <3> HIDE DEF r
    <3> QED
      BY <3>1, <3>2, <3>3, RunEndIs
  <2>7. HasGroups(s, r, fmt, g)
    <3>1. ~GroupAt(s, r + 4 * g, fmt)
      BY <2>1
    <3>2. ASSUME NEW a \in 0..(g - 1)
          PROVE  GroupAt(s, r + 4 * a, fmt)
      <4> DEFINE j == r + 4 * a
      <4>1. j \in Nat /\ j >= r /\ (j - r) % 4 = 0 /\ j \in i..(e - 1) /\ j + 4 <= e
        BY <2>1, <2>2
      <4>2. Has(s, j, Grouping(fmt))
        BY <2>5, <4>1
      <4>3. ASSUME NEW k \in (j + 1)..(j + 3)
            PROVE  IsDigit(s, k)
        <5>1. k \in i..(e - 1)
          BY <2>2, <4>1
        <5>2. (k - r) % 4 # 0
          BY <2>1, <2>2
        <5> QED
          BY <2>4, <5>1, <5>2
      <4>4. ~IsDigit(s, j + 4)
        <5>1. CASE j + 4 = e
          BY <5>1
        <5>2. CASE j + 4 # e
          <6>1. j + 4 \in i..(e - 1) /\ j + 4 >= r /\ ((j + 4) - r) % 4 = 0
            BY <2>1, <2>2, <5>2
          <6>2. Has(s, j + 4, Separators)
            BY <2>5, <6>1, Marks DEF Has
          <6>3. j + 4 \in Int
            BY <4>1
          <6> QED
            BY <6>2, <6>3, Positions
        <5> QED
          BY <5>1, <5>2
      <4> QED
        BY <4>2, <4>3, <4>4 DEF GroupAt
    <3> QED
      BY <3>1, <3>2 DEF HasGroups
  <2>8. GroupsEnd(s, r, fmt) = e
    BY <2>1, <2>2, <2>7, GroupsEndIs
  <2>9. IsDigit(s, e - 1)
    <3>1. e - 1 \in i..(e - 1) /\ ((e - 1) - r) % 4 # 0
      BY <1>1, <2>1, <2>2
    <3> QED
      BY <2>4, <3>1
  <2>10. i < e
    BY <1>1, <2>1
  <2> QED
    BY <2>6, <2>8, <2>9, <2>10
<1> QED
  BY <1>3, <1>4 DEF Whole

\* A part of a part is one of the text.
LEMMA PartOfPartIs ==
  ASSUME NEW S, NEW s \in Seq(S), NEW i \in Nat, NEW e \in Nat, Cut(s, i, e),
         NEW a \in 1..(e - i + 1), NEW b \in a..(e - i + 1),
         NEW x \in Nat, NEW y \in Nat, x = i + a - 1, y = i + b - 1
  PROVE  Part(Part(s, i, e), a, b) = Part(s, x, y)
<1>1. Len(s) \in Nat /\ i \in 1..(Len(s) + 1) /\ e \in i..(Len(s) + 1)
  BY DEF Cut
<1> DEFINE t == Part(s, i, e)
<1>2. t \in Seq(S) /\ Len(t) = e - i /\ \A k \in 1..(e - i) : t[k] = s[i + k - 1]
  BY PartIs
<1> HIDE DEF t
<1>3. Cut(t, a, b)
  BY <1>1, <1>2 DEF Cut
<1>4. /\ Part(t, a, b) \in Seq(S) /\ Len(Part(t, a, b)) = b - a
      /\ \A k \in 1..(b - a) : Part(t, a, b)[k] = t[a + k - 1]
  BY <1>2, <1>3, PartIs
<1>5. Cut(s, x, y) /\ x \in Nat /\ y \in Nat /\ y - x = b - a
  BY <1>1 DEF Cut
<1>6. ASSUME NEW k \in 1..(b - a)
      PROVE  t[a + k - 1] = s[x + k - 1]
  <2>1. a + k - 1 \in 1..(e - i) /\ i + (a + k - 1) - 1 = x + k - 1
    BY <1>1
  <2> QED
    BY <1>2, <2>1
<1>7. /\ Part(s, x, y) \in Seq(S) /\ Len(Part(s, x, y)) = y - x
      /\ \A k \in 1..(y - x) : Part(s, x, y)[k] = s[x + k - 1]
  <2>1. Part(s, x, y) \in Seq(S)
    BY <1>5, PartIs
  <2>2. Len(Part(s, x, y)) = y - x
    <3>1. ASSUME NEW c \in Nat, NEW d \in Nat, Cut(s, c, d)
          PROVE  Len(Part(s, c, d)) = d - c
      BY <3>1, PartIs, ZenonT(60)
    <3> QED
      BY <1>5, <3>1
  <2>3. \A k \in 1..(y - x) : Part(s, x, y)[k] = s[x + k - 1]
    BY <1>5, PartIs
  <2> QED
    BY <2>1, <2>2, <2>3
<1>8. Part(t, a, b) = Part(s, x, y)
  <2> DEFINE v == Part(t, a, b)
             w == Part(s, x, y)
  <2>1. v \in Seq(S) /\ w \in Seq(S) /\ Len(v) = Len(w) /\ \A k \in 1..Len(v) : v[k] = w[k]
    <3>1. v \in Seq(S) /\ Len(v) = b - a /\ \A k \in 1..(b - a) : v[k] = t[a + k - 1]
      BY <1>4
    <3>2. w \in Seq(S) /\ Len(w) = b - a /\ \A k \in 1..(b - a) : w[k] = s[x + k - 1]
      BY <1>5, <1>7
    <3> HIDE DEF v, w
    <3> QED
      BY <1>6, <3>1, <3>2
  <2> HIDE DEF v, w
  <2>2. v = w
    BY <2>1, SeqEqual
  <2> QED
    BY <2>2 DEF v, w
<1> QED
  BY <1>8 DEF t

\* A numeral that is printed from i to e, without its sign, is read to its end.
LEMMA NumeralIsRead ==
  ASSUME NEW S, NEW s \in Seq(S), NEW i \in 1..Len(s), NEW e \in (i + 1)..(Len(s) + 1),
         NEW fmt \in NumberFormats, IsDigit(s, e - 1), ~PartOf(s, e),
         \/ Whole(Part(s, i, e), fmt)
         \/ \E k \in 1..(e - i) :
              /\ Part(s, i, e)[k] \in Decimal(fmt)
              /\ Whole(Part(Part(s, i, e), 1, k), fmt)
              /\ AllDigits(Part(Part(s, i, e), k + 1, e - i + 1))
  PROVE  TokenEnd(s, i, fmt) = e
<1>1. /\ Len(s) \in Nat /\ DOMAIN s = 1..Len(s)
      /\ i \in 1..(Len(s) + 1) /\ e \in i..(Len(s) + 1)
  OBVIOUS
<1>2. ~IsDigit(s, e) /\ ~(Has(s, e, Separators) /\ IsDigit(s, e + 1))
  BY DEF PartOf
<1>3. CASE Whole(Part(s, i, e), fmt)
  <2>1. ~GroupAt(s, e, fmt)
    <3> SUFFICES ASSUME GroupAt(s, e, fmt) PROVE FALSE
      OBVIOUS
    <3>1. Has(s, e, Separators)
      BY Marks DEF GroupAt, Has
    <3>2. IsDigit(s, e + 1)
      BY <1>1 DEF GroupAt
    <3> QED
      BY <1>2, <3>1, <3>2
  <2>2. GroupsEnd(s, RunEnd(s, i), fmt) = e
    BY <1>1, <1>2, <1>3, <2>1, WholeIsRead
  <2>3. FractionEnd(s, e, fmt) = e
    BY <1>2, Marks DEF FractionEnd, Has
  <2> QED
    BY <2>2, <2>3 DEF TokenEnd
<1>4. ASSUME NEW k \in 1..(e - i), Part(s, i, e)[k] \in Decimal(fmt),
             Whole(Part(Part(s, i, e), 1, k), fmt),
             AllDigits(Part(Part(s, i, e), k + 1, e - i + 1))
      PROVE  TokenEnd(s, i, fmt) = e
  <2> DEFINE d == i + k - 1
  <2>1. /\ d \in 1..(Len(s) + 1) /\ d \in i..(Len(s) + 1) /\ d \in 1..Len(s)
        /\ d + 1 \in 1..(Len(s) + 1) /\ e \in (d + 1)..(Len(s) + 1) /\ d \in Int
    BY <1>1
  <2>2. Has(s, d, Decimal(fmt))
    <3>1. Part(s, i, e)[k] = s[i + k - 1]
      <4>1. Cut(s, i, e)
        BY <1>1 DEF Cut
      <4> QED
        BY <4>1, PartIs
    <3> QED
      BY <1>1, <1>4, <2>1, <3>1 DEF Has
  <2>3. Part(Part(s, i, e), 1, k) = Part(s, i, d)
    <3>1. 1 \in 1..(e - i + 1) /\ k \in 1..(e - i + 1) /\ i + 1 - 1 = i
      BY <1>1
    <3>2. Cut(s, i, e) /\ k \in 1..(e - i + 1)
      BY <1>1 DEF Cut
    <3> HIDE DEF d
    <3>3. d = i + k - 1
      BY DEF d
    <3> QED
      BY <3>1, <3>2, <3>3, PartOfPartIs
  <2>4. Part(Part(s, i, e), k + 1, e - i + 1) = Part(s, d + 1, e)
    <3>1. /\ k + 1 \in 1..(e - i + 1) /\ e - i + 1 \in (k + 1)..(e - i + 1)
          /\ i + (k + 1) - 1 = d + 1 /\ i + (e - i + 1) - 1 = e
      BY <1>1
    <3>2. Cut(s, i, e)
      BY <1>1 DEF Cut
    <3> HIDE DEF d
    <3>3. ASSUME NEW a \in 1..(e - i + 1), NEW b \in a..(e - i + 1),
                 NEW x \in Nat, NEW y \in Nat, x = i + a - 1, y = i + b - 1
          PROVE  Part(Part(s, i, e), a, b) = Part(s, x, y)
      BY <3>2, <3>3, PartOfPartIs
    <3> QED
      BY <3>1, <3>3
  <2> HIDE DEF d
  <2>5. d + 1 < e /\ \A j \in (d + 1)..(e - 1) : IsDigit(s, j)
    BY <1>4, <2>1, <2>4, DigitsOfPart
  <2>6. ~IsDigit(s, d) /\ ~GroupAt(s, d, fmt)
    <3>1. Has(s, d, Separators) /\ ~Has(s, d, Grouping(fmt))
      BY <2>2, Marks DEF Has
    <3> QED
      BY <2>1, <3>1, Positions DEF GroupAt
  <2>7. GroupsEnd(s, RunEnd(s, i), fmt) = d
    BY <1>1, <1>4, <2>1, <2>3, <2>6, WholeIsRead
  <2>8. IsDigit(s, d + 1)
    BY <1>1, <2>1, <2>5
  <2>9. RunEnd(s, d + 1) = e
    BY <1>2, <2>1, <2>5, RunEndIs
  <2> QED
    BY <2>2, <2>7, <2>8, <2>9 DEF TokenEnd, FractionEnd
<1> QED
  BY <1>3, <1>4

\* A number that is printed in the convention is read.
LEMMA ConformingRead ==
  ASSUME NEW S, NEW s \in Seq(S), NEW fmt \in NumberFormats, Starts(s) # {},
         Numeral(Printed(s), fmt)
  PROVE  ReadNumber(s, fmt) = Printed(s)
<1> DEFINE p == Least(Starts(s))
           i == IntStart(s, p)
           e == PrintedEnd(s, i)
           t == Part(s, p, e)
           u == Part(s, i, e)
<1>1. /\ p \in 1..Len(s) /\ i \in {p, p + 1} /\ IsDigit(s, i)
      /\ i = p + 1 <=> Has(s, p, Signs)
      /\ \A k \in 1..(p - 1) : ~IsDigit(s, k)
  BY FirstStart
<1>2. Printed(s) = t
  BY PrintedIs DEF Part
<1>3. NumberAt(s, p, fmt) =
        IF IsDigit(s, i) /\ ~Continues(s, p, TokenEnd(s, i, fmt))
        THEN SubSeq(s, p, TokenEnd(s, i, fmt) - 1) ELSE None
  BY DEF NumberAt, TokenEnd
<1>4. ReadNumber(s, fmt) = NumberAt(s, p, fmt)
  BY DEF ReadNumber
<1> HIDE DEF p, i
<1>5. Len(s) \in Nat /\ DOMAIN s = 1..Len(s) /\ i \in 1..Len(s) /\ i \in 1..(Len(s) + 1)
  BY <1>1, Positions
<1>6. e \in i..(Len(s) + 1) /\ ~PartOf(s, e) /\ \A k \in i..(e - 1) : PartOf(s, k)
  BY <1>5, PartsEnd
<1> HIDE DEF e
<1>7. e \in (i + 1)..(Len(s) + 1) /\ IsDigit(s, e - 1)
  <2>1. e # i
    BY <1>1, <1>6 DEF PartOf
  <2>2. e \in (i + 1)..(Len(s) + 1) /\ e - 1 \in i..(e - 1) /\ (e - 1) + 1 = e
    BY <1>5, <1>6, <2>1
  <2> QED
    BY <1>6, <2>2 DEF PartOf
<1>8. p \in 1..(Len(s) + 1) /\ e \in p..(Len(s) + 1) /\ e \in Int /\ e - p > 0
  BY <1>1, <1>5, <1>7
<1>9. t \in Seq(S) /\ Len(t) = e - p /\ DOMAIN t = 1..(e - p) /\ t[1] = s[p]
  <2>1. /\ t \in Seq(S) /\ Len(t) = e - p /\ DOMAIN t = 1..(e - p)
        /\ \A k \in 1..(e - p) : t[k] = s[p + k - 1]
    <3>1. Cut(s, p, e) /\ p \in Nat /\ e \in Nat
      BY <1>5, <1>8 DEF Cut
    <3>2. t \in Seq(S)
      BY <3>1, PartIs
    <3>3. Len(t) = e - p /\ DOMAIN t = 1..(e - p)
      BY <3>1, PartIs
    <3>4. \A k \in 1..(e - p) : t[k] = s[p + k - 1]
      BY <3>1, PartIs
    <3> QED
      BY <3>2, <3>3, <3>4
  <2>2. 1 \in 1..(e - p) /\ p + 1 - 1 = p
    BY <1>8
  <2> HIDE DEF t
  <2> QED
    BY <2>1, <2>2
<1>10. u = IF Has(t, 1, Signs) THEN Tail(t) ELSE t
  <2>1. Has(t, 1, Signs) <=> Has(s, p, Signs)
    <3> HIDE DEF t
    <3> QED
      BY <1>1, <1>5, <1>8, <1>9 DEF Has
  <2>2. CASE i = p
    BY <1>1, <1>5, <2>1, <2>2
  <2>3. CASE i = p + 1
    <3>1. t # <<>>
      <4> HIDE DEF t
      <4> QED
        BY <1>8, <1>9
    <3>2. Tail(t) = Part(t, 2, (e - p) + 1)
      <4>1. (e - p) + 1 - 1 = Len(t)
        BY <1>8, <1>9
      <4> HIDE DEF t
      <4> QED
        BY <1>9, <3>1, <4>1, TailIsSubSeq DEF Part
    <3>3. /\ 2 \in 1..(e - p + 1) /\ e - p + 1 \in 2..(e - p + 1)
          /\ p + 2 - 1 = i /\ p + (e - p + 1) - 1 = e
      BY <1>5, <1>7, <1>8, <2>3
    <3>4. Part(t, 2, e - p + 1) = u
      <4>1. Cut(s, p, e) /\ p \in Nat /\ e \in Nat
        BY <1>5, <1>8 DEF Cut
      <4>2. ASSUME NEW a \in 1..(e - p + 1), NEW b \in a..(e - p + 1),
                   NEW x, NEW y, x = p + a - 1, y = p + b - 1
            PROVE  Part(Part(s, p, e), a, b) = Part(s, x, y)
        BY <4>1, <4>2, PartOfPartIs
      <4> QED
        BY <3>3, <4>2
    <3> QED
      BY <1>1, <2>1, <2>3, <3>2, <3>4
  <2> QED
    BY <1>1, <2>2, <2>3
<1>11. Len(u) = e - i /\ DOMAIN u = 1..(e - i)
  <2>1. Cut(s, i, e) /\ i \in Nat /\ e \in Nat
    BY <1>5, <1>6 DEF Cut
  <2> QED
    BY <2>1, PartIs
<1>12. \/ Whole(u, fmt)
       \/ \E k \in 1..(e - i) : /\ u[k] \in Decimal(fmt)
                                /\ Whole(Part(u, 1, k), fmt)
                                /\ AllDigits(Part(u, k + 1, e - i + 1))
  <2>1. \/ Whole(u, fmt)
        \/ \E k \in DOMAIN u : /\ u[k] \in Decimal(fmt)
                               /\ Whole(SubSeq(u, 1, k - 1), fmt)
                               /\ AllDigits(SubSeq(u, k + 1, Len(u)))
    <3> HIDE DEF t, u
    <3> QED
      BY <1>2, <1>10 DEF Numeral
  <2>2. e - i + 1 - 1 = Len(u)
    BY <1>5, <1>7, <1>11
  <2> HIDE DEF u
  <2> QED
    BY <1>11, <2>1, <2>2 DEF Part
<1>13. TokenEnd(s, i, fmt) = e
  BY <1>5, <1>6, <1>7, <1>12, NumeralIsRead
<1>14. ~Continues(s, p, e)
  <2>1. ~IsDigit(s, p - 1) /\ ~IsDigit(s, p - 2)
    <3>1. p - 1 \in Int /\ p - 2 \in Int
      BY <1>8
    <3>2. ASSUME NEW k \in Int, k < p, IsDigit(s, k) PROVE FALSE
      <4>1. k \in 1..Len(s)
        BY <3>2, Positions
      <4> QED
        BY <1>1, <1>5, <3>2, <4>1
    <3> QED
      BY <1>8, <3>1, <3>2
  <2> QED
    BY <1>6, <1>7, <2>1 DEF Continues, PartOf
<1> QED
  BY <1>1, <1>2, <1>3, <1>4, <1>13, <1>14 DEF Part

-----------------------------------------------------------------------------
(* Bodies *)

\* A body is written from its characters.
BodyInv == body \in Seq(Alphabet)

LEMMA BodyStep == BodyInv /\ [RulesNext]_all => BodyInv'
<1> SUFFICES ASSUME BodyInv, [RulesNext]_all PROVE BodyInv'
  OBVIOUS
<1>1. CASE UNCHANGED body
  BY <1>1 DEF BodyInv
<1>2. ASSUME NEW c \in Alphabet, Write(c) PROVE BodyInv'
  BY <1>2, AppendProperties DEF BodyInv, Write
<1> QED
  BY <1>1, <1>2 DEF RulesNext, Next, Midnight, WriteLiteral, WritePredicate, WriteSalt, all, vars

\* In a window that holds the body, the region is what stands behind the anchor.
LEMMA RegionIs ==
  ASSUME BodyInv, Window \in Nat, Len(body) <= Window, Occurrences(body, Anchor) # {}
  PROVE  Behind \in Seq(Alphabet) /\ Region(body, Anchor, Window) = Behind
<1> DEFINE p == Least(Occurrences(body, Anchor))
<1>1. Len(body) \in Nat /\ body \in Seq(Alphabet) /\ Len(Anchor) = 1
  BY DEF BodyInv, Anchor
<1>2. Occurrences(body, Anchor) \in SUBSET (1..Len(body))
  BY <1>1 DEF Occurrences
<1>3. p \in 1..Len(body)
  <2>1. Occurrences(body, Anchor) \in SUBSET Nat
    BY <1>1, <1>2
  <2>2. p \in Occurrences(body, Anchor)
    BY <2>1, LeastIs
  <2> QED
    BY <1>2, <2>2
<1> HIDE DEF p
<1>4. ASSUME NEW w \in Nat, Len(body) <= w
      PROVE  (IF (p + 1) + w - 1 <= Len(body) THEN (p + 1) + w - 1 ELSE Len(body)) = Len(body)
  BY <1>1, <1>3, <1>4
<1>5. ASSUME NEW w \in Nat, Len(body) <= w
      PROVE  Region(body, Anchor, w) = Part(body, p + 1, Len(body) + 1)
  <2>1. (Len(body) + 1) - 1 = Len(body)
    BY <1>1
  <2> QED
    BY <1>1, <1>4, <1>5, <2>1 DEF Region, Part, p
<1>6. p + 1 \in 1..(Len(body) + 1) /\ Len(body) + 1 \in (p + 1)..(Len(body) + 1)
  BY <1>1, <1>3
<1>7. Part(body, p + 1, Len(body) + 1) \in Seq(Alphabet)
  <2>1. Cut(body, p + 1, Len(body) + 1) /\ p + 1 \in Nat /\ Len(body) + 1 \in Nat
    BY <1>1, <1>3, <1>6 DEF Cut
  <2> QED
    BY <1>1, <2>1, PartIs
<1>8. Behind = Part(body, p + 1, Len(body) + 1)
  BY <1>1, <1>5 DEF Behind
<1> QED
  BY <1>5, <1>7, <1>8

\* What a page states behind the anchor is read as a whole, and is read when it conforms.
LEMMA NumbersReadHere ==
  ASSUME BodyInv, Window \in Nat, Len(body) <= Window
  PROVE  NumbersRead
<1>1. ASSUME NEW fmt \in NumberFormats, Occurrences(body, Anchor) # {}
      PROVE  Extracted(fmt) = ReadNumber(Behind, fmt) /\ Behind \in Seq(Alphabet)
  <2>1. Region(body, Anchor, Window) = Behind /\ Behind \in Seq(Alphabet)
    BY <1>1, RegionIs
  <2>2. Read(Behind, [is |-> "number", format |-> fmt]) = ReadNumber(Behind, fmt)
    BY DEF Read
  <2> QED
    BY <1>1, <2>1, <2>2 DEF Extracted, ExtractAnchored
<1>2. ASSUME NEW fmt \in NumberFormats, Extracted(fmt) # None
      PROVE  Extracted(fmt) = Printed(Behind)
  <2>1. Occurrences(body, Anchor) # {}
    BY <1>2 DEF Extracted, ExtractAnchored
  <2> QED
    BY <1>1, <1>2, <2>1, ReadsWhole
<1>3. ASSUME NEW fmt \in NumberFormats, Occurrences(body, Anchor) # {}, Starts(Behind) # {},
             Numeral(Printed(Behind), fmt)
      PROVE  Extracted(fmt) = Printed(Behind)
  BY <1>1, <1>3, ConformingRead
<1> QED
  BY <1>2, <1>3 DEF NumbersRead, WholeNumber, ConformingIsRead

\* A window that holds every body, so that no number is cut off by its end: where one
\* is, a piece of it is read (ExtractionWindow.cfg).
WindowHolds == Window \in Nat /\ MaxLen \in Nat /\ MaxLen <= Window

\* No body grows beyond the longest.
LEMMA LengthStep ==
  ASSUME WindowHolds
  PROVE  BodyInv /\ Len(body) <= MaxLen /\ [RulesNext]_all => (Len(body) <= MaxLen)'
<1> SUFFICES ASSUME BodyInv, Len(body) <= MaxLen, [RulesNext]_all PROVE Len(body') <= MaxLen
  OBVIOUS
<1>1. CASE UNCHANGED body
  BY <1>1
<1>2. ASSUME NEW c \in Alphabet, Write(c) PROVE Len(body') <= MaxLen
  <2>1. Len(body') = Len(body) + 1 /\ Len(body) \in Nat
    BY <1>2, AppendProperties DEF BodyInv, Write
  <2>2. Len(body) < MaxLen
    BY <1>2, <2>1 DEF Write, Longest, WindowHolds
  <2> QED
    BY <2>1, <2>2 DEF WindowHolds
<1> QED
  BY <1>1, <1>2
     DEF RulesNext, Next, Midnight, WriteLiteral, WritePredicate, WriteSalt, all, vars

\* The extractor finds the first number behind the anchor if it is of the declared
\* convention, and never a piece of it (lib.rs 253), in bodies of any length.
THEOREM NumbersReadWhole == ASSUME WindowHolds PROVE RulesSpec => []NumbersRead
<1>1. RulesInit => BodyInv /\ Len(body) <= MaxLen
  BY DEF RulesInit, Init, BodyInv, WindowHolds
<1>2. BodyInv /\ Len(body) <= MaxLen /\ [RulesNext]_all => (Len(body) <= MaxLen)'
  BY LengthStep
<1>3. BodyInv /\ Len(body) <= MaxLen => NumbersRead
  <2> SUFFICES ASSUME BodyInv, Len(body) <= MaxLen PROVE NumbersRead
    OBVIOUS
  <2>1. Window \in Nat /\ Len(body) <= Window
    BY DEF WindowHolds, BodyInv
  <2> QED
    BY <2>1, NumbersReadHere
<1> QED
  BY <1>1, <1>2, <1>3, BodyStep, PTL DEF RulesSpec

-----------------------------------------------------------------------------
(* Spelled dates *)

\* The characters of a page.
PageChars == Digits \cup {"a", "x", "-", ".", "/"}

\* The digits, as the code parses and writes them.
LEMMA DigitIs ==
  ASSUME NEW n \in 0..9
  PROVE  /\ DigitNames[n + 1] \in Digits /\ DigitNames[n + 1] \in DOMAIN DigitValue
         /\ DigitValue[DigitNames[n + 1]] = n
<1>1. \A k \in 0..9 : DigitNames[k + 1] = DigitNames[n + 1] => k = n
  BY SMTT(60) DEF DigitNames
<1>2. n + 1 \in DOMAIN DigitNames /\ DOMAIN DigitNames = 1..10
  BY DEF DigitNames
<1> HIDE DEF DigitNames
<1>3. DigitNames[n + 1] \in Digits
  BY <1>2 DEF Digits, Range
<1>4. DigitValue[DigitNames[n + 1]] = CHOOSE k \in 0..9 : DigitNames[k + 1] = DigitNames[n + 1]
  BY <1>3 DEF DigitValue
<1> QED
  BY <1>1, <1>3, <1>4 DEF DigitValue

\* A digit has a value below ten.
LEMMA ValueIs ==
  ASSUME NEW c \in Digits
  PROVE  DigitValue[c] \in 0..9
<1>1. PICK k \in DOMAIN DigitNames : c = DigitNames[k]
  BY DEF Digits, Range
<1>2. k \in 1..10
  BY DEF DigitNames
<1>3. k - 1 \in 0..9 /\ (k - 1) + 1 = k
  BY <1>2
<1> QED
  BY <1>1, <1>3, DigitIs

\* The number of two digits, and of four.
LEMMA NumberOfTwo ==
  ASSUME NEW s, Len(s) = 2, DigitValue[s[1]] \in Int, DigitValue[s[2]] \in Int
  PROVE  NumberOf(s) = 10 * DigitValue[s[1]] + DigitValue[s[2]]
<1> DEFINE P(v) == v = [k \in 0..Len(s) |-> IF k = 0 THEN 0 ELSE 10 * v[k - 1] + DigitValue[s[k]]]
           u == CHOOSE v : P(v)
           w == [k \in 0..2 |-> IF k = 0 THEN 0 ELSE IF k = 1 THEN DigitValue[s[1]]
                                ELSE 10 * DigitValue[s[1]] + DigitValue[s[2]]]
<1>1. P(w)
  OBVIOUS
<1>2. P(u)
  <2>1. \E v : P(v)
    BY <1>1
  <2> HIDE DEF P
  <2> QED
    BY <2>1
<1>3. NumberOf(s) = u[Len(s)]
  BY DEF NumberOf
<1> HIDE DEF u
<1>4. u[0] = 0 /\ u[1] = 10 * u[0] + DigitValue[s[1]] /\ u[2] = 10 * u[1] + DigitValue[s[2]]
  BY <1>2
<1> QED
  BY <1>3, <1>4

LEMMA NumberOfFour ==
  ASSUME NEW s, Len(s) = 4, \A k \in 1..4 : DigitValue[s[k]] \in Int
  PROVE  NumberOf(s) = 1000 * DigitValue[s[1]] + 100 * DigitValue[s[2]]
                       + 10 * DigitValue[s[3]] + DigitValue[s[4]]
<1> DEFINE P(v) == v = [k \in 0..Len(s) |-> IF k = 0 THEN 0 ELSE 10 * v[k - 1] + DigitValue[s[k]]]
           u == CHOOSE v : P(v)
           v1 == DigitValue[s[1]]
           v2 == 10 * v1 + DigitValue[s[2]]
           v3 == 10 * v2 + DigitValue[s[3]]
           v4 == 10 * v3 + DigitValue[s[4]]
           w == [k \in 0..4 |-> IF k = 0 THEN 0 ELSE IF k = 1 THEN v1 ELSE IF k = 2 THEN v2
                                ELSE IF k = 3 THEN v3 ELSE v4]
<1>0. 1 \in 1..4 /\ 2 \in 1..4 /\ 3 \in 1..4 /\ 4 \in 1..4
  OBVIOUS
<1>1. P(w)
  <2>1. v1 = 10 * 0 + DigitValue[s[1]]
    BY <1>0
  <2> HIDE DEF v1, v2, v3, v4
  <2>2. /\ v2 = 10 * v1 + DigitValue[s[2]] /\ v3 = 10 * v2 + DigitValue[s[3]]
        /\ v4 = 10 * v3 + DigitValue[s[4]]
    BY DEF v2, v3, v4
  <2> QED
    BY <2>1, <2>2
<1>2. P(u)
  <2>1. \E v : P(v)
    BY <1>1
  <2> HIDE DEF P
  <2> QED
    BY <2>1
<1>3. NumberOf(s) = u[Len(s)]
  BY DEF NumberOf
<1> HIDE DEF u
<1>4. /\ u[0] = 0 /\ u[1] = 10 * u[0] + DigitValue[s[1]] /\ u[2] = 10 * u[1] + DigitValue[s[2]]
      /\ u[3] = 10 * u[2] + DigitValue[s[3]] /\ u[4] = 10 * u[3] + DigitValue[s[4]]
  BY <1>2
<1> QED
  BY <1>0, <1>3, <1>4

\* c is the digit p.
DigitOf(c, p) == p \in Nat /\ p <= 9 /\ c = DigitNames[p + 1]

LEMMA DigitOfIs ==
  ASSUME NEW c, NEW p, DigitOf(c, p)
  PROVE  c \in Digits /\ p \in Nat /\ DigitValue[c] = p
<1>1. p \in 0..9
  BY DEF DigitOf
<1> QED
  BY <1>1, DigitIs DEF DigitOf

\* The last four digits of a number.
LEMMA FourParts ==
  ASSUME NEW n \in Nat
  PROVE  \E p \in Nat, q \in Nat, r \in Nat, u \in Nat :
           /\ p <= 9 /\ q <= 9 /\ r <= 9 /\ u <= 9
           /\ p = (n \div 1000) % 10 /\ q = (n \div 100) % 10 /\ r = (n \div 10) % 10 /\ u = n % 10
           /\ n <= 9999 => n = 1000 * p + 100 * q + 10 * r + u
<1>1. PICK a \in Nat, u \in Nat : a = n \div 10 /\ u = n % 10 /\ u <= 9 /\ n = 10 * a + u
  OBVIOUS
<1>2. PICK b \in Nat, r \in Nat : r = a % 10 /\ r <= 9 /\ a = 10 * b + r
  OBVIOUS
<1>3. PICK c \in Nat, q \in Nat : q = b % 10 /\ q <= 9 /\ b = 10 * c + q
  OBVIOUS
<1>4. PICK d \in Nat, p \in Nat : p = c % 10 /\ p <= 9 /\ c = 10 * d + p
  OBVIOUS
<1>5. n \div 100 = b
  <2>1. 100 * b <= n /\ n < 100 * b + 100 /\ 100 \in Nat \ {0}
    BY <1>1, <1>2
  <2> QED
    BY <2>1, DivIs
<1>6. n \div 1000 = c
  <2>1. 1000 * c <= n /\ n < 1000 * c + 1000 /\ 1000 \in Nat \ {0}
    BY <1>1, <1>2, <1>3
  <2> QED
    BY <2>1, DivIs
<1>7. n <= 9999 => d = 0
  BY <1>1, <1>2, <1>3, <1>4
<1>8. n <= 9999 => n = 1000 * p + 100 * q + 10 * r + u
  BY <1>1, <1>2, <1>3, <1>4, <1>7
<1> QED
  BY <1>1, <1>2, <1>3, <1>4, <1>5, <1>6, <1>8

\* The characters of s at p are digits of the number n, two of them or four.
Two(s, p, n) ==
  /\ IsDigit(s, p) /\ IsDigit(s, p + 1)
  /\ n = 10 * DigitValue[s[p]] + DigitValue[s[p + 1]]
Four(s, p, n) ==
  /\ \A k \in p..(p + 3) : IsDigit(s, k)
  /\ n = 1000 * DigitValue[s[p]] + 100 * DigitValue[s[p + 1]]
         + 10 * DigitValue[s[p + 2]] + DigitValue[s[p + 3]]

\* Two digits spell a number below a hundred ...
LEMMA PaddedTwo ==
  ASSUME NEW n \in Nat, n <= 99
  PROVE  Padded(n, 2) \in Seq(Digits) /\ Len(Padded(n, 2)) = 2 /\ Two(Padded(n, 2), 1, n)
<1>1. 10^(2 - 1) = 10 /\ 10^(2 - 2) = 1 /\ n \div 1 = n
  OBVIOUS
<1>2. PICK p \in Nat, q \in Nat :
        p <= 9 /\ q <= 9 /\ p = (n \div 10) % 10 /\ q = n % 10 /\ 10 * p + q = n
  OBVIOUS
<1> DEFINE t == Padded(n, 2)
<1>3. DigitOf(t[1], p) /\ DigitOf(t[2], q)
  BY <1>1, <1>2 DEF Padded, DigitOf
<1>4. t = [k \in 1..2 |-> t[k]]
  BY DEF Padded
<1> HIDE DEF t
<1>5. \A k \in 1..2 : t[k] \in Digits
  BY <1>3, DigitOfIs
<1>6. t \in Seq(Digits) /\ Len(t) = 2
  <2>1. [k \in 1..2 |-> t[k]] \in Seq(Digits) /\ Len([k \in 1..2 |-> t[k]]) = 2
    BY <1>5
  <2> QED
    BY <1>4, <2>1
<1>7. DigitValue[t[1]] = p /\ DigitValue[t[2]] = q
  BY <1>3, DigitOfIs
<1>8. Two(t, 1, n)
  <2>1. IsDigit(t, 1) /\ IsDigit(t, 2) /\ 1 + 1 = 2
    BY <1>5, <1>6 DEF IsDigit, Has
  <2> QED
    BY <1>2, <1>7, <2>1 DEF Two
<1> QED
  BY <1>6, <1>8 DEF t

\* ... and four a year below ten thousand.
LEMMA PaddedFour ==
  ASSUME NEW n \in Nat, n <= 9999
  PROVE  Padded(n, 4) \in Seq(Digits) /\ Len(Padded(n, 4)) = 4 /\ Four(Padded(n, 4), 1, n)
<1>1. 10^(4 - 1) = 1000 /\ 10^(4 - 2) = 100 /\ 10^(4 - 3) = 10 /\ 10^(4 - 4) = 1 /\ n \div 1 = n
  OBVIOUS
<1>2. PICK p \in Nat, q \in Nat, r \in Nat, u \in Nat :
        /\ p <= 9 /\ q <= 9 /\ r <= 9 /\ u <= 9
        /\ p = (n \div 1000) % 10 /\ q = (n \div 100) % 10 /\ r = (n \div 10) % 10 /\ u = n % 10
        /\ n = 1000 * p + 100 * q + 10 * r + u
  BY FourParts
<1> DEFINE t == Padded(n, 4)
<1>3. DigitOf(t[1], p) /\ DigitOf(t[2], q) /\ DigitOf(t[3], r) /\ DigitOf(t[4], u)
  <2>1. /\ t[1] = DigitNames[((n \div 1000) % 10) + 1] /\ t[2] = DigitNames[((n \div 100) % 10) + 1]
        /\ t[3] = DigitNames[((n \div 10) % 10) + 1] /\ t[4] = DigitNames[(n % 10) + 1]
    BY <1>1 DEF Padded
  <2> HIDE DEF t
  <2> QED
    BY <1>2, <2>1 DEF DigitOf
<1>4. t = [k \in 1..4 |-> t[k]]
  BY DEF Padded
<1> HIDE DEF t
<1>5. \A k \in 1..4 : t[k] \in Digits
  BY <1>3, DigitOfIs
<1>6. t \in Seq(Digits) /\ Len(t) = 4
  <2>1. [k \in 1..4 |-> t[k]] \in Seq(Digits) /\ Len([k \in 1..4 |-> t[k]]) = 4
    BY <1>5
  <2> QED
    BY <1>4, <2>1
<1>7. DigitValue[t[1]] = p /\ DigitValue[t[2]] = q /\ DigitValue[t[3]] = r /\ DigitValue[t[4]] = u
  BY <1>3, DigitOfIs
<1>8. Four(t, 1, n)
  <2>1. \A k \in 1..(1 + 3) : IsDigit(t, k)
    BY <1>5, <1>6 DEF IsDigit, Has
  <2>2. n = 1000 * DigitValue[t[1]] + 100 * DigitValue[t[1 + 1]] + 10 * DigitValue[t[1 + 2]]
            + DigitValue[t[1 + 3]]
    <3>1. /\ DigitValue[t[1]] = p /\ DigitValue[t[1 + 1]] = q /\ DigitValue[t[1 + 2]] = r
          /\ DigitValue[t[1 + 3]] = u
      BY <1>7
    <3>2. n = 1000 * p + 100 * q + 10 * r + u
      BY <1>2
    <3> QED
      BY <3>1, <3>2, SMT
  <2> QED
    BY <2>1, <2>2, Zenon DEF Four
<1> QED
  BY <1>6, <1>8 DEF t

\* What separates the fields of a date is no digit, nor are the page's own characters.
LEMMA NoDigits == Digits \cap {"a", "x", "-", ".", "/"} = {} /\ "7" \in Digits
<1>1. \A n \in 1..10 : DigitNames[n] \notin {"a", "x", "-", ".", "/"}
  <2> TAKE n \in 1..10
  <2>1. n = 1 \/ n = 2 \/ n = 3 \/ n = 4 \/ n = 5 \/ n = 6 \/ n = 7 \/ n = 8 \/ n = 9 \/ n = 10
    OBVIOUS
  <2> QED
    BY <2>1 DEF DigitNames
<1>2. DOMAIN DigitNames = 1..10 /\ DigitNames[8] = "7"
  BY DEF DigitNames
<1> HIDE DEF DigitNames
<1>3. 8 \in 1..10
  OBVIOUS
<1> QED
  BY <1>1, <1>2, <1>3 DEF Digits, Range

LEMMA SeparatorIs ==
  ASSUME NEW f \in DateFormats
  PROVE  DateSeparator(f) \in {"-", ".", "/"} /\ DateSeparator(f) \notin Digits
<1>1. DateSeparator(f) \in {"-", ".", "/"}
  BY DEF DateSeparator
<1> QED
  BY <1>1, NoDigits

\* Three parts of a text and the character between them.
Parted(u, v, w, c) == u \o <<c>> \o v \o <<c>> \o w

\* A text of n characters.
Long(t, n, S) == t \in Seq(S) /\ n \in Nat /\ Len(t) = n

\* t has the first n characters of u, and v's n characters after the first m.
Begins(t, u, n) == \A k \in 1..n : t[k] = u[k]
Follows(t, m, v, n) == \A k \in 1..n : t[m + k] = v[k]

\* Two texts, one after the other.
LEMMA JoinIs ==
  ASSUME NEW S, NEW u, NEW v, NEW a, NEW b, Long(u, a, S), Long(v, b, S)
  PROVE  /\ Long(u \o v, a + b, S)
         /\ Begins(u \o v, u, a)
         /\ Follows(u \o v, a, v, b)
<1>0. u \in Seq(S) /\ v \in Seq(S) /\ a \in Nat /\ b \in Nat /\ a = Len(u) /\ b = Len(v)
  BY DEF Long
<1>1. u \o v \in Seq(S) /\ Len(u \o v) = a + b
  BY <1>0, ConcatProperties
<1>2. \A k \in 1..(a + b) : (u \o v)[k] = IF k <= a THEN u[k] ELSE v[k - a]
  BY <1>0, ConcatProperties
<1>3. ASSUME NEW k \in 1..a PROVE (u \o v)[k] = u[k]
  <2>1. k \in 1..(a + b) /\ k <= a
    BY <1>0
  <2> QED
    BY <1>2, <2>1
<1>4. ASSUME NEW k \in 1..b PROVE (u \o v)[a + k] = v[k]
  <2>1. a + k \in 1..(a + b) /\ ~(a + k <= a) /\ (a + k) - a = k
    BY <1>0
  <2> QED
    BY <1>2, <2>1
<1>5. Long(u \o v, a + b, S)
  BY <1>0, <1>1 DEF Long
<1> QED
  BY <1>3, <1>4, <1>5 DEF Begins, Follows

\* What stands where in a parted text.
LEMMA PartsJoined ==
  ASSUME NEW S, NEW u, NEW v, NEW w, NEW c \in S, NEW a \in Nat, NEW d \in Nat, NEW f \in Nat,
         Long(u, a, S), Long(v, d, S), Long(w, f, S)
  PROVE  /\ Long(Parted(u, v, w, c), a + d + 2 + f, S)
         /\ Begins(Parted(u, v, w, c), u, a)
         /\ Follows(Parted(u, v, w, c), a + 1, v, d)
         /\ Follows(Parted(u, v, w, c), a + d + 2, w, f)
         /\ Parted(u, v, w, c)[a + 1] = c
         /\ Parted(u, v, w, c)[a + d + 2] = c
<1>0. PICK i \in Nat, b \in Nat, g \in Nat, e \in Nat :
        i = 1 /\ b = a + i /\ g = b + d /\ e = g + i
  <2>1. \E b \in Nat : b = a + 1
    OBVIOUS
  <2>2. \A b \in Nat : \E g \in Nat : g = b + d
    OBVIOUS
  <2>3. \A g \in Nat : \E e \in Nat : e = g + 1
    OBVIOUS
  <2> QED
    BY <2>1, <2>2, <2>3
<1>1. PICK c1 : Long(c1, i, S) /\ c1[i] = c /\ c1 = <<c>>
  <2>1. Long(<<c>>, 1, S) /\ <<c>>[1] = c
    BY DEF Long
  <2> QED
    BY <1>0, <2>1
<1>2. PICK t1 : t1 = u \o c1
  OBVIOUS
<1>3. Long(t1, b, S)
  <2>1. Long(u \o c1, a + i, S)
    BY <1>1, JoinIs
  <2> QED
    BY <1>0, <1>2, <2>1
<1>4. \A k \in 1..a : t1[k] = u[k]
  <2>1. Begins(t1, u, a)
    BY <1>2, <1>1, JoinIs
  <2> QED
    BY <2>1 DEF Begins
<1>5. \A k \in 1..i : t1[a + k] = c1[k]
  <2>1. Follows(t1, a, c1, i)
    BY <1>2, <1>1, JoinIs
  <2> QED
    BY <2>1 DEF Follows
<1>6. PICK t2 : t2 = t1 \o v
  OBVIOUS
<1>7. Long(t2, g, S)
  <2>1. Long(t1 \o v, b + d, S)
    BY <1>3, JoinIs
  <2> QED
    BY <1>0, <1>6, <2>1
<1>8. \A k \in 1..b : t2[k] = t1[k]
  <2>1. Begins(t2, t1, b)
    BY <1>6, <1>3, JoinIs
  <2> QED
    BY <2>1 DEF Begins
<1>9. \A k \in 1..d : t2[b + k] = v[k]
  <2>1. Follows(t2, b, v, d)
    BY <1>6, <1>3, JoinIs
  <2> QED
    BY <2>1 DEF Follows
<1>10. PICK t3 : t3 = t2 \o c1
  OBVIOUS
<1>11. Long(t3, e, S)
  <2>1. Long(t2 \o c1, g + i, S)
    BY <1>1, <1>7, JoinIs
  <2> QED
    BY <1>0, <1>10, <2>1
<1>12. \A k \in 1..g : t3[k] = t2[k]
  <2>1. Begins(t3, t2, g)
    BY <1>10, <1>1, <1>7, JoinIs
  <2> QED
    BY <2>1 DEF Begins
<1>13. \A k \in 1..i : t3[g + k] = c1[k]
  <2>1. Follows(t3, g, c1, i)
    BY <1>10, <1>1, <1>7, JoinIs
  <2> QED
    BY <2>1 DEF Follows
<1>14. PICK t : t = t3 \o w
  OBVIOUS
<1>15. Long(t, e + f, S)
  <2>1. Long(t3 \o w, e + f, S)
    BY <1>11, JoinIs
  <2> QED
    BY <1>0, <1>14, <2>1
<1>16. \A k \in 1..e : t[k] = t3[k]
  <2>1. Begins(t, t3, e)
    BY <1>14, <1>11, JoinIs
  <2> QED
    BY <2>1 DEF Begins
<1>17. \A k \in 1..f : t[e + k] = w[k]
  <2>1. Follows(t, e, w, f)
    BY <1>14, <1>11, JoinIs
  <2> QED
    BY <2>1 DEF Follows
<1>18. ASSUME NEW k \in 1..a PROVE t[k] = u[k]
  <2>1. k \in 1..b /\ k \in 1..g /\ k \in 1..e
    BY <1>0
  <2> QED
    BY <1>4, <1>8, <1>12, <1>16, <2>1
<1>19. t[a + 1] = c /\ t[a + d + 2] = c
  <2>1. i \in 1..i /\ b \in 1..b /\ b \in 1..g /\ b \in 1..e /\ e \in 1..e
    BY <1>0
  <2>2. b = a + 1 /\ e = a + d + 2 /\ e = g + i /\ b = a + i
    BY <1>0
  <2>3. t1[b] = c
    BY <1>1, <1>5, <2>1, <2>2
  <2>4. t3[e] = c
    BY <1>1, <1>13, <2>1, <2>2
  <2> QED
    BY <1>8, <1>12, <1>16, <2>1, <2>2, <2>3, <2>4
<1>20. ASSUME NEW k \in 1..d PROVE t[a + 1 + k] = v[k]
  <2>1. b + k \in 1..g /\ b + k \in 1..e /\ b + k = a + 1 + k
    BY <1>0
  <2> QED
    BY <1>9, <1>12, <1>16, <2>1
<1>21. ASSUME NEW k \in 1..f PROVE t[a + d + 2 + k] = w[k]
  <2>1. e + k = a + d + 2 + k
    BY <1>0
  <2> QED
    BY <1>17, <2>1
<1>22. Parted(u, v, w, c) = t
  BY <1>1, <1>2, <1>6, <1>10, <1>14 DEF Parted
<1>23. Long(t, a + d + 2 + f, S)
  BY <1>0, <1>15
<1> QED
  BY <1>18, <1>19, <1>20, <1>21, <1>22, <1>23 DEF Begins, Follows

\* The digits of a number are the same wherever they stand.
LEMMA TwoMoved ==
  ASSUME NEW S, NEW T, NEW s \in Seq(S), NEW t \in Seq(T), NEW n, NEW p \in Nat, NEW q \in Nat,
         Two(s, p, n), q >= 1, q + 1 <= Len(t), t[q] = s[p], t[q + 1] = s[p + 1]
  PROVE  Two(t, q, n)
<1>1. q \in DOMAIN t /\ q + 1 \in DOMAIN t
  OBVIOUS
<1>2. IsDigit(t, q) /\ IsDigit(t, q + 1)
  BY <1>1 DEF Two, IsDigit, Has
<1> QED
  BY <1>2 DEF Two

LEMMA FourMoved ==
  ASSUME NEW S, NEW T, NEW s \in Seq(S), NEW t \in Seq(T), NEW n, NEW p \in Nat, NEW q \in Nat,
         Four(s, p, n), q >= 1, q + 3 <= Len(t), t[q] = s[p], t[q + 1] = s[p + 1],
         t[q + 2] = s[p + 2], t[q + 3] = s[p + 3]
  PROVE  Four(t, q, n)
<1>1. s[p] \in Digits /\ s[p + 1] \in Digits /\ s[p + 2] \in Digits /\ s[p + 3] \in Digits
  <2>1. p \in p..(p + 3) /\ p + 1 \in p..(p + 3) /\ p + 2 \in p..(p + 3) /\ p + 3 \in p..(p + 3)
    OBVIOUS
  <2> QED
    BY <2>1 DEF Four, IsDigit, Has
<1>2. \A k \in q..(q + 3) : IsDigit(t, k)
  <2> TAKE k \in q..(q + 3)
  <2>1. k \in DOMAIN t /\ (k = q \/ k = q + 1 \/ k = q + 2 \/ k = q + 3)
    OBVIOUS
  <2> QED
    BY <1>1, <2>1 DEF IsDigit, Has
<1>3. n = 1000 * DigitValue[t[q]] + 100 * DigitValue[t[q + 1]]
          + 10 * DigitValue[t[q + 2]] + DigitValue[t[q + 3]]
  BY DEF Four
<1> QED
  BY <1>2, <1>3 DEF Four

\* A format that begins with the year; the others end with it.
YearFirst(f) == f \in {"Iso", "IsoSlash"}

\* The characters of s from p on are a date as f lays it out, of these numbers.
Laid(s, p, f, y, m, d) ==
  IF YearFirst(f)
  THEN /\ Four(s, p, y) /\ Two(s, p + 5, m) /\ Two(s, p + 8, d)
       /\ Has(s, p + 4, {DateSeparator(f)}) /\ Has(s, p + 7, {DateSeparator(f)})
  ELSE /\ Has(s, p + 2, {DateSeparator(f)}) /\ Has(s, p + 5, {DateSeparator(f)})
       /\ Four(s, p + 6, y)
       /\ IF f = "MdySlash" THEN Two(s, p, m) /\ Two(s, p + 3, d)
          ELSE Two(s, p, d) /\ Two(s, p + 3, m)

\* The numbers four digits and two digits spell.
Spellable(x) ==
  x.y \in Nat /\ x.y <= 9999 /\ x.m \in Nat /\ x.m <= 99 /\ x.d \in Nat /\ x.d <= 99

\* A date is spelled as its format lays it out.
LEMMA SpelledIs ==
  ASSUME NEW x, Spellable(x), NEW f \in DateFormats
  PROVE  /\ Spelled(x, f) \in Seq(PageChars) /\ Len(Spelled(x, f)) = 10
         /\ Laid(Spelled(x, f), 1, f, x.y, x.m, x.d)
<1>1. PICK yy, mm, dd :
        /\ yy = Padded(x.y, 4) /\ mm = Padded(x.m, 2) /\ dd = Padded(x.d, 2)
  OBVIOUS
<1>2. /\ yy \in Seq(Digits) /\ Len(yy) = 4 /\ Four(yy, 1, x.y)
      /\ mm \in Seq(Digits) /\ Len(mm) = 2 /\ Two(mm, 1, x.m)
      /\ dd \in Seq(Digits) /\ Len(dd) = 2 /\ Two(dd, 1, x.d)
  <2>1. /\ x.y \in Nat /\ x.y <= 9999 /\ x.m \in Nat /\ x.m <= 99 /\ x.d \in Nat /\ x.d <= 99
    BY DEF Spellable
  <2>2. yy \in Seq(Digits) /\ Len(yy) = 4 /\ Four(yy, 1, x.y)
    BY <1>1, <2>1, PaddedFour
  <2>3. mm \in Seq(Digits) /\ Len(mm) = 2 /\ Two(mm, 1, x.m)
    BY <1>1, <2>1, PaddedTwo
  <2>4. dd \in Seq(Digits) /\ Len(dd) = 2 /\ Two(dd, 1, x.d)
    BY <1>1, <2>1, PaddedTwo
  <2> QED
    BY <2>2, <2>3, <2>4
<1>3. yy \in Seq(PageChars) /\ mm \in Seq(PageChars) /\ dd \in Seq(PageChars)
  <2>1. Digits \subseteq PageChars
    BY DEF PageChars
  <2> HIDE DEF PageChars
  <2> QED
    BY <1>2, <2>1
<1>4. PICK c \in PageChars : c = DateSeparator(f)
  BY SeparatorIs DEF PageChars
<1>5. PICK t : t = Spelled(x, f)
  OBVIOUS
<1>6. CASE YearFirst(f)
  <2>1. t = yy \o <<c>> \o mm \o <<c>> \o dd
    BY <1>1, <1>4, <1>5, <1>6 DEF YearFirst, Spelled, DateFields, Width
  <2>2. /\ t \in Seq(PageChars) /\ Len(t) = 4 + 2 + 2 + 2
        /\ \A k \in 1..4 : t[k] = yy[k]
        /\ \A k \in 1..2 : t[4 + 1 + k] = mm[k]
        /\ \A k \in 1..2 : t[4 + 2 + 2 + k] = dd[k]
        /\ t[4 + 1] = c /\ t[4 + 2 + 2] = c
    <3>1. PICK a \in Nat, e \in Nat, n \in Nat : a = 4 /\ e = 2 /\ n = 2
      OBVIOUS
    <3>2. Long(yy, a, PageChars) /\ Long(mm, e, PageChars) /\ Long(dd, n, PageChars)
      BY <1>2, <1>3, <3>1 DEF Long
    <3>3. t = Parted(yy, mm, dd, c)
      BY <2>1 DEF Parted
    <3>4. Long(t, a + e + 2 + n, PageChars)
      BY <3>2, <3>3, PartsJoined
    <3>5. Begins(t, yy, a) /\ Follows(t, a + 1, mm, e)
      BY <3>2, <3>3, PartsJoined
    <3>6. Follows(t, a + e + 2, dd, n)
      BY <3>2, <3>3, PartsJoined
    <3>7. t[a + 1] = c /\ t[a + e + 2] = c
      BY <3>2, <3>3, PartsJoined
    <3> QED
      BY <3>1, <3>4, <3>5, <3>6, <3>7 DEF Long, Begins, Follows
  <2>3. Has(t, 5, {c}) /\ Has(t, 8, {c})
    BY <2>2 DEF Has
  <2>4. Four(t, 1, x.y)
    BY <1>2, <2>2, FourMoved
  <2>5. Two(t, 6, x.m) /\ Two(t, 9, x.d)
    <3>1. t[6] = mm[1] /\ t[7] = mm[2] /\ t[9] = dd[1] /\ t[10] = dd[2]
      BY <2>2
    <3>2. t \in Seq(PageChars) /\ Len(t) = 10
      BY <2>2
    <3>3. Two(t, 6, x.m)
      BY <1>2, <3>1, <3>2, TwoMoved
    <3>4. Two(t, 9, x.d)
      BY <1>2, <3>1, <3>2, TwoMoved
    <3> QED
      BY <3>3, <3>4
  <2> QED
    BY <1>4, <1>5, <1>6, <2>2, <2>3, <2>4, <2>5 DEF Laid
<1>7. CASE ~YearFirst(f)
  <2>1. PICK u, v, i, j : IF f = "MdySlash" THEN u = mm /\ v = dd /\ i = x.m /\ j = x.d
                          ELSE u = dd /\ v = mm /\ i = x.d /\ j = x.m
    OBVIOUS
  <2>2. t = u \o <<c>> \o v \o <<c>> \o yy
    BY <1>1, <1>4, <1>5, <1>7, <2>1 DEF YearFirst, Spelled, DateFields, Width, DateFormats
  <2>3. /\ u \in Seq(Digits) /\ v \in Seq(Digits) /\ u \in Seq(PageChars) /\ v \in Seq(PageChars)
        /\ Len(u) = 2 /\ Len(v) = 2 /\ Two(u, 1, i) /\ Two(v, 1, j)
    BY <1>2, <1>3, <2>1
  <2>4. /\ t \in Seq(PageChars) /\ Len(t) = 2 + 2 + 2 + 4
        /\ \A k \in 1..2 : t[k] = u[k]
        /\ \A k \in 1..2 : t[2 + 1 + k] = v[k]
        /\ \A k \in 1..4 : t[2 + 2 + 2 + k] = yy[k]
        /\ t[2 + 1] = c /\ t[2 + 2 + 2] = c
    <3>1. PICK a \in Nat, e \in Nat, n \in Nat : a = 2 /\ e = 2 /\ n = 4
      OBVIOUS
    <3>2. Long(u, a, PageChars) /\ Long(v, e, PageChars) /\ Long(yy, n, PageChars)
      BY <1>2, <1>3, <2>3, <3>1 DEF Long
    <3>3. t = Parted(u, v, yy, c)
      BY <2>2 DEF Parted
    <3>4. Long(t, a + e + 2 + n, PageChars)
      BY <3>2, <3>3, PartsJoined
    <3>5. Begins(t, u, a) /\ Follows(t, a + 1, v, e)
      BY <3>2, <3>3, PartsJoined
    <3>6. Follows(t, a + e + 2, yy, n)
      BY <3>2, <3>3, PartsJoined
    <3>7. t[a + 1] = c /\ t[a + e + 2] = c
      BY <3>2, <3>3, PartsJoined
    <3> QED
      BY <3>1, <3>4, <3>5, <3>6, <3>7 DEF Long, Begins, Follows
  <2>5. Has(t, 3, {c}) /\ Has(t, 6, {c})
    BY <2>4 DEF Has
  <2>6. Four(t, 7, x.y)
    <3>1. t[7] = yy[1] /\ t[8] = yy[2] /\ t[9] = yy[3] /\ t[10] = yy[4]
      BY <2>4
    <3>2. t \in Seq(PageChars) /\ Len(t) = 10
      BY <2>4
    <3>3. yy \in Seq(Digits) /\ Four(yy, 1, x.y)
      BY <1>2
    <3> QED
      BY <3>1, <3>2, <3>3, FourMoved
  <2>7. Two(t, 1, i) /\ Two(t, 4, j)
    BY <2>3, <2>4, TwoMoved, SMTT(30)
  <2> QED
    BY <1>4, <1>5, <1>7, <2>1, <2>4, <2>5, <2>6, <2>7 DEF Laid
<1> QED
  BY <1>5, <1>6, <1>7

\* The characters from p to q are digits exactly when each of them is.
LEMMA DigitsFromTo ==
  ASSUME NEW S, NEW s \in Seq(S), NEW p \in Nat, NEW q \in Nat, p >= 1, p <= q, q <= Len(s)
  PROVE  /\ Len(SubSeq(s, p, q)) = q - p + 1
         /\ \A k \in 1..(q - p + 1) : SubSeq(s, p, q)[k] = s[p + k - 1]
         /\ Range(SubSeq(s, p, q)) \subseteq Digits <=> \A k \in p..q : IsDigit(s, k)
<1> DEFINE t == SubSeq(s, p, q)
<1>1. Len(t) = q - p + 1 /\ DOMAIN t = 1..(q - p + 1) /\ \A k \in 1..(q - p + 1) : t[k] = s[p + k - 1]
  OBVIOUS
<1> HIDE DEF t
<1>2. ASSUME Range(t) \subseteq Digits, NEW k \in p..q PROVE IsDigit(s, k)
  <2>1. k - p + 1 \in 1..(q - p + 1) /\ p + (k - p + 1) - 1 = k
    OBVIOUS
  <2>2. t[k - p + 1] = s[k]
    BY <1>1, <2>1
  <2>3. t[k - p + 1] \in Range(t)
    BY <1>1, <2>1 DEF Range
  <2> QED
    BY <1>2, <2>2, <2>3 DEF IsDigit, Has
<1>3. ASSUME \A k \in p..q : IsDigit(s, k), NEW c \in Range(t) PROVE c \in Digits
  <2>1. PICK k \in 1..(q - p + 1) : c = t[k]
    BY <1>1, <1>3 DEF Range
  <2>2. p + k - 1 \in p..q
    OBVIOUS
  <2> QED
    BY <1>1, <1>3, <2>1, <2>2 DEF IsDigit, Has
<1> QED
  BY <1>1, <1>2, <1>3 DEF t

\* The code parses the number that digits spell.
LEMMA TwoRead ==
  ASSUME NEW S, NEW s \in Seq(S), NEW p \in Nat, NEW q \in Nat, q = p + 1, NEW n, Two(s, p, n)
  PROVE  Range(SubSeq(s, p, q)) \subseteq Digits /\ NumberOf(SubSeq(s, p, q)) = n
<1>1. IsDigit(s, p) /\ IsDigit(s, q) /\ p >= 1 /\ q <= Len(s)
  BY Positions DEF Two
<1>2. \A k \in p..q : IsDigit(s, k)
  BY <1>1
<1> DEFINE t == SubSeq(s, p, q)
<1>3. Range(t) \subseteq Digits
  BY <1>1, <1>2, DigitsFromTo
<1>4. Len(t) = 2 /\ t[1] = s[p] /\ t[2] = s[p + 1]
  BY <1>1
<1> HIDE DEF t
<1>5. t[1] \in Digits /\ t[2] \in Digits
  BY <1>1, <1>4 DEF IsDigit, Has
<1>6. DigitValue[t[1]] \in Int /\ DigitValue[t[2]] \in Int
  BY <1>5, ValueIs
<1>7. NumberOf(t) = 10 * DigitValue[t[1]] + DigitValue[t[2]]
  BY <1>4, <1>6, NumberOfTwo
<1>8. n = 10 * DigitValue[s[p]] + DigitValue[s[p + 1]]
  BY DEF Two
<1> QED
  BY <1>3, <1>4, <1>7, <1>8 DEF t

LEMMA FourRead ==
  ASSUME NEW S, NEW s \in Seq(S), NEW p \in Nat, NEW q \in Nat, q = p + 3, NEW n, Four(s, p, n)
  PROVE  Range(SubSeq(s, p, q)) \subseteq Digits /\ NumberOf(SubSeq(s, p, q)) = n
<1>1. \A k \in p..q : IsDigit(s, k)
  BY DEF Four
<1>2. p >= 1 /\ q <= Len(s)
  <2>1. p \in p..q /\ q \in p..q
    OBVIOUS
  <2> QED
    BY <1>1, <2>1, Positions
<1> DEFINE t == SubSeq(s, p, q)
<1>3. Range(t) \subseteq Digits
  <2>1. p <= q
    OBVIOUS
  <2>2. Range(SubSeq(s, p, q)) \subseteq Digits <=> \A k \in p..q : IsDigit(s, k)
    BY <1>2, <2>1, DigitsFromTo
  <2> QED
    BY <1>1, <2>2
<1>4. Len(t) = 4 /\ t[1] = s[p] /\ t[2] = s[p + 1] /\ t[3] = s[p + 2] /\ t[4] = s[p + 3]
  BY <1>2
<1> HIDE DEF t
<1>5. \A k \in 1..4 : t[k] \in Digits
  <2>1. p \in p..q /\ p + 1 \in p..q /\ p + 2 \in p..q /\ p + 3 \in p..q
    OBVIOUS
  <2> QED
    BY <1>1, <1>4, <2>1 DEF IsDigit, Has
<1>6. \A k \in 1..4 : DigitValue[t[k]] \in Int
  BY <1>5, ValueIs
<1>7. NumberOf(t) = 1000 * DigitValue[t[1]] + 100 * DigitValue[t[2]]
                    + 10 * DigitValue[t[3]] + DigitValue[t[4]]
  BY <1>4, <1>6, NumberOfFour, ZenonT(60)
<1>8. n = 1000 * DigitValue[s[p]] + 100 * DigitValue[s[p + 1]]
          + 10 * DigitValue[s[p + 2]] + DigitValue[s[p + 3]]
  BY DEF Four
<1> QED
  BY <1>3, <1>4, <1>7, <1>8 DEF t

\* Where the code looks for the fields of a format ...
FirstText(s, p, f)  == IF YearFirst(f) THEN SubSeq(s, p, p + 3) ELSE SubSeq(s, p, p + 1)
SecondText(s, p, f) == IF YearFirst(f) THEN SubSeq(s, p + 5, p + 6) ELSE SubSeq(s, p + 3, p + 4)
ThirdText(s, p, f)  == IF YearFirst(f) THEN SubSeq(s, p + 8, p + 9) ELSE SubSeq(s, p + 6, p + 9)

LEMMA TextsAre ==
  ASSUME NEW s, NEW p \in Nat, NEW f \in DateFormats
  PROVE  /\ FieldText(s, p, f, 1) = FirstText(s, p, f)
         /\ FieldText(s, p, f, 2) = SecondText(s, p, f)
         /\ FieldText(s, p, f, 3) = ThirdText(s, p, f)
         /\ Offset(f, 2) = IF YearFirst(f) THEN 5 ELSE 3
         /\ Offset(f, 3) = IF YearFirst(f) THEN 8 ELSE 6
<1>1. CASE YearFirst(f)
  <2>1. DateFields(f) = <<"y", "m", "d">>
    BY <1>1 DEF YearFirst, DateFields
  <2>2. /\ Offset(f, 1) = 0 /\ Offset(f, 2) = 5 /\ Offset(f, 3) = 8
        /\ Width(DateFields(f)[1]) = 4 /\ Width(DateFields(f)[2]) = 2 /\ Width(DateFields(f)[3]) = 2
    BY <2>1 DEF Offset, Width
  <2> QED
    BY <1>1, <2>2 DEF FieldText, FirstText, SecondText, ThirdText
<1>2. CASE ~YearFirst(f)
  <2>1. DateFields(f) = <<"m", "d", "y">> \/ DateFields(f) = <<"d", "m", "y">>
    BY <1>2 DEF YearFirst, DateFields
  <2>2. /\ Offset(f, 1) = 0 /\ Offset(f, 2) = 3 /\ Offset(f, 3) = 6
        /\ Width(DateFields(f)[1]) = 2 /\ Width(DateFields(f)[2]) = 2 /\ Width(DateFields(f)[3]) = 4
    BY <2>1 DEF Offset, Width
  <2> QED
    BY <1>2, <2>2 DEF FieldText, FirstText, SecondText, ThirdText
<1> QED
  BY <1>1, <1>2

\* ... and what it asks of them before it looks at their numbers.
Shaped(s, p, f) ==
  /\ p + 9 <= Len(s)
  /\ Range(FirstText(s, p, f)) \subseteq Digits
  /\ Range(SecondText(s, p, f)) \subseteq Digits
  /\ Range(ThirdText(s, p, f)) \subseteq Digits
  /\ Has(s, IF YearFirst(f) THEN p + 4 ELSE p + 2, {DateSeparator(f)})
  /\ Has(s, IF YearFirst(f) THEN p + 7 ELSE p + 5, {DateSeparator(f)})

Numbers(s, p, f) ==
  LET i == NumberOf(FirstText(s, p, f))
      j == NumberOf(SecondText(s, p, f))
      k == NumberOf(ThirdText(s, p, f))
  IN IF YearFirst(f) THEN Date(i, j, k)
     ELSE IF f = "MdySlash" THEN Date(k, i, j) ELSE Date(k, j, i)

LEMMA IsoIs ==
  ASSUME NEW x, NEW z, x.y = z.y, x.m = z.m, x.d = z.d
  PROVE  Spelled(x, "Iso") = Spelled(z, "Iso")
  BY DEF Spelled, DateFields, Width

LEMMA DateAtIs ==
  ASSUME NEW s, NEW p \in Nat, NEW f \in DateFormats, NEW x, x = Numbers(s, p, f)
  PROVE  DateAt(s, p, f) =
           IF Shaped(s, p, f) /\ StandsAlone(s, p) /\ ValidYmd(x.y, x.m, x.d)
           THEN Spelled(x, "Iso") ELSE None
<1> DEFINE F == DateFields(f)
           shaped == /\ p + 9 <= Len(s)
                     /\ \A k \in 1..3 : Range(FieldText(s, p, f, k)) \subseteq Digits
                     /\ \A k \in 2..3 : Has(s, p + Offset(f, k) - 1, {DateSeparator(f)})
           At(g) == CHOOSE k \in 1..3 : F[k] = g
           stated == [g \in Range(F) |-> NumberOf(FieldText(s, p, f, At(g)))]
<1>1. DateAt(s, p, f) = IF shaped /\ StandsAlone(s, p) /\ ValidYmd(stated.y, stated.m, stated.d)
                        THEN Spelled(stated, "Iso") ELSE None
  BY DEF DateAt
<1>2. shaped <=> Shaped(s, p, f)
  <2>1. Offset(f, 2) \in Int /\ Offset(f, 3) \in Int
    BY TextsAre
  <2>2. /\ p + Offset(f, 2) - 1 = IF YearFirst(f) THEN p + 4 ELSE p + 2
        /\ p + Offset(f, 3) - 1 = IF YearFirst(f) THEN p + 7 ELSE p + 5
    BY TextsAre
  <2>3. (\A k \in 1..3 : Range(FieldText(s, p, f, k)) \subseteq Digits)
        <=> /\ Range(FirstText(s, p, f)) \subseteq Digits
            /\ Range(SecondText(s, p, f)) \subseteq Digits
            /\ Range(ThirdText(s, p, f)) \subseteq Digits
    <3>1. 1 \in 1..3 /\ 2 \in 1..3 /\ 3 \in 1..3 /\ \A k \in 1..3 : k = 1 \/ k = 2 \/ k = 3
      OBVIOUS
    <3> QED
      BY <3>1, TextsAre, Zenon
  <2>4. (\A k \in 2..3 : Has(s, p + Offset(f, k) - 1, {DateSeparator(f)}))
        <=> /\ Has(s, p + Offset(f, 2) - 1, {DateSeparator(f)})
            /\ Has(s, p + Offset(f, 3) - 1, {DateSeparator(f)})
    <3>1. 2 \in 2..3 /\ 3 \in 2..3 /\ \A k \in 2..3 : k = 2 \/ k = 3
      OBVIOUS
    <3> QED
      BY <3>1, Zenon
  <2> QED
    BY <2>2, <2>3, <2>4, Zenon DEF Shaped
<1>3. /\ At("y") = IF YearFirst(f) THEN 1 ELSE 3
      /\ At("m") = IF YearFirst(f) THEN 2 ELSE IF f = "MdySlash" THEN 1 ELSE 2
      /\ At("d") = IF YearFirst(f) THEN 3 ELSE IF f = "MdySlash" THEN 2 ELSE 1
      /\ Range(F) = {"y", "m", "d"}
  <2>1. F = IF YearFirst(f) THEN <<"y", "m", "d">>
            ELSE IF f = "MdySlash" THEN <<"m", "d", "y">> ELSE <<"d", "m", "y">>
    BY DEF DateFields, YearFirst
  <2> HIDE DEF F
  <2>2. CASE F = <<"y", "m", "d">> /\ YearFirst(f)
    BY <2>2 DEF Range
  <2>3. CASE F = <<"m", "d", "y">> /\ ~YearFirst(f) /\ f = "MdySlash"
    BY <2>3 DEF Range
  <2>4. CASE F = <<"d", "m", "y">> /\ ~YearFirst(f) /\ f # "MdySlash"
    BY <2>4 DEF Range
  <2> QED
    BY <2>1, <2>2, <2>3, <2>4
<1> HIDE DEF shaped, At, F
<1>4. stated.y = x.y /\ stated.m = x.m /\ stated.d = x.d
  <2>1. /\ stated.y = NumberOf(FieldText(s, p, f, At("y")))
        /\ stated.m = NumberOf(FieldText(s, p, f, At("m")))
        /\ stated.d = NumberOf(FieldText(s, p, f, At("d")))
    BY <1>3
  <2> HIDE DEF stated
  <2> QED
    BY <1>3, <2>1, TextsAre DEF Numbers, Date
<1> HIDE DEF stated
<1>5. Spelled(stated, "Iso") = Spelled(x, "Iso")
  BY <1>4, IsoIs
<1> QED
  BY <1>1, <1>2, <1>4, <1>5, Zenon

\* A date is read where it is laid out, if it is one and stands alone.
LEMMA LaidIsRead ==
  ASSUME NEW S, NEW s \in Seq(S), NEW p \in Nat, NEW f \in DateFormats,
         NEW y \in Nat, NEW m \in Nat, NEW d \in Nat, Laid(s, p, f, y, m, d), p + 9 <= Len(s)
  PROVE  DateAt(s, p, f) = IF StandsAlone(s, p) /\ ValidYmd(y, m, d)
                           THEN Spelled(Date(y, m, d), "Iso") ELSE None
<1>1. Shaped(s, p, f) /\ Numbers(s, p, f) = Date(y, m, d)
  <2>1. CASE YearFirst(f)
    <3>1. /\ Four(s, p, y) /\ Two(s, p + 5, m) /\ Two(s, p + 8, d)
          /\ Has(s, p + 4, {DateSeparator(f)}) /\ Has(s, p + 7, {DateSeparator(f)})
      BY <2>1 DEF Laid
    <3>2. Range(FirstText(s, p, f)) \subseteq Digits /\ NumberOf(FirstText(s, p, f)) = y
      BY <2>1, <3>1, FourRead DEF FirstText
    <3>3. Range(SecondText(s, p, f)) \subseteq Digits /\ NumberOf(SecondText(s, p, f)) = m
      BY <2>1, <3>1, TwoRead DEF SecondText
    <3>4. Range(ThirdText(s, p, f)) \subseteq Digits /\ NumberOf(ThirdText(s, p, f)) = d
      BY <2>1, <3>1, TwoRead DEF ThirdText
    <3>5. Shaped(s, p, f)
      BY <2>1, <3>1, <3>2, <3>3, <3>4 DEF Shaped
    <3> QED
      BY <2>1, <3>2, <3>3, <3>4, <3>5 DEF Numbers
  <2>2. CASE ~YearFirst(f)
    <3>0. PICK i \in Nat, j \in Nat : IF f = "MdySlash" THEN i = m /\ j = d ELSE i = d /\ j = m
      OBVIOUS
    <3>1. /\ Two(s, p, i) /\ Two(s, p + 3, j) /\ Four(s, p + 6, y)
          /\ Has(s, p + 2, {DateSeparator(f)}) /\ Has(s, p + 5, {DateSeparator(f)})
      BY <2>2, <3>0 DEF Laid
    <3>2. Range(FirstText(s, p, f)) \subseteq Digits /\ NumberOf(FirstText(s, p, f)) = i
      BY <2>2, <3>1, TwoRead DEF FirstText
    <3>3. Range(SecondText(s, p, f)) \subseteq Digits /\ NumberOf(SecondText(s, p, f)) = j
      BY <2>2, <3>1, TwoRead DEF SecondText
    <3>4. Range(ThirdText(s, p, f)) \subseteq Digits /\ NumberOf(ThirdText(s, p, f)) = y
      BY <2>2, <3>1, FourRead DEF ThirdText
    <3>5. Shaped(s, p, f)
      BY <2>2, <3>1, <3>2, <3>3, <3>4 DEF Shaped
    <3> QED
      BY <2>2, <3>0, <3>2, <3>3, <3>4, <3>5 DEF Numbers
  <2> QED
    BY <2>1, <2>2
<1>2. Date(y, m, d).y = y /\ Date(y, m, d).m = m /\ Date(y, m, d).d = d
  BY DEF Date
<1> QED
  BY <1>1, <1>2, DateAtIs

\* Where something is read, these characters have the format's shape.
LEMMA ReadHasShape ==
  ASSUME NEW S, NEW s \in Seq(S), NEW p \in Nat, p >= 1, NEW f \in DateFormats,
         DateAt(s, p, f) # None
  PROVE  /\ p + 9 <= Len(s) /\ ~IsDigit(s, p - 1) /\ ~IsDigit(s, p + 10) /\ IsDigit(s, p + 9)
         /\ YearFirst(f) => IsDigit(s, p + 2) /\ s[p + 4] = DateSeparator(f)
         /\ ~YearFirst(f) => s[p + 2] = DateSeparator(f)
<1>1. PICK x : x = Numbers(s, p, f)
  OBVIOUS
<1>2. Shaped(s, p, f) /\ StandsAlone(s, p)
  BY <1>1, DateAtIs
<1>3. p + 9 <= Len(s)
  BY <1>2 DEF Shaped
<1>4. ~IsDigit(s, p - 1) /\ ~IsDigit(s, p + 10)
  BY <1>2 DEF StandsAlone
<1>5. CASE YearFirst(f)
  <2>1. /\ Range(SubSeq(s, p, p + 3)) \subseteq Digits /\ Range(SubSeq(s, p + 8, p + 9)) \subseteq Digits
        /\ Has(s, p + 4, {DateSeparator(f)})
    BY <1>2, <1>5 DEF Shaped, FirstText, ThirdText
  <2>2. \A k \in p..(p + 3) : IsDigit(s, k)
    <3>1. p + 3 \in Nat /\ p <= p + 3 /\ p + 3 <= Len(s)
      BY <1>3
    <3>2. Range(SubSeq(s, p, p + 3)) \subseteq Digits <=> \A k \in p..(p + 3) : IsDigit(s, k)
      BY <3>1, DigitsFromTo
    <3> QED
      BY <2>1, <3>2
  <2>3. \A k \in (p + 8)..(p + 9) : IsDigit(s, k)
    BY <1>3, <2>1, DigitsFromTo
  <2>4. p + 2 \in p..(p + 3) /\ p + 9 \in (p + 8)..(p + 9)
    OBVIOUS
  <2>5. s[p + 4] = DateSeparator(f)
    BY <2>1 DEF Has
  <2> QED
    BY <1>3, <1>4, <1>5, <2>2, <2>3, <2>4, <2>5
<1>6. CASE ~YearFirst(f)
  <2>1. /\ Range(SubSeq(s, p + 6, p + 9)) \subseteq Digits
        /\ Has(s, p + 2, {DateSeparator(f)})
    BY <1>2, <1>6 DEF Shaped, ThirdText
  <2>2. \A k \in (p + 6)..(p + 9) : IsDigit(s, k)
    <3>1. /\ p + 6 \in Nat /\ p + 9 \in Nat
          /\ p + 6 >= 1 /\ p + 6 <= p + 9 /\ p + 9 <= Len(s)
      BY <1>3
    <3>2. Range(SubSeq(s, p + 6, p + 9)) \subseteq Digits
          <=> \A k \in (p + 6)..(p + 9) : IsDigit(s, k)
      BY <3>1, DigitsFromTo
    <3> QED
      BY <2>1, <3>2
  <2>3. p + 9 \in (p + 6)..(p + 9)
    OBVIOUS
  <2>4. s[p + 2] = DateSeparator(f)
    BY <2>1 DEF Has
  <2> QED
    BY <1>3, <1>4, <1>6, <2>2, <2>3, <2>4
<1> QED
  BY <1>5, <1>6

-----------------------------------------------------------------------------
(* Pages *)

\* One character more, before a text or behind it.
LEMMA OneMore ==
  ASSUME NEW S, NEW t \in Seq(S), NEW c \in S
  PROVE  /\ <<c>> \o t \in Seq(S) /\ Len(<<c>> \o t) = Len(t) + 1 /\ (<<c>> \o t)[1] = c
         /\ \A k \in 1..Len(t) : (<<c>> \o t)[k + 1] = t[k]
         /\ t \o <<c>> \in Seq(S) /\ Len(t \o <<c>>) = Len(t) + 1 /\ (t \o <<c>>)[Len(t) + 1] = c
         /\ \A k \in 1..Len(t) : (t \o <<c>>)[k] = t[k]
<1>0. PICK n \in Nat : n = Len(t)
  OBVIOUS
<1>1. <<c>> \in Seq(S) /\ Len(<<c>>) = 1 /\ <<c>>[1] = c
  OBVIOUS
<1>2. <<c>> \o t \in Seq(S) /\ Len(<<c>> \o t) = 1 + n
  BY <1>0, <1>1, ConcatProperties
<1>3. t \o <<c>> \in Seq(S) /\ Len(t \o <<c>>) = n + 1
  BY <1>0, <1>1, ConcatProperties
<1>4. \A k \in 1..(1 + n) : (<<c>> \o t)[k] = IF k <= 1 THEN <<c>>[k] ELSE t[k - 1]
  BY <1>0, <1>1, ConcatProperties
<1>5. \A k \in 1..(n + 1) : (t \o <<c>>)[k] = IF k <= n THEN t[k] ELSE <<c>>[k - n]
  BY <1>0, <1>1, ConcatProperties
<1>6. (<<c>> \o t)[1] = c
  BY <1>1, <1>4
<1>7. ASSUME NEW k \in 1..n PROVE (<<c>> \o t)[k + 1] = t[k]
  <2>1. k + 1 \in 1..(1 + n) /\ ~(k + 1 <= 1) /\ (k + 1) - 1 = k
    OBVIOUS
  <2> QED
    BY <1>4, <2>1
<1>8. (t \o <<c>>)[n + 1] = c /\ \A k \in 1..n : (t \o <<c>>)[k] = t[k]
  <2>1. n + 1 \in 1..(n + 1) /\ ~(n + 1 <= n) /\ (n + 1) - n = 1
    OBVIOUS
  <2>2. (t \o <<c>>)[n + 1] = c
    BY <1>1, <1>5, <2>1
  <2>3. ASSUME NEW k \in 1..n PROVE (t \o <<c>>)[k] = t[k]
    <3>1. k \in 1..(n + 1) /\ k <= n
      OBVIOUS
    <3> QED
      BY <1>5, <3>1
  <2> QED
    BY <2>2, <2>3
<1> QED
  BY <1>0, <1>2, <1>3, <1>6, <1>7, <1>8

\* A piece of a text, character by character.
LEMMA PieceIs ==
  ASSUME NEW S, NEW s \in Seq(S), NEW t \in Seq(S), NEW i \in Nat, NEW q \in Nat, i >= 1, q <= Len(s),
         NEW n \in Nat, q = i + n - 1, Len(t) = n,
         NEW j \in Int, j = i - 1, \A k \in 1..n : t[k] = s[j + k]
  PROVE  SubSeq(s, i, q) = t
<1>1. \A k \in i..q : s[k] \in S
  OBVIOUS
<1> DEFINE u == SubSeq(s, i, q)
<1>2. u \in Seq(S)
  BY <1>1, SubSeqProperties
<1>3. Len(u) = IF i <= q THEN q - i + 1 ELSE 0
  BY <1>1, SubSeqProperties
<1>4. \A k \in 1..(q - i + 1) : u[k] = s[i + k - 1]
  BY <1>1, SubSeqProperties
<1> HIDE DEF u
<1>5. Len(u) = n
  BY <1>3
<1>6. ASSUME NEW k \in 1..n PROVE u[k] = t[k]
  <2>1. k \in 1..(q - i + 1) /\ i + k - 1 = j + k
    OBVIOUS
  <2> QED
    BY <1>4, <2>1
<1>7. u = t
  BY <1>2, <1>5, <1>6, SeqEqual
<1> QED
  BY <1>7 DEF u

\* What a page shows behind its anchor is what is read.
LEMMA PageRead ==
  ASSUME NEW t \in Seq(PageChars), NEW f \in DateFormats, NEW page, page = Anchor \o t
  PROVE  ReadAs(page, f) = ReadDate(t, f)
<1>1. "a" \in PageChars /\ Anchor = <<"a">>
  BY DEF PageChars, Anchor
<1>2. /\ page \in Seq(PageChars) /\ Len(page) = Len(t) + 1 /\ page[1] = "a"
      /\ \A k \in 1..Len(t) : page[k + 1] = t[k]
  <2>1. page = <<"a">> \o t
    BY <1>1
  <2>2. page \in Seq(PageChars)
    BY <1>1, <2>1, OneMore
  <2>3. Len(page) = Len(t) + 1
    BY <1>1, <2>1, OneMore
  <2>4. page[1] = "a"
    BY <1>1, <2>1, OneMore
  <2>5. \A k \in 1..Len(t) : page[k + 1] = t[k]
    BY <1>1, <2>1, OneMore
  <2> QED
    BY <2>2, <2>3, <2>4, <2>5
<1>3. PICK n \in Nat : n = Len(page) /\ Len(t) = n - 1 /\ n >= 1
  BY <1>2
<1>4. Len(Anchor) = 1 /\ SubSeq(page, 1, 1 + Len(Anchor) - 1) = Anchor
  <2>1. Len(Anchor) = 1 /\ 1 + 1 - 1 = 1 /\ Anchor \in Seq(PageChars) /\ Anchor[1] = "a"
    BY <1>1
  <2>2. \A k \in 1..1 : Anchor[k] = page[0 + k]
    BY <1>2, <2>1
  <2>3. 0 = 1 - 1 /\ 0 \in Int /\ 1 \in Nat /\ 1 >= 1 /\ 1 <= Len(page) /\ page \in Seq(PageChars)
    BY <1>2, <1>3
  <2>4. SubSeq(page, 1, 1) = Anchor
    BY <2>1, <2>2, <2>3, PieceIs
  <2> QED
    BY <2>1, <2>4
<1>5. Least(Occurrences(page, Anchor)) = 1 /\ Occurrences(page, Anchor) # {}
  <2> DEFINE T == Occurrences(page, Anchor)
  <2>1. T \in SUBSET Nat /\ \A p \in T : p >= 1
    BY <1>3, <1>4 DEF Occurrences
  <2>2. 1 \in T
    BY <1>3, <1>4 DEF Occurrences
  <2> HIDE DEF T
  <2>3. Least(T) \in T /\ Least(T) <= 1
    BY <2>1, <2>2, LeastIs
  <2> QED
    BY <2>1, <2>2, <2>3 DEF T
<1>6. Region(page, Anchor, Len(page)) = SubSeq(page, 2, n)
  <2>1. ~(2 + n - 1 <= n) /\ 1 + 1 = 2
    OBVIOUS
  <2> QED
    BY <1>3, <1>4, <1>5, <2>1 DEF Region
<1>7. SubSeq(page, 2, n) = t
  <2>1. PICK l \in Nat : l = n - 1 /\ n = 2 + l - 1 /\ Len(t) = l /\ n <= Len(page)
    BY <1>3
  <2>2. \A k \in 1..l : t[k] = page[1 + k]
    BY <1>2, <2>1
  <2>3. 1 = 2 - 1 /\ 1 \in Int /\ 2 \in Nat /\ 2 >= 1 /\ page \in Seq(PageChars)
    BY <1>2
  <2> QED
    BY <2>1, <2>2, <2>3, PieceIs
<1> QED
  BY <1>3, <1>5, <1>6, <1>7 DEF ReadAs, ExtractAnchored, Read

\* Ten characters leave room for one position, and one more for a second.
LEMMA FirstRead ==
  ASSUME NEW t \in Seq(PageChars), Len(t) = 11, NEW f \in DateFormats, DateAt(t, 2, f) = None
  PROVE  ReadDate(t, f) = DateAt(t, 1, f)
<1> HIDE DEF PageChars
<1> DEFINE found == {p \in DOMAIN t : DateAt(t, p, f) # None}
<1>1. ASSUME NEW p \in found PROVE p = 1
  <2>1. p \in Nat /\ p >= 1 /\ DateAt(t, p, f) # None
    OBVIOUS
  <2>2. p + 9 <= 11
    BY <2>1, ReadHasShape
  <2> QED
    BY <2>1, <2>2
<1>2. 1 \in DOMAIN t
  OBVIOUS
<1>3. CASE DateAt(t, 1, f) = None
  <2>1. found = {}
    BY <1>1, <1>3
  <2> QED
    BY <1>3, <2>1 DEF ReadDate
<1>4. CASE DateAt(t, 1, f) # None
  <2>1. found = {1}
    BY <1>1, <1>2, <1>4
  <2>2. Least({1}) = 1
    BY DEF Least
  <2> HIDE DEF found
  <2>3. ReadDate(t, f) = IF found = {} THEN None ELSE DateAt(t, Least(found), f)
    BY DEF ReadDate, found
  <2> QED
    BY <2>1, <2>2, <2>3
<1> QED
  BY <1>3, <1>4

\* The shape of what is laid out.
LEMMA LaidShape ==
  ASSUME NEW s, NEW f \in DateFormats, NEW y, NEW m, NEW d, Laid(s, 1, f, y, m, d)
  PROVE  /\ YearFirst(f) => /\ s[3] \in Digits /\ s[4] \in Digits /\ s[6] \in Digits
                            /\ s[5] = DateSeparator(f)
         /\ ~YearFirst(f) => s[2] \in Digits /\ s[4] \in Digits /\ s[3] = DateSeparator(f)
<1>1. CASE YearFirst(f)
  <2>1. Four(s, 1, y) /\ Two(s, 6, m) /\ Has(s, 5, {DateSeparator(f)})
    BY <1>1 DEF Laid
  <2>2. IsDigit(s, 3) /\ IsDigit(s, 4)
    BY <2>1 DEF Four
  <2>3. IsDigit(s, 6)
    BY <2>1 DEF Two
  <2> QED
    BY <1>1, <2>1, <2>2, <2>3 DEF IsDigit, Has
<1>2. CASE ~YearFirst(f)
  <2>1. PICK i, j : Two(s, 1, i) /\ Two(s, 4, j) /\ Has(s, 3, {DateSeparator(f)})
    BY <1>2 DEF Laid
  <2>2. IsDigit(s, 2) /\ IsDigit(s, 4)
    BY <2>1 DEF Two
  <2> QED
    BY <1>2, <2>1, <2>2 DEF IsDigit, Has
<1> QED
  BY <1>1, <1>2

\* A date keeps its place when something follows it.
LEMMA LaidExtends ==
  ASSUME NEW s \in Seq(PageChars), Len(s) = 10, NEW t \in Seq(PageChars), Len(t) = 11,
         \A k \in 1..10 : t[k] = s[k], NEW f \in DateFormats, NEW y, NEW m, NEW d,
         Laid(s, 1, f, y, m, d)
  PROVE  Laid(t, 1, f, y, m, d)
<1> HIDE DEF PageChars
<1>1. /\ t[1] = s[1] /\ t[2] = s[2] /\ t[3] = s[3] /\ t[4] = s[4] /\ t[5] = s[5]
      /\ t[6] = s[6] /\ t[7] = s[7] /\ t[8] = s[8] /\ t[9] = s[9] /\ t[10] = s[10]
  OBVIOUS
<1>2. CASE YearFirst(f)
  <2>1. /\ Four(s, 1, y) /\ Two(s, 6, m) /\ Two(s, 9, d)
        /\ Has(s, 5, {DateSeparator(f)}) /\ Has(s, 8, {DateSeparator(f)})
    BY <1>2 DEF Laid
  <2>2. Four(t, 1, y)
    <3>1. Four(s, 1, y)
      BY <2>1
    <3> QED
      BY <1>1, <3>1, FourMoved, SMTT(30)
  <2>3. Two(t, 6, m) /\ Two(t, 9, d)
    <3>1. Two(t, 6, m)
      BY <1>1, <2>1, TwoMoved
    <3>2. Two(t, 9, d)
      BY <1>1, <2>1, TwoMoved
    <3> QED
      BY <3>1, <3>2
  <2>4. Has(t, 5, {DateSeparator(f)}) /\ Has(t, 8, {DateSeparator(f)})
    BY <1>1, <2>1 DEF Has
  <2> QED
    BY <1>2, <2>2, <2>3, <2>4 DEF Laid
<1>3. CASE ~YearFirst(f)
  <2>0. PICK i, j : IF f = "MdySlash" THEN i = m /\ j = d ELSE i = d /\ j = m
    OBVIOUS
  <2>1. /\ Two(s, 1, i) /\ Two(s, 4, j) /\ Four(s, 7, y)
        /\ Has(s, 3, {DateSeparator(f)}) /\ Has(s, 6, {DateSeparator(f)})
    BY <1>3, <2>0 DEF Laid
  <2>2. Four(t, 7, y)
    <3>1. Four(s, 7, y)
      BY <2>1
    <3> QED
      BY <1>1, <3>1, FourMoved
  <2>3. Two(t, 1, i) /\ Two(t, 4, j)
    <3>1. Two(t, 1, i)
      BY <1>1, <2>1, TwoMoved
    <3>2. Two(t, 4, j)
      BY <1>1, <2>1, TwoMoved
    <3> QED
      BY <3>1, <3>2
  <2>4. Has(t, 3, {DateSeparator(f)}) /\ Has(t, 6, {DateSeparator(f)})
    BY <1>1, <2>1 DEF Has
  <2> QED
    BY <1>3, <2>0, <2>2, <2>3, <2>4 DEF Laid
<1> QED
  BY <1>2, <1>3

\* A spelled date and one more character.
LEMMA FollowedIs ==
  ASSUME NEW x, Spellable(x), NEW f \in DateFormats, NEW c \in PageChars,
         NEW t, t = Spelled(x, f) \o <<c>>
  PROVE  /\ t \in Seq(PageChars) /\ Len(t) = 11 /\ t[11] = c
         /\ Laid(t, 1, f, x.y, x.m, x.d)
<1> HIDE DEF PageChars
<1>1. PICK s \in Seq(PageChars) : s = Spelled(x, f)
  BY SpelledIs
<1>2. t = s \o <<c>>
  BY <1>1
<1>3. t \in Seq(PageChars)
  BY <1>2, OneMore, ZenonT(60)
<1>4. Len(t) = Len(s) + 1
  BY <1>2, OneMore
<1>5. t[Len(s) + 1] = c
  BY <1>2, OneMore
<1>6. \A k \in 1..Len(s) : t[k] = s[k]
  BY <1>2, OneMore
<1>7. Len(s) = 10 /\ Laid(s, 1, f, x.y, x.m, x.d)
  BY <1>1, SpelledIs
<1>8. Len(t) = 11 /\ t[11] = c /\ \A k \in 1..10 : t[k] = s[k]
  BY <1>4, <1>5, <1>6, <1>7
<1> QED
  BY <1>3, <1>7, <1>8, LaidExtends

\* What a reader of a page that spells a date looks at.
LEMMA PageOfDate ==
  ASSUME NEW x, Spellable(x), NEW f \in DateFormats, NEW g \in DateFormats
  PROVE  \E t \in Seq(PageChars) :
           /\ Len(t) = 11 /\ Laid(t, 1, f, x.y, x.m, x.d) /\ StandsAlone(t, 1)
           /\ ReadAs(Page(x, f), g) = DateAt(t, 1, g)
<1>1. "a" \in PageChars /\ "x" \in PageChars /\ "x" \notin Digits
  BY NoDigits DEF PageChars
<1>0. "x" \in PageChars
  BY <1>1
<1>2. PICK t : t = Spelled(x, f) \o <<"x">>
  OBVIOUS
<1>3. t \in Seq(PageChars) /\ Len(t) = 11 /\ t[11] = "x" /\ Laid(t, 1, f, x.y, x.m, x.d)
  <2>0. t \in Seq(PageChars)
    BY <1>0, <1>2, FollowedIs
  <2>1. Len(t) = 11
    BY <1>0, <1>2, FollowedIs, SMTT(30)
  <2>2. t[11] = "x"
    BY <1>0, <1>2, FollowedIs
  <2>3. Laid(t, 1, f, x.y, x.m, x.d)
    BY <1>0, <1>2, FollowedIs
  <2> QED
    BY <2>0, <2>1, <2>2, <2>3
<1>4. Page(x, f) = Anchor \o t
  <2>1. Anchor \in Seq(PageChars) /\ <<"x">> \in Seq(PageChars)
    BY <1>1 DEF Anchor
  <2>2. Spelled(x, f) \in Seq(PageChars)
    BY SpelledIs
  <2>3. (Anchor \o Spelled(x, f)) \o <<"x">> = Anchor \o (Spelled(x, f) \o <<"x">>)
    BY <2>1, <2>2, ConcatAssociative
  <2> QED
    BY <1>2, <2>3 DEF Page
<1>5. ReadAs(Page(x, f), g) = ReadDate(t, g)
  BY <1>3, <1>4, PageRead
<1>6. ~IsDigit(t, 11) /\ ~IsDigit(t, 0)
  BY <1>1, <1>3 DEF IsDigit, Has
<1>7. DateAt(t, 2, g) = None
  <2>1. DateAt(t, 2, g) # None => IsDigit(t, 2 + 9)
    BY <1>3, ReadHasShape
  <2> QED
    BY <1>6, <2>1
<1>8. ReadDate(t, g) = DateAt(t, 1, g)
  BY <1>3, <1>7, FirstRead
<1>9. StandsAlone(t, 1)
  BY <1>6 DEF StandsAlone
<1> QED
  BY <1>3, <1>5, <1>8, <1>9

\* Two formats write a date alike but for the order of day and month, or differ where
\* one has a separator.
LEMMA FormatsDiffer ==
  ASSUME NEW f \in DateFormats, NEW g \in DateFormats, f # g
  PROVE  \/ {f, g} = {"DmySlash", "MdySlash"}
         \/ YearFirst(f) # YearFirst(g)
         \/ DateSeparator(f) # DateSeparator(g) /\ {f, g} # {"DmySlash", "MdySlash"}
  BY DEF DateFormats, YearFirst, DateSeparator

\* A date in one format is no date in another that has a separator elsewhere.
LEMMA OtherShape ==
  ASSUME NEW t \in Seq(PageChars), NEW f \in DateFormats, NEW g \in DateFormats,
         NEW y, NEW m, NEW d, Laid(t, 1, f, y, m, d),
         YearFirst(f) # YearFirst(g) \/ DateSeparator(f) # DateSeparator(g)
  PROVE  DateAt(t, 1, g) = None
<1> SUFFICES ASSUME DateAt(t, 1, g) # None PROVE FALSE
  OBVIOUS
<1>1. /\ YearFirst(g) => IsDigit(t, 1 + 2) /\ t[1 + 4] = DateSeparator(g)
      /\ ~YearFirst(g) => t[1 + 2] = DateSeparator(g)
  BY ReadHasShape
<1>2. /\ YearFirst(g) => t[3] \in Digits /\ t[5] = DateSeparator(g)
      /\ ~YearFirst(g) => t[3] = DateSeparator(g)
  BY <1>1 DEF IsDigit, Has
<1>3. /\ YearFirst(f) => t[3] \in Digits /\ t[5] = DateSeparator(f)
      /\ ~YearFirst(f) => t[3] = DateSeparator(f)
  BY LaidShape
<1>4. DateSeparator(f) \notin Digits /\ DateSeparator(g) \notin Digits
  BY SeparatorIs
<1>5. YearFirst(f) \in BOOLEAN /\ YearFirst(g) \in BOOLEAN
  BY DEF YearFirst
<1> QED
  BY <1>2, <1>3, <1>4, <1>5

\* A page is read in the declared format or not at all.
LEMMA DeclaredRead ==
  ASSUME NEW x, Spellable(x), ValidYmd(x.y, x.m, x.d), NEW f \in DateFormats, NEW g \in DateFormats
  PROVE  ReadAs(Page(x, f), g) = Understood(x, f, g)
<1>1. PICK t \in Seq(PageChars) :
        /\ Len(t) = 11 /\ Laid(t, 1, f, x.y, x.m, x.d) /\ StandsAlone(t, 1)
        /\ ReadAs(Page(x, f), g) = DateAt(t, 1, g)
  BY PageOfDate
<1>2. x.y \in Nat /\ x.m \in Nat /\ x.d \in Nat
  BY DEF Spellable
<1>3. 1 \in Nat /\ 1 + 9 <= Len(t)
  BY <1>1
<1>4. CASE f = g
  <2>1. DateAt(t, 1, g) = Spelled(Date(x.y, x.m, x.d), "Iso")
    BY <1>1, <1>2, <1>3, <1>4, LaidIsRead
  <2>2. Spelled(Date(x.y, x.m, x.d), "Iso") = Spelled(x, "Iso")
    BY IsoIs DEF Date
  <2> QED
    BY <1>1, <1>4, <2>1, <2>2 DEF Understood
<1>5. CASE f # g /\ {f, g} = {"DmySlash", "MdySlash"}
  <2>1. Laid(t, 1, g, x.y, x.d, x.m)
    <3>1. /\ ~YearFirst(f) /\ ~YearFirst(g) /\ DateSeparator(f) = DateSeparator(g)
          /\ f = "MdySlash" <=> g # "MdySlash"
      BY <1>5 DEF YearFirst, DateSeparator
    <3> QED
      BY <1>1, <3>1 DEF Laid
  <2>2. DateAt(t, 1, g) = IF ValidYmd(x.y, x.d, x.m) THEN Spelled(Date(x.y, x.d, x.m), "Iso")
                          ELSE None
    BY <1>1, <1>2, <1>3, <2>1, LaidIsRead
  <2> QED
    BY <1>1, <1>5, <2>2 DEF Understood
<1>6. CASE f # g /\ {f, g} # {"DmySlash", "MdySlash"}
  <2>1. DateAt(t, 1, g) = None
    BY <1>1, <1>6, FormatsDiffer, OtherShape
  <2> QED
    BY <1>1, <1>6, <2>1 DEF Understood
<1> QED
  BY <1>4, <1>5, <1>6

\* A page with a day that is none is not read.
LEMMA NoDateRead ==
  ASSUME NEW x, Spellable(x), ~ValidYmd(x.y, x.m, x.d), NEW f \in DateFormats
  PROVE  ReadAs(Page(x, f), f) = None
<1>1. PICK t \in Seq(PageChars) :
        /\ Len(t) = 11 /\ Laid(t, 1, f, x.y, x.m, x.d) /\ StandsAlone(t, 1)
        /\ ReadAs(Page(x, f), f) = DateAt(t, 1, f)
  BY PageOfDate
<1>2. x.y \in Nat /\ x.m \in Nat /\ x.d \in Nat /\ 1 \in Nat /\ 1 + 9 <= Len(t)
  BY <1>1 DEF Spellable
<1>3. DateAt(t, 1, f) = None
  BY <1>1, <1>2, LaidIsRead
<1> QED
  BY <1>1, <1>3

\* A digit before a date, and one after it, keep it from being read.
LEMMA DigitBefore ==
  ASSUME NEW x, Spellable(x), NEW f \in DateFormats
  PROVE  ReadAs(<<"a", "7">> \o Spelled(x, f), f) = None
<1>1. "a" \in PageChars /\ "7" \in PageChars /\ "7" \in Digits
  BY NoDigits DEF PageChars
<1>2. PICK s \in Seq(PageChars) : s = Spelled(x, f)
  BY SpelledIs
<1>3. PICK t : t = <<"7">> \o s
  OBVIOUS
<1>4. t \in Seq(PageChars)
  BY <1>1, <1>3, OneMore
<1>5. Len(t) = Len(s) + 1
  BY <1>1, <1>3, OneMore
<1>6. t[1] = "7"
  BY <1>1, <1>3, OneMore
<1>7. \A k \in 1..Len(s) : t[k + 1] = s[k]
  BY <1>1, <1>3, OneMore
<1>8. Len(s) = 10 /\ Laid(s, 1, f, x.y, x.m, x.d)
  BY <1>2, SpelledIs
<1>9. Len(t) = 11 /\ t[5] = s[4] /\ t[3] = s[2]
  BY <1>5, <1>7, <1>8
<1>10. <<"a", "7">> \o s = Anchor \o t
  <2>1. <<"a">> \in Seq(PageChars) /\ <<"7">> \in Seq(PageChars) /\ <<"a">> \o <<"7">> = <<"a", "7">>
    <3>1. /\ <<"a">> \in Seq(PageChars) /\ <<"7">> \in Seq(PageChars)
          /\ <<"a", "7">> \in Seq(PageChars) /\ Len(<<"7">>) = 1 /\ Len(<<"a", "7">>) = 2
      BY <1>1
    <3>2. PICK u : u = <<"a">> \o <<"7">>
      OBVIOUS
    <3>3. u \in Seq(PageChars) /\ Len(u) = 2 /\ u[1] = "a" /\ u[2] = "7"
      BY <1>1, <3>2
    <3>4. \A k \in 1..2 : u[k] = <<"a", "7">>[k]
      BY <3>3
    <3>5. u = <<"a", "7">>
      BY <3>1, <3>3, <3>4, SeqEqual
    <3> QED
      BY <3>1, <3>2, <3>5
  <2>2. (<<"a">> \o <<"7">>) \o s = <<"a">> \o (<<"7">> \o s)
    BY <2>1, ConcatAssociative
  <2> QED
    BY <1>3, <2>1, <2>2 DEF Anchor
<1>11. DateAt(t, 1, f) = None
  <2> SUFFICES ASSUME DateAt(t, 1, f) # None PROVE FALSE
    OBVIOUS
  <2>1. /\ YearFirst(f) => t[1 + 4] = DateSeparator(f)
        /\ ~YearFirst(f) => t[1 + 2] = DateSeparator(f)
    BY <1>4, ReadHasShape
  <2>2. /\ YearFirst(f) => s[4] \in Digits
        /\ ~YearFirst(f) => s[2] \in Digits
    BY <1>8, LaidShape
  <2>3. DateSeparator(f) \notin Digits
    BY SeparatorIs
  <2> QED
    BY <1>9, <2>1, <2>2, <2>3
<1>12. DateAt(t, 2, f) = None
  <2>1. DateAt(t, 2, f) # None => ~IsDigit(t, 2 - 1)
    BY <1>4, ReadHasShape
  <2>2. IsDigit(t, 1)
    BY <1>1, <1>4, <1>6, <1>9 DEF IsDigit, Has
  <2> QED
    BY <2>1, <2>2
<1>13. ReadDate(t, f) = None
  BY <1>4, <1>9, <1>11, <1>12, FirstRead
<1> QED
  BY <1>2, <1>4, <1>10, <1>13, PageRead

LEMMA DigitAfter ==
  ASSUME NEW x, Spellable(x), NEW f \in DateFormats
  PROVE  ReadAs(<<"a">> \o Spelled(x, f) \o <<"7">>, f) = None
<1>1. "a" \in PageChars /\ "7" \in PageChars /\ "7" \in Digits
  BY NoDigits DEF PageChars
<1>2. PICK t : t = Spelled(x, f) \o <<"7">>
  OBVIOUS
<1>3. t \in Seq(PageChars) /\ Len(t) = 11 /\ t[11] = "7" /\ Laid(t, 1, f, x.y, x.m, x.d)
  <2>0. t \in Seq(PageChars)
    BY <1>1, <1>2, FollowedIs
  <2>1. Len(t) = 11
    BY <1>1, <1>2, FollowedIs
  <2>2. t[11] = "7"
    BY <1>1, <1>2, FollowedIs
  <2>3. Laid(t, 1, f, x.y, x.m, x.d)
    BY <1>1, <1>2, FollowedIs
  <2> QED
    BY <2>0, <2>1, <2>2, <2>3
<1>4. <<"a">> \o Spelled(x, f) \o <<"7">> = Anchor \o t
  <2>1. <<"a">> \in Seq(PageChars) /\ <<"7">> \in Seq(PageChars) /\ Spelled(x, f) \in Seq(PageChars)
    BY <1>1, SpelledIs
  <2>2. (<<"a">> \o Spelled(x, f)) \o <<"7">> = <<"a">> \o (Spelled(x, f) \o <<"7">>)
    BY <2>1, ConcatAssociative
  <2> QED
    BY <1>2, <2>2 DEF Anchor
<1>5. DateAt(t, 1, f) = None
  <2>1. DateAt(t, 1, f) # None => ~IsDigit(t, 1 + 10)
    BY <1>3, ReadHasShape
  <2>2. IsDigit(t, 11)
    BY <1>1, <1>3 DEF IsDigit, Has
  <2> QED
    BY <2>1, <2>2
<1>6. DateAt(t, 2, f) = None
  <2> SUFFICES ASSUME DateAt(t, 2, f) # None PROVE FALSE
    OBVIOUS
  <2>1. /\ YearFirst(f) => t[2 + 4] = DateSeparator(f)
        /\ ~YearFirst(f) => t[2 + 2] = DateSeparator(f)
    BY <1>3, ReadHasShape
  <2>2. /\ YearFirst(f) => t[6] \in Digits
        /\ ~YearFirst(f) => t[4] \in Digits
    BY <1>3, LaidShape
  <2>3. DateSeparator(f) \notin Digits
    BY SeparatorIs
  <2> QED
    BY <2>1, <2>2, <2>3
<1>7. ReadDate(t, f) = None
  BY <1>3, <1>5, <1>6, FirstRead
<1> QED
  BY <1>3, <1>4, <1>7, PageRead

-----------------------------------------------------------------------------
(* Dates of a page *)

\* Up to 9999-12-31 a year has four digits.
LEMMA FourDigitYears ==
  ASSUME NEW x \in Dates, DayNumber(x) <= LastSpelled.day
  PROVE  Spellable(x) /\ ValidYmd(x.y, x.m, x.d)
<1>1. /\ x.y \in Nat /\ x.m \in 1..12 /\ x.d \in 1..31 /\ ValidYmd(x.y, x.m, x.d)
      /\ MonthOf(x) \in 0..11
  BY MonthTypes DEF Dates
<1>2. x.y <= 9999
  <2> SUFFICES ASSUME x.y >= 10000 PROVE FALSE
    BY <1>1
  <2>1. PICK a \in Int, days \in Int, months \in Int :
          /\ a = YearOf(x) /\ days = YearDays(a) /\ months = MonthDays(MonthOf(x))
          /\ a >= 9999 /\ (a = 9999 => x.m <= 2)
    <3>1. YearOf(x) \in Int /\ YearOf(x) >= 9999 /\ (YearOf(x) = 9999 => x.m <= 2)
      BY <1>1 DEF YearOf
    <3>2. YearDays(YearOf(x)) \in Int
      BY <3>1 DEF YearDays
    <3>3. MonthDays(MonthOf(x)) \in Int
      BY <1>1 DEF MonthDays
    <3> QED
      BY <3>1, <3>2, <3>3
  <2>2. months >= 0 /\ (x.m <= 2 => months >= 306)
    <3>1. MonthOf(x) \in Int /\ MonthOf(x) >= 0 /\ (x.m <= 2 => MonthOf(x) >= 10)
      BY <1>1 DEF MonthOf
    <3>2. PICK mp \in Int : mp = MonthOf(x)
      BY <3>1
    <3>3. mp >= 0 => (153 * mp + 2) \div 5 >= 0
      OBVIOUS
    <3>4. mp >= 10 => (153 * mp + 2) \div 5 >= 306
      OBVIOUS
    <3> QED
      BY <2>1, <3>1, <3>2, <3>3, <3>4 DEF MonthDays
  <2>3. PICK q4 \in Int, q100 \in Int, q400 \in Int :
          /\ q4 = a \div 4 /\ q100 = a \div 100 /\ q400 = a \div 400
          /\ 4 * q4 <= a /\ a < 4 * q4 + 4 /\ 100 * q100 <= a /\ a < 100 * q100 + 100
          /\ 400 * q400 <= a /\ a < 400 * q400 + 400
    <3>1. PICK q4 \in Int : q4 = a \div 4 /\ 4 * q4 <= a /\ a < 4 * q4 + 4
      OBVIOUS
    <3>2. PICK q100 \in Int : q100 = a \div 100 /\ 100 * q100 <= a /\ a < 100 * q100 + 100
      OBVIOUS
    <3>3. PICK q400 \in Int : q400 = a \div 400 /\ 400 * q400 <= a /\ a < 400 * q400 + 400
      OBVIOUS
    <3> QED
      BY <3>1, <3>2, <3>3
  <2>4. days = 365 * a + q4 - q100 + q400
    BY <2>1, <2>3 DEF YearDays
  <2>5. a >= 10000 => q4 - q100 >= 2400 /\ q400 >= 25
    BY <2>3
  <2>6. a = 9999 => q4 = 2499 /\ q100 = 99 /\ q400 = 24
    BY <2>3
  <2>7. DayNumber(x) = days + months + x.d - 1 - 719468
    BY <2>1, SMT DEF DayNumber
  <2>8. days + months > 3652364
    BY <2>1, <2>2, <2>4, <2>5, <2>6, SMT
  <2> QED
    BY <1>1, <2>1, <2>7, <2>8, SMT DEF LastSpelled
<1> QED
  BY <1>1, <1>2 DEF Spellable

\* A month ends before a day that is followed by the first of another.
LEMMA MonthEnds ==
  ASSUME NEW x \in Dates, CivilFromDays(DayNumber(x) + 1).d = 1, NEW e \in Nat, e > x.d
  PROVE  ~ValidYmd(x.y, x.m, e)
<1>1. x.y \in Nat /\ x.m \in Nat /\ x.d \in Nat /\ x.d >= 1 /\ ValidYmd(x.y, x.m, x.d)
  BY MonthTypes DEF Dates
<1>2. NextDate(x).d = 1
  <2>1. NextDate(x) \in Dates /\ DayNumber(NextDate(x)) = DayNumber(x) + 1
    BY NextDay
  <2> QED
    BY <2>1, CivilInverts
<1>3. ~ValidYmd(x.y, x.m, x.d + 1)
  BY <1>1, <1>2 DEF NextDate, Date
<1>4. x.m >= 1 /\ x.m <= 12 /\ LastDay(x.y, x.m) \in Nat
  BY <1>1, ValidIs, LastDayIs
<1>5. x.d + 1 > LastDay(x.y, x.m)
  <2>1. x.d + 1 \in Nat /\ x.d + 1 >= 1
    BY <1>1
  <2>2. ~(x.d + 1 <= LastDay(x.y, x.m))
    BY <1>1, <1>3, <1>4, <2>1, ValidIs
  <2> QED
    BY <1>1, <1>4, <2>2
<1>6. ~(e <= LastDay(x.y, x.m))
  BY <1>1, <1>4, <1>5
<1> QED
  BY <1>1, <1>6, ValidIs

\* Whatever the day, its date is read from a page as it was meant, or not read.
THEOREM DatesAlwaysReadBack == RulesSpec => []DatesReadBack
<1>1. DayInv => CalendarsAgree
  BY CivilInverts DEF DayInv, CalendarsAgree
<1>2. ASSUME DayInv, day \in Sampled
      PROVE  date \in Dates /\ day = DayNumber(date) /\ Spellable(date) /\ ValidYmd(date.y, date.m, date.d)
  <2>1. day <= LastSpelled.day
    BY <1>2, ExtractionAssumption
  <2> QED
    BY <1>2, <2>1, FourDigitYears DEF DayInv
<1>3. ASSUME DayInv PROVE ReadAsDeclared
  BY <1>2, <1>3, DeclaredRead DEF ReadAsDeclared
<1>4. ASSUME DayInv PROVE NoSuchDayRefused
  <2> SUFFICES ASSUME day \in Sampled, CivilFromDays(day + 1).d = 1,
                      NEW f \in DateFormats, NEW d \in (date.d + 1)..32
               PROVE  ReadAs(Page(Date(date.y, date.m, d), f), f) = None
    BY DEF NoSuchDayRefused
  <2>1. /\ date \in Dates /\ day = DayNumber(date) /\ Spellable(date)
    BY <1>2, <1>4
  <2>2. date.d \in Nat
    BY <2>1 DEF Spellable
  <2>3. d \in Nat /\ d > date.d /\ d <= 99
    BY <2>2
  <2>4. ~ValidYmd(date.y, date.m, d)
    BY <2>1, <2>3, MonthEnds
  <2>5. PICK x : x = Date(date.y, date.m, d)
    OBVIOUS
  <2>6. Spellable(x) /\ ~ValidYmd(x.y, x.m, x.d)
    BY <2>1, <2>3, <2>4, <2>5 DEF Spellable, Date
  <2> QED
    BY <2>5, <2>6, NoDateRead
<1>5. ASSUME DayInv PROVE PieceRefused
  <2> SUFFICES ASSUME day \in Sampled, NEW f \in DateFormats
               PROVE  /\ ReadAs(<<"a", "7">> \o Spelled(date, f), f) = None
                      /\ ReadAs(<<"a">> \o Spelled(date, f) \o <<"7">>, f) = None
    BY DEF PieceRefused
  <2>1. Spellable(date)
    BY <1>2, <1>5
  <2> QED
    BY <2>1, DigitBefore, DigitAfter
<1>6. DayInv => DatesReadBack
  BY <1>1, <1>3, <1>4, <1>5 DEF DatesReadBack
<1> QED
  BY <1>6, DaysCounted, PTL

-----------------------------------------------------------------------------
(* Operators *)

\* The symbols are strings, which the provers do not know.
Symbols == {"=", "!", ">", "<", " ", "\"", "contains", "age", "v"}
Chars   == STRING \cup Symbols
Text    == Seq(Chars)

\* A text begins with the first character of its prefix.
LEMMA PrefixBegins ==
  ASSUME NEW op \in Text, NEW s \in Text, Len(op) >= 1, IsPrefix(op, s)
  PROVE  s # <<>> /\ s[1] = op[1]
<1> DEFINE n == Len(op)
<1>1. n \in Nat /\ n >= 1 /\ n <= Len(s) /\ SubSeq(op, 1, n) = SubSeq(s, 1, n)
  BY DEF IsPrefix, Text
<1> HIDE DEF n
<1>2. \A i \in 1..n : i \in 1..Len(s)
  BY <1>1 DEF Text
<1>3. \A i \in 1..n : op[i] \in Chars /\ s[i] \in Chars
  BY <1>2 DEF n, Text
<1>4. SubSeq(op, 1, n)[1] = op[1] /\ SubSeq(s, 1, n)[1] = s[1]
  <2>1. 1 \in 1..(n - 1 + 1) /\ 1 + 1 - 1 = 1 /\ 1 \in Int /\ n \in Int
    BY <1>1
  <2> QED
    BY <1>3, <2>1, SubSeqProperties
<1> QED
  BY <1>1, <1>4 DEF Text

\* The operators that are tried: texts, none of them empty.
Operators(ops) ==
  DOMAIN ops \in SUBSET Nat /\ \A k \in DOMAIN ops : ops[k] \in Text /\ Len(ops[k]) >= 1

\* An operator that is found is the beginning of the text.
LEMMA OperatorFound ==
  ASSUME NEW ops, NEW s, Operators(ops), Operator(s, ops) # None
  PROVE  \E k \in DOMAIN ops : ops[k] = Operator(s, ops) /\ IsPrefix(ops[k], s)
<1> DEFINE found == {k \in DOMAIN ops : IsPrefix(ops[k], s)}
<1>1. found # {} /\ Operator(s, ops) = ops[Least(found)]
  BY DEF Operator
<1>2. found \in SUBSET Nat
  BY DEF Operators
<1>3. Least(found) \in found
  <2> HIDE DEF found
  <2> QED
    BY <1>1, <1>2, LeastNatural, Zenon DEF Least
<1> QED
  BY <1>1, <1>3

\* An operator that alone begins with its first character is found.
LEMMA OperatorAlone ==
  ASSUME NEW ops, NEW s \in Text, Operators(ops), NEW k \in DOMAIN ops, IsPrefix(ops[k], s),
         \A j \in DOMAIN ops : ops[j][1] = ops[k][1] => j = k
  PROVE  Operator(s, ops) = ops[k]
<1> DEFINE found == {j \in DOMAIN ops : IsPrefix(ops[j], s)}
<1>1. \A j \in found : j = k
  BY PrefixBegins DEF Operators
<1>2. found = {k}
  BY <1>1
<1>3. Least({k}) = k
  <2>1. k \in Nat
    BY DEF Operators
  <2> QED
    BY <2>1 DEF Least
<1>4. Operator(s, ops) = ops[Least(found)]
  BY <1>2 DEF Operator
<1> QED
  BY <1>2, <1>3, <1>4

\* The orderings that are followed by a blank.
GT == <<">", " ">>
LT == <<"<", " ">>

\* The operators evaluate_predicate tries.
LEMMA EvaluatedIs ==
  /\ DOMAIN Evaluated = 1..8
  /\ Evaluated[1] = GE /\ Evaluated[2] = LE /\ Evaluated[3] = GT /\ Evaluated[4] = LT
  /\ Evaluated[5] = NE /\ Evaluated[6] = EQ /\ Evaluated[7] = CONTAINS /\ Evaluated[8] = AGE
<1>1. PICK gt, lt : gt = GT /\ lt = LT
  BY Zenon
<1>2. Evaluated = <<GE, LE, gt, lt, NE, EQ, CONTAINS, AGE>>
  BY <1>1, Zenon DEF Evaluated, GT, LT
<1> QED
  BY <1>1, <1>2

\* The operators redact_predicate tries.
LEMMA RedactedIs ==
  /\ DOMAIN Redacted = 1..7
  /\ Redacted[1] = EQ /\ Redacted[2] = NE /\ Redacted[3] = CONTAINS /\ Redacted[4] = GE
  /\ Redacted[5] = LE /\ Redacted[6] = <<">">> /\ Redacted[7] = <<"<">>
<1>1. PICK gt, lt : gt = <<">">> /\ lt = <<"<">>
  BY Zenon
<1>2. Redacted = <<EQ, NE, CONTAINS, GE, LE, gt, lt>>
  BY <1>1, Zenon DEF Redacted
<1>3. DOMAIN Redacted = 1..7 /\ Redacted[6] = gt /\ Redacted[7] = lt
  BY <1>2
<1>4. /\ Redacted[1] = EQ /\ Redacted[2] = NE /\ Redacted[3] = CONTAINS /\ Redacted[4] = GE
      /\ Redacted[5] = LE
  BY <1>2
<1> QED
  BY <1>1, <1>3, <1>4, Zenon

\* An operator, with the character it begins with.
Op(op, c) == op \in Text /\ Len(op) >= 1 /\ op[1] = c

\* An operator of one character, and one of two.
LEMMA OneCharacter == ASSUME NEW c \in Chars PROVE Op(<<c>>, c)
  BY DEF Op, Text

\* An operator of two characters begins with the first.
LEMMA TwoCharacters == ASSUME NEW c \in Chars, NEW d \in Chars PROVE Op(<<c, d>>, c)
  BY DEF Op, Text

\* The operators by the character each begins with.
LEMMA FirstCharacters ==
  /\ Op(GE, ">") /\ Op(LE, "<") /\ Op(GT, ">") /\ Op(LT, "<")
  /\ Op(<<">">>, ">") /\ Op(<<"<">>, "<")
  /\ Op(NE, "!") /\ Op(EQ, "=") /\ Op(CONTAINS, "contains") /\ Op(AGE, "age")
<1>1. ">" \in Chars /\ "<" \in Chars /\ "=" \in Chars /\ "!" \in Chars /\ " " \in Chars
  BY DEF Chars, Symbols
<1>2. "contains" \in Chars /\ "age" \in Chars
  BY DEF Chars, Symbols
<1>3. Op(GE, ">") /\ Op(LE, "<") /\ Op(GT, ">") /\ Op(LT, "<") /\ Op(NE, "!") /\ Op(EQ, "=")
  BY <1>1, TwoCharacters, Zenon DEF GE, LE, GT, LT, NE, EQ
<1>4. Op(<<">">>, ">") /\ Op(<<"<">>, "<") /\ Op(CONTAINS, "contains") /\ Op(AGE, "age")
  BY <1>1, <1>2, OneCharacter, Zenon DEF CONTAINS, AGE
<1> QED
  BY <1>3, <1>4, Zenon

\* Neither list holds an empty operator.
LEMMA OperatorsTried == Operators(Evaluated) /\ Operators(Redacted)
<1> DEFINE Fine(op) == op \in Text /\ Len(op) >= 1
<1>0. /\ Fine(GE) /\ Fine(LE) /\ Fine(GT) /\ Fine(LT) /\ Fine(<<">">>) /\ Fine(<<"<">>)
      /\ Fine(NE) /\ Fine(EQ) /\ Fine(CONTAINS) /\ Fine(AGE)
  BY FirstCharacters DEF Op
<1> HIDE DEF Fine
<1>1. \A k \in 1..8 : Fine(Evaluated[k])
  <2>1. \A k \in 1..8 : k = 1 \/ k = 2 \/ k = 3 \/ k = 4 \/ k = 5 \/ k = 6 \/ k = 7 \/ k = 8
    OBVIOUS
  <2> QED
    BY <1>0, <2>1, EvaluatedIs
<1>2. \A k \in 1..7 : Fine(Redacted[k])
  <2>1. \A k \in 1..7 : k = 1 \/ k = 2 \/ k = 3 \/ k = 4 \/ k = 5 \/ k = 6 \/ k = 7
    OBVIOUS
  <2> QED
    BY <1>0, <2>1, RedactedIs
<1> QED
  BY <1>1, <1>2, EvaluatedIs, RedactedIs DEF Operators, Fine

\* An operator that compares texts is found in the same predicates by both lists.
LEMMA StringOperator ==
  ASSUME NEW p \in Text, NEW op \in Strings
  PROVE  /\ Operator(p, Evaluated) = op <=> IsPrefix(op, p)
         /\ Operator(p, Redacted) = op <=> IsPrefix(op, p)
         /\ IsPrefix(op, p) => ~IsPrefix(AGE, p)
<1>1. PICK c \in {"=", "!", "contains"} : Op(op, c)
  BY FirstCharacters DEF Strings
<1>2. op # None
  BY <1>1 DEF Op, None, Text
<1>3. PICK j \in DOMAIN Evaluated :
        Evaluated[j] = op /\ \A i \in DOMAIN Evaluated : Evaluated[i][1] = op[1] => i = j
  BY EvaluatedIs, FirstCharacters, SMTT(30) DEF Op, Strings
<1>4. PICK k \in DOMAIN Redacted :
        Redacted[k] = op /\ \A i \in DOMAIN Redacted : Redacted[i][1] = op[1] => i = k
  BY RedactedIs, FirstCharacters, SMTT(30) DEF Op, Strings
<1>5. IsPrefix(op, p) => Operator(p, Evaluated) = op /\ Operator(p, Redacted) = op
  BY <1>3, <1>4, OperatorAlone, OperatorsTried
<1>6. /\ Operator(p, Evaluated) = op => IsPrefix(op, p)
      /\ Operator(p, Redacted) = op => IsPrefix(op, p)
  BY <1>2, OperatorFound, OperatorsTried
<1>7. ~(IsPrefix(op, p) /\ IsPrefix(AGE, p))
  BY <1>1, FirstCharacters, PrefixBegins DEF Op
<1> QED
  BY <1>5, <1>6, <1>7

-----------------------------------------------------------------------------
(* Verdicts *)

\* An operator is of one kind.
LEMMA KindsOfOperator ==
  /\ \A op \in Strings : op \notin Ordering /\ op # AGE
  /\ \A op \in Ordering : op # AGE
<1>1. Ordering = {GE, LE, GT, LT}
  BY Zenon DEF Ordering, GT, LT
<1>2. \A op \in Strings : op[1] \in {"=", "!", "contains"}
  BY FirstCharacters DEF Strings, Op
<1>3. \A op \in Ordering : op[1] \in {">", "<"}
  BY <1>1, FirstCharacters DEF Op
<1>4. AGE[1] = "age"
  BY FirstCharacters DEF Op
<1> QED
  BY <1>2, <1>3, <1>4

\* The verdict of a comparison of texts does not depend on a convention.
LEMMA StringVerdict ==
  ASSUME NEW q, NEW v, NEW fmt, NEW op, op = Operator(Trim(q), Evaluated), op \in Strings
  PROVE  EvaluatePredicate(q, v, fmt, 0) =
           Verdict(StringHolds(op, v, Unquote(After(op, Trim(q)))))
<1>1. op \notin Ordering /\ op # AGE
  BY KindsOfOperator
<1> QED
  BY <1>1 DEF EvaluatePredicate

\* There is none of an ordering without a convention.
LEMMA OrderingVerdict ==
  ASSUME NEW q, NEW v, NEW op, op = Operator(Trim(q), Evaluated), op \in Ordering
  PROVE  EvaluatePredicate(q, v, "none", 0) = "panic"
<1>0. op \notin Strings /\ op # AGE
  BY KindsOfOperator
<1>1. EvaluatePredicate(q, v, "none", 0) =
        Ordered(op, Number(v, "none"), Amount(After(op, Trim(q))))
  BY <1>0 DEF EvaluatePredicate
<1>2. Number(v, "none") = NoNumber
  BY DEF Number
<1> QED
  BY <1>1, <1>2 DEF Ordered

\* An age is read from the value alone.
LEMMA OtherVerdict ==
  ASSUME NEW q, NEW v, NEW fmt, NEW op, op = Operator(Trim(q), Evaluated),
         op \notin Strings, op \notin Ordering
  PROVE  /\ EvaluatePredicate(q, v, fmt, 0) = EvaluatePredicate(q, v, "none", 0)
         /\ ComputeAge(v, 0) = NoAge => EvaluatePredicate(q, v, "none", 0) = "panic"
<1> DEFINE r == After(op, Trim(q))
           a == Operator(Trim(r), EvaluatedAge)
           n == IF ComputeAge(v, 0) = NoAge THEN NoNumber ELSE 1000 * ComputeAge(v, 0)
           w == IF op = AGE /\ a # None THEN Ordered(a, n, Years(After(a, Trim(r)))) ELSE "panic"
<1>1. EvaluatePredicate(q, v, fmt, 0) = w /\ EvaluatePredicate(q, v, "none", 0) = w
  BY DEF EvaluatePredicate
<1>2. ComputeAge(v, 0) = NoAge => w = "panic"
  BY DEF Ordered
<1> HIDE DEF w
<1> QED
  BY <1>1, <1>2

\* A value without a dash or a slash is no birth date.
LEMMA NoBirthDate == ComputeAge(<<"v">>, 0) = NoAge
<1>1. {k \in DOMAIN <<"v">> : <<"v">>[k] \in {"-", "/"}} = {}
  OBVIOUS
<1> QED
  BY <1>1, Zenon DEF ComputeAge

\* The predicates that compare texts are those whose operator does.
LEMMA ComparesIs == ComparesStrings <=> Operator(Trim(predicate), Evaluated) \in Strings
<1> DEFINE op == Operator(Trim(predicate), Evaluated)
<1>1. CASE op \in Strings
  <2>1. EvaluatePredicate(predicate, <<"v">>, "none", 0) \in {"true", "false"}
    BY <1>1, StringVerdict DEF Verdict
  <2> QED
    BY <1>1, <2>1 DEF ComparesStrings, Verdict0
<1>2. CASE op \notin Strings
  <2>1. EvaluatePredicate(predicate, <<"v">>, "none", 0) = "panic"
    BY <1>2, OrderingVerdict, OtherVerdict, NoBirthDate, Zenon
  <2> QED
    BY <1>2, <2>1 DEF ComparesStrings, Verdict0
<1> QED
  BY <1>1, <1>2

\* A verdict that needs no convention is the verdict in every one.
THEOREM ConventionNeverGuessed == RulesSpec => []NoReadingGuessed
<1>1. NoReadingGuessed
  <2> SUFFICES ASSUME NEW v \in Values, Verdict0(v, "none") # "panic", NEW fmt \in NumberFormats
               PROVE  Verdict0(v, fmt) = Verdict0(v, "none")
    BY DEF NoReadingGuessed
  <2> DEFINE op == Operator(Trim(predicate), Evaluated)
  <2>1. CASE op \in Strings
    BY <2>1, StringVerdict, Zenon DEF Verdict0
  <2>2. CASE op \in Ordering
    BY <2>2, OrderingVerdict, Zenon DEF Verdict0
  <2>3. CASE op \notin Strings /\ op \notin Ordering
    BY <2>3, OtherVerdict, Zenon DEF Verdict0
  <2> QED
    BY <2>1, <2>2, <2>3
<1> QED
  BY <1>1, PTL

-----------------------------------------------------------------------------
(* Texts *)

\* What is left of a text is a text: trimmed, ...
LEMMA StripType == ASSUME NEW s \in Text, NEW cs PROVE Strip(s, cs) \in Text
<1> DEFINE kept == {k \in DOMAIN s : s[k] \notin cs}
<1>1. CASE kept = {}
  BY <1>1 DEF Strip, Text
<1>2. CASE kept # {}
  <2>1. DOMAIN s = 1..Len(s) /\ Len(s) \in Nat /\ kept \in SUBSET (1..Len(s))
    BY DEF Text
  <2>2. PICK m \in kept : \A k \in kept : m <= k
    <3>1. kept \in SUBSET Nat
      BY <2>1
    <3> HIDE DEF kept
    <3> QED
      BY <1>2, <3>1, LeastNatural
  <2>3. PICK n \in kept : \A k \in kept : k <= n
    <3> DEFINE T == {Len(s) - k : k \in kept}
    <3>1. T \in SUBSET Nat /\ T # {}
      BY <1>2, <2>1
    <3>2. PICK j \in T : \A i \in T : j <= i
      <4> HIDE DEF T
      <4> QED
        BY <3>1, LeastNatural
    <3>3. PICK n \in kept : j = Len(s) - n
      OBVIOUS
    <3>4. \A k \in kept : Len(s) - n <= Len(s) - k
      BY <3>2, <3>3
    <3> QED
      BY <2>1, <3>4
  <2> HIDE DEF kept
  <2>4. Least(kept) \in kept
    BY <2>2, Zenon DEF Least
  <2>5. PICK last \in kept : last = CHOOSE k \in kept : \A j \in kept : j <= k
    BY <2>3, Zenon
  <2>6. Strip(s, cs) = SubSeq(s, Least(kept), last)
    BY <1>2, <2>5, Zenon DEF Strip, kept
  <2>7. Least(kept) \in 1..Len(s) /\ last \in 1..Len(s)
    BY <2>1, <2>4, Zenon
  <2>8. \A i \in Least(kept)..last : s[i] \in Chars
    BY <2>1, <2>7 DEF Text
  <2> QED
    BY <2>1, <2>6, <2>7, <2>8, SubSeqProperties DEF Text
<1> QED
  BY <1>1, <1>2

\* ... cut after an operator, ...
LEMMA AfterType == ASSUME NEW op \in Text, NEW s \in Text PROVE After(op, s) \in Text
<1>1. Len(op) + 1 \in Int /\ Len(s) \in Int /\ \A i \in (Len(op) + 1)..Len(s) : s[i] \in Chars
  BY DEF Text
<1> QED
  BY <1>1, SubSeqProperties DEF Text, After

\* ... and read as an operand.
LEMMA OperandType ==
  ASSUME NEW q \in Text, NEW op \in Strings
  PROVE  Trim(q) \in Text /\ Unquote(After(op, Trim(q))) \in Text
<1>1. op \in Text
  BY FirstCharacters DEF Op, Strings
<1>2. \A t \in Text : Trim(t) \in Text
  BY StripType, Zenon DEF Trim
<1>3. \A t \in Text : Unquote(t) \in Text
  BY <1>2, StripType, Zenon DEF Unquote
<1>4. After(op, Trim(q)) \in Text
  BY <1>1, <1>2, AfterType, Zenon
<1> QED
  BY <1>2, <1>3, <1>4, Zenon

\* The same text, joined from two of the same lengths.
SameJoined(a, c, b, d) == Len(a) = Len(b) /\ a \o c = b \o d

\* Texts that agree, cut at the same place, agree on either side.
LEMMA SameParts ==
  ASSUME NEW a \in Text, NEW b \in Text, NEW c \in Text, NEW d \in Text, SameJoined(a, c, b, d)
  PROVE  a = b /\ c = d
<1>0. Len(a) = Len(b) /\ a \o c = b \o d
  BY DEF SameJoined
<1>1. \A i \in 1..Len(a) : a[i] = b[i]
  BY <1>0, ConcatProperties DEF Text
<1>2. a = b
  BY <1>0, <1>1, SeqEqual DEF Text
<1>3. a \o c = a \o d
  BY <1>0, <1>2
<1> QED
  BY <1>2, <1>3, ConcatSimplifications, Zenon DEF Text

\* What follows a text that another was joined to is that other.
LEMMA AfterJoined == ASSUME NEW a \in Text, NEW b \in Text PROVE After(a, a \o b) = b
<1> DEFINE s == a \o b
           t == After(a, s)
<1>1. s \in Text /\ Len(s) = Len(a) + Len(b) /\ Len(a) \in Nat /\ Len(b) \in Nat
  BY ConcatProperties DEF Text
<1>2. \A i \in 1..Len(b) : s[Len(a) + i] = b[i]
  <2> TAKE i \in 1..Len(b)
  <2>1. Len(a) + i \in 1..(Len(a) + Len(b)) /\ ~(Len(a) + i <= Len(a)) /\ Len(a) + i - Len(a) = i
    BY <1>1
  <2> QED
    BY <2>1, ConcatProperties DEF Text
<1>3. \A i \in (Len(a) + 1)..Len(s) : s[i] \in Chars
  BY <1>1 DEF Text
<1> HIDE DEF s
<1>4. /\ t \in Text /\ Len(t) = Len(b)
      /\ \A i \in 1..Len(b) : t[i] = s[Len(a) + 1 + i - 1]
  <2>1. Len(a) + 1 \in Int /\ Len(s) \in Int /\ Len(s) - (Len(a) + 1) + 1 = Len(b)
    BY <1>1
  <2>2. Len(t) = IF Len(a) + 1 <= Len(s) THEN Len(s) - (Len(a) + 1) + 1 ELSE 0
    BY <1>3, <2>1, SubSeqProperties DEF After
  <2> QED
    BY <1>1, <1>3, <2>1, <2>2, SubSeqProperties DEF After, Text
<1>5. \A i \in 1..Len(b) : t[i] = b[i]
  BY <1>1, <1>2, <1>4
<1>6. t = b
  <2> HIDE DEF t
  <2> QED
    BY <1>4, <1>5, SeqEqual DEF Text
<1> QED
  BY <1>6 DEF s

-----------------------------------------------------------------------------
(* Predicates as they are published *)

\* A predicate and a salt are written from their characters.
TextsInv == predicate \in Text /\ salt \in Text

\* A character more is a text.
LEMMA TextsStep == TextsInv /\ [RulesNext]_all => TextsInv'
<1> SUFFICES ASSUME TextsInv, [RulesNext]_all PROVE TextsInv'
  OBVIOUS
<1>0. Words \subseteq Chars /\ SaltLetters \subseteq Chars
  BY RulesAssumption DEF Chars
<1>1. CASE UNCHANGED texts
  BY <1>1 DEF TextsInv, texts
<1>2. ASSUME NEW c \in Letters, WriteLiteral(c) PROVE TextsInv'
  BY <1>2 DEF TextsInv, WriteLiteral
<1>3. ASSUME NEW c \in Words, WritePredicate(c) PROVE TextsInv'
  BY <1>0, <1>3, AppendProperties DEF TextsInv, WritePredicate, Text
<1>4. ASSUME NEW c \in SaltLetters, WriteSalt(c) PROVE TextsInv'
  BY <1>0, <1>4, AppendProperties DEF TextsInv, WriteSalt, Text
<1> QED
  BY <1>1, <1>2, <1>3, <1>4 DEF RulesNext, all

\* A predicate and a salt are texts.
LEMMA TextsWritten == RulesSpec => []TextsInv
<1>1. RulesInit => TextsInv
  BY DEF RulesInit, TextsInv, Text
<1> QED
  BY <1>1, TextsStep, PTL DEF RulesSpec

\* The salts of proofs are texts of one length that parse_salt leaves as they are.
LEMMA SaltsAre ==
  ASSUME NEW s \in Salts
  PROVE  /\ s \in Text /\ s # None /\ s # Invalid /\ ParseSalt(s) = s
         /\ Len(s) \in Nat /\ Len(s) >= 1
<1>1. s \in Seq(HexDigits) /\ Len(s) % 2 = 0 /\ Len(s) >= MinSalt /\ MinSalt \in Nat \ {0}
  BY RulesAssumption, DisclosureAssumption
<1>2. s \in Text
  <2>1. HexDigits \subseteq Chars
    BY RulesAssumption DEF Chars
  <2> QED
    BY <1>1, <2>1, SeqMonotonic DEF Text
<1>3. Len(s) \in Nat /\ Len(s) >= 1 /\ s # <<>>
  BY <1>1, <1>2 DEF Text
<1>4. s # Invalid
  <2>1. Len(Invalid) = 1
    BY DEF Invalid
  <2>2. 1 % 2 # 0
    OBVIOUS
  <2> QED
    BY <1>1, <2>1, <2>2, Zenon
<1>5. Range(s) \subseteq HexDigits
  BY <1>1 DEF Range
<1> QED
  BY <1>1, <1>2, <1>3, <1>4, <1>5 DEF ParseSalt, None

\* The other parts of a proof are texts.
LEMMA OtherTexts ==
  /\ Tag \in Text /\ None \in Text
  /\ \A v \in Values \cup Bodies : v \in Text
  /\ \A rule \in Rules : rule.anchor \in Text /\ (rule.is = "literal" => rule.text \in Text)
<1>1. \A t \in Seq(STRING) : t \in Text
  BY SeqMonotonic DEF Text, Chars
<1> QED
  BY <1>1, RulesAssumption, EmptySeq DEF None, Text

\* Texts joined are a text, as long as both.
LEMMA Joined ==
  ASSUME NEW a \in Text, NEW b \in Text
  PROVE  a \o b \in Text /\ Len(a \o b) = Len(a) + Len(b)
  BY ConcatProperties DEF Text

\* A commitment is to one value under one salt.
LEMMA DigestBinds ==
  ASSUME NEW s \in Salts, NEW t \in Salts, NEW x \in Text, NEW e \in Text
  PROVE  Digest(ValueCommitmentPreimage(s, x)) = Digest(ValueCommitmentPreimage(t, e))
           <=> s = t /\ x = e
<1>1. s \in Text /\ t \in Text /\ Len(s) = Len(t) /\ Tag \in Text
  BY SaltsAre, OtherTexts, RulesAssumption
<1>2. PICK a \in Text, b \in Text : a = Tag \o s /\ b = Tag \o t /\ Len(a) = Len(b)
  <2>1. Tag \o s \in Text /\ Len(Tag \o s) = Len(Tag) + Len(s)
    BY <1>1, Joined, Zenon
  <2>2. Tag \o t \in Text /\ Len(Tag \o t) = Len(Tag) + Len(t)
    BY <1>1, Joined, Zenon
  <2> QED
    BY <1>1, <2>1, <2>2, Zenon
<1>3. PICK u, w : /\ u = a \o x /\ w = b \o e
                  /\ u = ValueCommitmentPreimage(s, x) /\ w = ValueCommitmentPreimage(t, e)
  BY <1>2, Zenon DEF ValueCommitmentPreimage
<1>4. Digest(u) = Digest(w) => u = w
  BY DEF Digest
<1>5. u = w => SameJoined(a, x, b, e)
  BY <1>2, <1>3, Zenon DEF SameJoined
<1>6. SameJoined(a, x, b, e) => a = b /\ x = e
  BY SameParts
<1>7. a = b => SameJoined(Tag, s, Tag, t)
  BY <1>2, Zenon DEF SameJoined
<1>8. SameJoined(Tag, s, Tag, t) => s = t
  BY <1>1, SameParts
<1> QED
  BY <1>3, <1>4, <1>5, <1>6, <1>7, <1>8, Zenon

\* What redact_predicate publishes.
LEMMA Redacts ==
  ASSUME predicate \in Text, NEW s \in Salts
  PROVE  LET p  == Trim(predicate)
             op == Operator(p, Evaluated)
         IN RedactPredicate(predicate, s) =
              IF ComparesStrings
              THEN <<Clear(op), Digest(ValueCommitmentPreimage(s, Unquote(After(op, p))))>>
              ELSE <<Clear(p)>>
<1> DEFINE p   == Trim(predicate)
           op  == Operator(p, Evaluated)
           op0 == IF IsPrefix(AGE, p) THEN None ELSE Operator(p, Redacted)
<1>0. p \in Text
  BY StripType, Zenon DEF Trim
<1>1. RedactPredicate(predicate, s) =
        IF op0 \in Strings
        THEN <<Clear(op0), Digest(ValueCommitmentPreimage(s, Unquote(After(op0, p))))>>
        ELSE <<Clear(p)>>
  BY SaltsAre, Zenon DEF RedactPredicate, Committed, OperandOf
<1>2. CASE ComparesStrings
  <2>1. op \in Strings
    BY <1>2, ComparesIs
  <2>2. op0 = op
    BY <1>0, <2>1, StringOperator, Zenon
  <2> QED
    BY <1>1, <1>2, <2>1, <2>2, Zenon
<1>3. CASE ~ComparesStrings
  <2>1. op \notin Strings
    BY <1>3, ComparesIs
  <2>2. None \notin Strings
    BY FirstCharacters DEF Strings, Op, None
  <2>3. op0 \notin Strings
    BY <1>0, <2>1, <2>2, StringOperator, Zenon
  <2> QED
    BY <1>1, <1>3, <2>3, Zenon
<1> QED
  BY <1>2, <1>3

\* What is committed to is what the value is compared with.
THEOREM CommittedIsCompared == RulesSpec => []CommitsToCompared
<1>1. TextsInv => CommitsToCompared
  <2> SUFFICES ASSUME TextsInv, ComparesStrings, NEW s \in Salts
               PROVE  LET parts == RedactPredicate(predicate, s) IN
                        /\ Len(parts) = 2 /\ parts[2].hidden
                        /\ \A v \in Values :
                             Verdict0(v, "none") =
                               Verdict(StringHolds(parts[1].of, v, After(Tag \o s, parts[2].of)))
    BY DEF CommitsToCompared
  <2> DEFINE p  == Trim(predicate)
             op == Operator(p, Evaluated)
             x  == Unquote(After(op, p))
  <2>1. op \in Strings
    BY ComparesIs
  <2>2. x \in Text
    BY <2>1, OperandType DEF TextsInv
  <2>3. PICK a, b : /\ RedactPredicate(predicate, s) = <<a, b>>
                    /\ a = Clear(op) /\ b = Digest(ValueCommitmentPreimage(s, x))
    BY Redacts, Zenon DEF TextsInv
  <2>4. a.of = op /\ b.hidden /\ b.of = (Tag \o s) \o x
    BY <2>3, Zenon DEF Clear, Digest, ValueCommitmentPreimage
  <2>5. After(Tag \o s, b.of) = x
    <3>1. Tag \o s \in Text
      BY SaltsAre, OtherTexts, Joined, Zenon
    <3> QED
      BY <2>2, <2>4, <3>1, AfterJoined, Zenon
  <2>6. \A v \in Values : Verdict0(v, "none") = Verdict(StringHolds(op, v, x))
    BY <2>1, StringVerdict, Zenon DEF Verdict0
  <2> HIDE DEF op, x
  <2>7. Len(<<a, b>>) = 2 /\ <<a, b>>[1] = a /\ <<a, b>>[2] = b
    OBVIOUS
  <2> QED
    BY <2>3, <2>4, <2>5, <2>6, <2>7, Zenon
<1> QED
  BY <1>1, TextsWritten, PTL

-----------------------------------------------------------------------------
(* Field results *)

\* The parts of a published text.
Holds(parts, w) == \E k \in DOMAIN parts : parts[k] = w

\* A text of one part, of two, and two texts joined.
LEMMA HoldsOne == ASSUME NEW a, NEW w PROVE Holds(<<a>>, w) <=> w = a
  BY DEF Holds

\* A text of two parts holds both.
LEMMA HoldsTwo == ASSUME NEW a, NEW b, NEW w PROVE Holds(<<a, b>>, w) <=> w = a \/ w = b
  BY DEF Holds

\* A joined text holds what either holds.
LEMMA HoldsJoined ==
  ASSUME NEW S, NEW u \in Seq(S), NEW v \in Seq(S), NEW w
  PROVE  Holds(u \o v, w) <=> Holds(u, w) \/ Holds(v, w)
<1> DEFINE m == Len(u)
           n == Len(v)
           c == u \o v
<1>1. m \in Nat /\ n \in Nat /\ DOMAIN u = 1..m /\ DOMAIN v = 1..n
  OBVIOUS
<1>2. /\ c \in Seq(S) /\ Len(c) = m + n
      /\ \A i \in 1..(m + n) : c[i] = IF i <= m THEN u[i] ELSE v[i - m]
  BY ConcatProperties
<1>3. DOMAIN c = 1..(m + n)
  BY <1>2
<1> HIDE DEF m, n, c
<1>4. ASSUME NEW k \in 1..(m + n), c[k] = w PROVE Holds(u, w) \/ Holds(v, w)
  <2>1. CASE k <= m
    BY <1>1, <1>2, <1>4, <2>1 DEF Holds
  <2>2. CASE ~(k <= m)
    <3>1. k - m \in 1..n /\ v[k - m] = w
      BY <1>1, <1>2, <1>4, <2>2
    <3> QED
      BY <1>1, <3>1 DEF Holds
  <2> QED
    BY <2>1, <2>2
<1>5. ASSUME NEW k \in 1..m, u[k] = w PROVE Holds(c, w)
  <2>1. k \in 1..(m + n) /\ c[k] = w
    BY <1>1, <1>2, <1>5
  <2> QED
    BY <1>3, <2>1 DEF Holds
<1>6. ASSUME NEW k \in 1..n, v[k] = w PROVE Holds(c, w)
  <2>1. PICK j \in 1..(m + n) : ~(j <= m) /\ j - m = k
    BY <1>1
  <2>2. c[j] = w
    BY <1>2, <1>6, <2>1
  <2> QED
    BY <1>3, <2>1, <2>2 DEF Holds
<1>7. Holds(c, w) <=> Holds(u, w) \/ Holds(v, w)
  BY <1>1, <1>3, <1>4, <1>5, <1>6, Zenon DEF Holds
<1> QED
  BY <1>7 DEF c

\* What is in the clear and what is committed to are told apart.
LEMMA ClearIsNoDigest ==
  \A a, b : Clear(a) # Digest(b) /\ ~Clear(a).hidden /\ Digest(b).hidden /\ Clear(a).of = a
  BY DEF Clear, Digest

\* What a field publishes of its rule, and of its rule and its predicate.
LEMMA DescribeHolds ==
  ASSUME NEW s \in Salts, NEW rule \in Rules, NEW w
  PROVE  Holds(Describe(rule, s), w) <=>
           \/ w = Clear(rule.anchor)
           \/ rule.is = "literal" /\ w = Digest(ValueCommitmentPreimage(s, rule.text))
<1>1. s # None
  BY SaltsAre
<1>2. CASE rule.is = "literal"
  <2>1. PICK a, b : a = Clear(rule.anchor) /\ b = Digest(ValueCommitmentPreimage(s, rule.text))
    BY Zenon
  <2>2. Describe(rule, s) = <<a, b>>
    BY <1>1, <1>2, <2>1, Zenon DEF Describe, Committed
  <2>3. Holds(Describe(rule, s), w) <=> w = a \/ w = b
    BY <2>2, HoldsTwo
  <2> QED
    BY <1>2, <2>1, <2>3
<1>3. CASE rule.is # "literal"
  <2>1. PICK a : a = Clear(rule.anchor)
    BY Zenon
  <2>2. Describe(rule, s) = <<a>>
    BY <1>3, <2>1, Zenon DEF Describe
  <2>3. Holds(Describe(rule, s), w) <=> w = a
    BY <2>2, HoldsOne, Zenon
  <2> QED
    BY <1>3, <2>1, <2>3
<1> QED
  BY <1>2, <1>3

\* What a field publishes of its predicate.
LEMMA RedactHolds ==
  ASSUME predicate \in Text, NEW s \in Salts, NEW w
  PROVE  LET p  == Trim(predicate)
             op == Operator(p, Evaluated)
         IN Holds(RedactPredicate(predicate, s), w) <=>
              IF ComparesStrings
              THEN w = Clear(op) \/ w = Digest(ValueCommitmentPreimage(s, Unquote(After(op, p))))
              ELSE w = Clear(p)
<1>1. CASE ComparesStrings
  <2>1. PICK a, b : /\ RedactPredicate(predicate, s) = <<a, b>>
                    /\ a = Clear(Operator(Trim(predicate), Evaluated))
                    /\ b = Digest(ValueCommitmentPreimage(s,
                             Unquote(After(Operator(Trim(predicate), Evaluated), Trim(predicate)))))
    BY <1>1, Redacts, Zenon
  <2>2. Holds(RedactPredicate(predicate, s), w) <=> w = a \/ w = b
    BY <2>1, HoldsTwo
  <2> QED
    BY <1>1, <2>1, <2>2
<1>2. CASE ~ComparesStrings
  <2>1. PICK a : RedactPredicate(predicate, s) = <<a>> /\ a = Clear(Trim(predicate))
    BY <1>2, Redacts, Zenon
  <2>2. Holds(RedactPredicate(predicate, s), w) <=> w = a
    BY <2>1, HoldsOne, Zenon
  <2> QED
    BY <1>2, <2>1, <2>2
<1> QED
  BY <1>1, <1>2

\* What a field publishes of both.
LEMMA StatementHolds ==
  ASSUME predicate \in Text, NEW s \in Salts, NEW rule \in Rules, NEW v, NEW w
  PROVE  /\ FieldResult(rule, predicate, s, v).field_selected = Describe(rule, s)
         /\ Holds(FieldResult(rule, predicate, s, v).predicate_statement, w) <=>
              Holds(Describe(rule, s), w) \/ Holds(RedactPredicate(predicate, s), w)
<1>1. /\ FieldResult(rule, predicate, s, v).field_selected = Describe(rule, s)
      /\ FieldResult(rule, predicate, s, v).predicate_statement =
           Describe(rule, s) \o RedactPredicate(predicate, s)
  BY DEF FieldResult
<1>2. PICK S : Describe(rule, s) \in Seq(S) /\ RedactPredicate(predicate, s) \in Seq(S)
  <2>1. PICK a, b : Describe(rule, s) = <<a, b>> \/ Describe(rule, s) = <<a>>
    BY Zenon DEF Describe
  <2>2. PICK c, d :
          RedactPredicate(predicate, s) = <<c, d>> \/ RedactPredicate(predicate, s) = <<c>>
    BY Redacts, Zenon
  <2> DEFINE S == {a, b, c, d}
  <2>3. <<a, b>> \in Seq(S) /\ <<a>> \in Seq(S) /\ <<c, d>> \in Seq(S) /\ <<c>> \in Seq(S)
    OBVIOUS
  <2> QED
    BY <2>1, <2>2, <2>3, Zenon
<1> QED
  BY <1>1, <1>2, HoldsJoined, Zenon

\* With a salt, what a field publishes in the clear is its label and its operator.
THEOREM ValueNeverShown == RulesSpec => []ValueStaysHidden
<1>1. TextsInv => ValueStaysHidden
  <2> SUFFICES ASSUME TextsInv, ComparesStrings, NEW s \in Salts, NEW rule \in Rules,
                      NEW parts,
                      parts = FieldResult(rule, predicate, s, <<"v">>).predicate_statement,
                      NEW k \in DOMAIN parts, ~parts[k].hidden
               PROVE  parts[k].of \in {rule.anchor, EQ, NE, CONTAINS}
    BY Zenon DEF ValueStaysHidden
  <2> DEFINE w  == parts[k]
             op == Operator(Trim(predicate), Evaluated)
  <2>1. Holds(parts, w)
    BY Zenon DEF Holds
  <2>2. Holds(Describe(rule, s), w) \/ Holds(RedactPredicate(predicate, s), w)
    BY <2>1, StatementHolds, Zenon DEF TextsInv
  <2>3. op \in Strings
    BY ComparesIs
  <2>4. \A b : w # Digest(b)
    BY ClearIsNoDigest, Zenon
  <2>5. w = Clear(rule.anchor) \/ w = Clear(op)
    BY <2>2, <2>4, DescribeHolds, RedactHolds, Zenon DEF TextsInv
  <2>6. w.of = rule.anchor \/ w.of = op
    BY <2>5, ClearIsNoDigest, Zenon
  <2> QED
    BY <2>3, <2>6, Zenon DEF Strings
<1> QED
  BY <1>1, TextsWritten, PTL

\* verify-value confirms what was read and what was compared, under the salt of the proof.
LEMMA ValueCheckedHolds == TextsInv => ValueChecked
<1> SUFFICES ASSUME TextsInv, NEW s \in Salts, NEW rule \in Rules, NEW t \in Salts,
                    NEW e \in Values \cup {None}
             PROVE  VerifyValue(FieldResult(rule, predicate, s, <<"v">>), e, t) = "match" <=>
                      t = s /\ ((rule.is = "literal" /\ e = rule.text) \/ Asserts(e))
  BY DEF ValueChecked
<1> DEFINE result == FieldResult(rule, predicate, s, <<"v">>)
           op == Operator(Trim(predicate), Evaluated)
           x  == Unquote(After(op, Trim(predicate)))
           w  == Digest(ValueCommitmentPreimage(t, e))
<1>1. e \in Text
  BY OtherTexts
<1>2. ParseSalt(t) = t /\ t # None /\ t # Invalid
  BY SaltsAre
<1>3. VerifyValue(result, e, t) = "match" <=>
        Holds(Describe(rule, s), w) \/ Holds(result.predicate_statement, w)
  <2>1. result.field_selected = Describe(rule, s)
    BY StatementHolds DEF TextsInv
  <2>2. Wanted(e, t) = w
    BY <1>2, Zenon DEF Wanted
  <2>3. /\ InRule(result, w) <=> Holds(Describe(rule, s), w)
        /\ InPredicate(result, w) <=> Holds(result.predicate_statement, w)
    BY <2>1, Zenon DEF InRule, InPredicate, Holds
  <2>4. VerifyValue(result, e, t) =
          IF InRule(result, w) \/ InPredicate(result, w) THEN "match" ELSE "no match"
    BY <1>2, <2>2, Zenon DEF VerifyValue
  <2>5. "match" # "no match"
    OBVIOUS
  <2>6. VerifyValue(result, e, t) = "match" => InRule(result, w) \/ InPredicate(result, w)
    BY <2>4, <2>5, Zenon
  <2>7. InRule(result, w) \/ InPredicate(result, w) => VerifyValue(result, e, t) = "match"
    BY <2>4, Zenon
  <2> QED
    BY <2>3, <2>6, <2>7, Zenon
<1>4. VerifyValue(result, e, t) = "match" <=>
        Holds(Describe(rule, s), w) \/ Holds(RedactPredicate(predicate, s), w)
  BY <1>3, StatementHolds, Zenon DEF TextsInv
<1>5. Holds(Describe(rule, s), w) <=> rule.is = "literal" /\ t = s /\ e = rule.text
  <2>1. w # Clear(rule.anchor)
    BY ClearIsNoDigest, Zenon
  <2>2. Holds(Describe(rule, s), w) <=>
          rule.is = "literal" /\ w = Digest(ValueCommitmentPreimage(s, rule.text))
    BY <2>1, DescribeHolds
  <2>3. ASSUME rule.is = "literal"
        PROVE  w = Digest(ValueCommitmentPreimage(s, rule.text)) <=> t = s /\ e = rule.text
    <3>1. rule.text \in Text
      BY <2>3, OtherTexts
    <3> QED
      BY <1>1, <3>1, DigestBinds
  <2> QED
    BY <2>2, <2>3
<1>6. Holds(RedactPredicate(predicate, s), w) <=> t = s /\ Asserts(e)
  <2>1. CASE ComparesStrings
    <3>1. op \in Strings
      BY <2>1, ComparesIs
    <3>2. x \in Text
      BY <3>1, OperandType DEF TextsInv
    <3>3. w # Clear(op)
      BY ClearIsNoDigest, Zenon
    <3>4. Holds(RedactPredicate(predicate, s), w) <=> w = Digest(ValueCommitmentPreimage(s, x))
      BY <2>1, <3>3, RedactHolds DEF TextsInv
    <3>5. w = Digest(ValueCommitmentPreimage(s, x)) <=> t = s /\ e = x
      BY <1>1, <3>2, DigestBinds
    <3>6. Asserts(e) <=> e = x
      BY <2>1, Zenon DEF Asserts
    <3> QED
      BY <3>4, <3>5, <3>6
  <2>2. CASE ~ComparesStrings
    <3>1. w # Clear(Trim(predicate))
      BY ClearIsNoDigest, Zenon
    <3>2. ~Holds(RedactPredicate(predicate, s), w)
      BY <2>2, <3>1, RedactHolds DEF TextsInv
    <3> QED
      BY <2>2, <3>2 DEF Asserts
  <2> QED
    BY <2>1, <2>2
<1> QED
  BY <1>4, <1>5, <1>6

\* verify-provenance confirms the body of the proof, under its salt.
LEMMA BodyCheckedHolds == TextsInv => BodyChecked
<1> SUFFICES ASSUME TextsInv, NEW s \in Salts, Len(salt) = Len(s),
                    NEW b \in Bodies, NEW c \in Bodies, NEW result,
                    result = FieldResult([is |-> "json", anchor |-> <<"l">>], <<>>, s, b)
             PROVE  VerifyProvenance(result, c, salt) = "match" <=> salt = s /\ c = b
  BY DEF BodyChecked
<1>1. /\ s \in Text /\ salt \in Text /\ b \in Text /\ c \in Text /\ salt # <<>>
      /\ ParseSalt(s) = s /\ s # Invalid
  <2>1. s \in Text /\ Len(s) >= 1 /\ ParseSalt(s) = s /\ s # Invalid
    BY SaltsAre
  <2>2. salt \in Text /\ b \in Text /\ c \in Text
    BY OtherTexts DEF TextsInv
  <2>3. salt # <<>>
    BY <2>1 DEF Text
  <2> QED
    BY <2>1, <2>2, <2>3
<1>2. result.body_hash = s \o b
  BY DEF FieldResult, CommitmentPreimage
<1>3. CASE ParseSalt(salt) = Invalid
  <2>1. VerifyProvenance(result, c, salt) = "error"
    BY <1>3 DEF VerifyProvenance
  <2> QED
    BY <1>1, <1>3, <2>1
<1>4. CASE ParseSalt(salt) # Invalid
  <2>1. ParseSalt(salt) = salt
    BY <1>1, <1>4, Zenon DEF ParseSalt
  <2>2. VerifyProvenance(result, c, salt) = "match" <=> salt \o c = s \o b
    <3>1. VerifyProvenance(result, c, salt) = IF salt \o c = s \o b THEN "match" ELSE "no match"
      BY <1>2, <1>4, <2>1, Zenon DEF VerifyProvenance, CommitmentPreimage
    <3>2. "match" # "no match"
      OBVIOUS
    <3> QED
      BY <3>1, <3>2, Zenon
  <2>3. salt \o c = s \o b => SameJoined(salt, c, s, b)
    BY Zenon DEF SameJoined
  <2>4. SameJoined(salt, c, s, b) => salt = s /\ c = b
    BY <1>1, SameParts
  <2> QED
    BY <2>2, <2>3, <2>4, Zenon
<1> QED
  BY <1>3, <1>4

\* A revealed salt proves what was committed to, a value or a body, and nothing else.
THEOREM CommitmentsBind == RulesSpec => []CommitmentsChecked
<1>1. TextsInv => CommitmentsChecked
  BY ValueCheckedHolds, BodyCheckedHolds DEF CommitmentsChecked
<1> QED
  BY <1>1, TextsWritten, PTL

\* The salt of the environment is used as it is or refused.
THEOREM SaltsKept == RulesSpec => []SaltNeverDropped
<1>1. SaltNeverDropped
  <2> SUFFICES ASSUME NEW drawn \in Salts,
                      NEW used, used = FreshBodySalt(salt, drawn), used # Invalid
               PROVE  /\ ParseSalt(used) \notin {None, Invalid}
                      /\ salt # <<>> => ParseSalt(used) = salt
    BY Zenon DEF SaltNeverDropped
  <2>1. CASE salt = <<>>
    <3>1. used = drawn
      BY <2>1 DEF FreshBodySalt
    <3> QED
      BY <2>1, <3>1, SaltsAre
  <2>2. CASE salt # <<>>
    <3>1. ParseSalt(salt) # Invalid /\ used = salt
      BY <2>2, Zenon DEF FreshBodySalt
    <3>2. ParseSalt(salt) = salt
      BY <2>2, <3>1, Zenon DEF ParseSalt
    <3> QED
      BY <2>2, <3>1, <3>2 DEF None
  <2> QED
    BY <2>1, <2>2
<1> QED
  BY <1>1, PTL
=============================================================================
