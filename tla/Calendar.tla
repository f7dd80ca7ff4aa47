------------------------------ MODULE Calendar ------------------------------
(***************************************************************************)
(* Calendar arithmetic of gps-core (src/zkvm/gps-core/src/lib.rs) and the  *)
(* age predicate of the guest.  The code holds two calendars written       *)
(* independently: valid_ymd decides which dates a page may state, and      *)
(* civil_from_days computes today's date for an age.                       *)
(***************************************************************************)
EXTENDS Integers

\* The proleptic Gregorian leap rule.
Leap(y) == (y % 4 = 0 /\ y % 100 # 0) \/ y % 400 = 0

LastDay(y, m) ==
  IF m = 2 THEN (IF Leap(y) THEN 29 ELSE 28)
  ELSE IF m \in {4, 6, 9, 11} THEN 30 ELSE 31

\* valid_ymd; the numbers are parsed from digits, so none is negative.
ValidYmd(y, m, d) == m \in 1..12 /\ d \in 1..LastDay(y, m)

\* Rust's integer division truncates towards zero.
Quotient(a, b) == IF a >= 0 THEN a \div b ELSE -((-a) \div b)

\* The 400-year era of day z after 0000-03-01.
Era(z) == Quotient(IF z >= 0 THEN z ELSE z - 146096, 146097)

\* civil_from_days: the date of a day counted from 1970-01-01.
CivilFromDays(days) ==
  LET z   == days + 719468
      era == Era(z)
      doe == z - era * 146097
      yoe == Quotient(doe - Quotient(doe, 1460) + Quotient(doe, 36524) - Quotient(doe, 146096), 365)
      doy == doe - (365 * yoe + Quotient(yoe, 4) - Quotient(yoe, 100))
      mp  == Quotient(5 * doy + 2, 153)
      m   == IF mp < 10 THEN mp + 3 ELSE mp - 9
  IN [y |-> yoe + era * 400 + (IF m <= 2 THEN 1 ELSE 0),
      m |-> m,
      d |-> doy - Quotient(153 * mp + 2, 5) + 1]

\* Mutant: the birthday itself does not count.
BeforeBirthdayInclusive(m, d, birth) == m < birth.m \/ (m = birth.m /\ d <= birth.d)

\* Today's month and day come before the birthday's.
BeforeBirthday(m, d, birth) == m < birth.m \/ (m = birth.m /\ d < birth.d)

\* age_years, of a birth date at a time in seconds.
AgeYears(birth, now_secs) ==
  LET now == CivilFromDays(now_secs \div 86400)
  IN now.y - birth.y - (IF BeforeBirthday(now.m, now.d, birth) THEN 1 ELSE 0)
=============================================================================
