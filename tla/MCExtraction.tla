---------------------------- MODULE MCExtraction ----------------------------
(***************************************************************************)
(* Two explorations of Extraction that share no state.  A body is written  *)
(* one character at a time, and in every state its text is read under      *)
(* every convention, as a whole (normalise_number) and from behind an      *)
(* anchor (extract_anchored).  And days pass: in every state the date is   *)
(* computed from the day, read back from pages that spell it, and used as  *)
(* today's date for an age.                                                *)
(***************************************************************************)
EXTENDS Extraction, FiniteSets

CONSTANTS
  Alphabet,   \* the characters a body is made of
  MaxLen,     \* bound: the length of the longest body, with nothing before its anchor
  Window,     \* how much of a body behind the anchor is looked at
  Start,      \* the first day, with its date
  Eras,       \* where days start to pass, in periods of 400 years from the first day
  Finals,     \* bound: the days on which an exploration of days ends
  Sampled,    \* the days whose spellings are read back
  Births      \* the birth dates an age is computed for

VARIABLES body, day, date

vars == <<body, day, date>>

Anchor == <<"a">>

Date(y, m, d) == [y |-> y, m |-> m, d |-> d]

\* 0000-01-01, the first date four digits can spell, and the first day whose
\* seconds TLC's integers can count.
YearZero  == [day |-> -719528, date |-> Date(0, 1, 1)]
Seconds32 == [day |-> -24855, date |-> Date(1901, 12, 14)]

\* The last date four digits can spell.
LastSpelled == [day |-> 2932896, date |-> Date(9999, 12, 31)]

\* A year before 0, or of five digits, is none the pages of a test can spell, and a
\* birth date is made of digits.
ASSUME ExtractionAssumption ==
  /\ Start \in {YearZero, Seconds32} /\ Eras \subseteq Nat
  /\ \A n \in Sampled : n \in Int /\ n <= LastSpelled.day
  /\ Births \subseteq [y : Nat, m : Nat, d : Nat]

\* From 1999-12-15 to March 2001 and from 2099-03-01 to April 2100: two turns of
\* a century, one of them a leap year.
Centuries == 10940..11400 \cup 47176..47600

SomeBirths == {Date(1896, 2, 29), Date(1900, 3, 1), Date(1970, 1, 1), Date(1996, 2, 29),
               Date(1999, 12, 31), Date(2000, 6, 13)}

\* An exploration of bodies, where no day passes.
FirstDayOnly == {Start.day}

\* From 0000-01-01 four years, the dates before civil_from_days's first period among
\* them; and from 1600-01-01, across the epoch, to 2100-04-29: more than one period.
TwoSpans == {-719528 + 1460, 47600}

\* The calendar repeats every 400 years, which have 146097 days.
Init ==
  /\ body = <<>>
  /\ \E k \in Eras :
       day = Start.day + 146097 * k /\ date = [Start.date EXCEPT !.y = @ + 400 * k]

\* A body that begins with the anchor: what stands before the first is never read.
Labelled == Has(body, 1, Range(Anchor))

\* A body with characters before its anchor is one shorter than others.
Longest(b) == IF Has(b, 1, Range(Anchor)) \/ Range(b) \cap Range(Anchor) = {} THEN MaxLen ELSE MaxLen - 1

Write(c) ==
  /\ day = Start.day
  /\ Len(body) < Longest(body)
  /\ body' = Append(body, c)
  /\ UNCHANGED <<day, date>>

\* The date after x: the next day, month or year valid_ymd accepts.
NextDate(x) ==
  IF ValidYmd(x.y, x.m, x.d + 1) THEN Date(x.y, x.m, x.d + 1)
  ELSE IF ValidYmd(x.y, x.m + 1, 1) THEN Date(x.y, x.m + 1, 1)
  ELSE Date(x.y + 1, 1, 1)

Midnight ==
  /\ body = <<>> /\ day \notin Finals
  /\ day' = day + 1 /\ date' = NextDate(date)
  /\ UNCHANGED body

Next == Midnight \/ \E c \in Alphabet : Write(c)

Spec == Init /\ [][Next]_vars

-----------------------------------------------------------------------------
(* What a number is, stated by its grammar. *)

AllDigits(s) == s # <<>> /\ Range(s) \subseteq Digits

\* An integer: digits, or one to three digits and groups of a separator and three.
Whole(s, fmt) ==
  \/ AllDigits(s)
  \/ \E n \in 1..3 :
       /\ Len(s) > n /\ (Len(s) - n) % 4 = 0
       /\ \A k \in DOMAIN s : s[k] \in IF k > n /\ (k - n) % 4 = 1 THEN Grouping(fmt) ELSE Digits

Numeral(s, fmt) ==
  LET t == IF Has(s, 1, Signs) THEN Tail(s) ELSE s
  IN \/ Whole(t, fmt)
     \/ \E k \in DOMAIN t : /\ t[k] \in Decimal(fmt)
                            /\ Whole(SubSeq(t, 1, k - 1), fmt)
                            /\ AllDigits(SubSeq(t, k + 1, Len(t)))

\* The plain spelling of a numeral: grouping and "+" dropped, a decimal point.
Plainly(s, fmt) ==
  LET kept == Kept(s, Range(s) \ (Grouping(fmt) \cup {"+"}))
  IN [k \in DOMAIN kept |-> IF kept[k] \in Decimal(fmt) THEN "." ELSE kept[k]]

\* What the page states behind the anchor.
Behind == Region(body, Anchor, Len(body))

\* The first number a reader sees in s: from its sign or first digit through
\* every digit, and every separator between two digits, that follows.
Printed(s) ==
  LET p == Least(Starts(s))
      Part(k) == IsDigit(s, k) \/ (Has(s, k, Separators) /\ IsDigit(s, k - 1) /\ IsDigit(s, k + 1))
      e == CHOOSE q \in IntStart(s, p)..(Len(s) + 1) :
             ~Part(q) /\ \A k \in IntStart(s, p)..(q - 1) : Part(k)
  IN SubSeq(s, p, e - 1)

Extracted(fmt) == ExtractAnchored(body, Anchor, Window, [is |-> "number", format |-> fmt])

-----------------------------------------------------------------------------
(* Properties of numbers *)

\* normalise_number accepts the numerals of a convention and nothing else, and
\* what it returns is the same number written plainly (lib.rs 157-222).
NormaliseConforms ==
  \A fmt \in NumberFormats :
    NormaliseNumber(body, fmt) = IF Numeral(body, fmt) THEN Plainly(body, fmt) ELSE None

\* "The residual ambiguity" of lib.rs 169-173 is the only one: two conventions
\* read a text as different numbers only when it is one to three digits, a
\* separator and three digits.
OnlyAmbiguity ==
  \A f, g \in NumberFormats :
    LET x == NormaliseNumber(body, f)
        y == NormaliseNumber(body, g)
        t == IF Has(body, 1, Signs) THEN Tail(body) ELSE body
    IN None \notin {x, y} /\ x # y =>
         /\ Len(t) \in 5..7
         /\ \A k \in DOMAIN t : IF k = Len(t) - 3 THEN t[k] \in Separators ELSE t[k] \in Digits

\* "A match has to be the whole number, not a piece cut out of one written in
\* some other convention" (lib.rs 253): what is extracted is all of the first
\* number that stands behind the anchor.
WholeNumber ==
  \A fmt \in NumberFormats : Extracted(fmt) # None => Extracted(fmt) = Printed(Behind)

\* A page that writes its first number in the declared convention is read.
ConformingIsRead ==
  Occurrences(body, Anchor) # {} /\ Starts(Behind) # {} =>
    \A fmt \in NumberFormats :
      Numeral(Printed(Behind), fmt) => Extracted(fmt) = Printed(Behind)

\* The reader of a number knows its grammar, and the one ambiguity it has.
NumbersConform == NormaliseConforms /\ OnlyAmbiguity

\* The extractor finds a number of the declared convention, and all of it.
NumbersRead == WholeNumber /\ ConformingIsRead

-----------------------------------------------------------------------------
(* Properties of dates *)

\* The two calendars of gps-core agree: civil_from_days (lib.rs 582-593) counts
\* exactly the days valid_ymd (289-299) accepts, in their order.
CalendarsAgree == CivilFromDays(day) = date

Page(x, fmt) == Anchor \o Spelled(x, fmt) \o <<"x">>
ReadAs(page, fmt) == ExtractAnchored(page, Anchor, Len(page), [is |-> "date", format |-> fmt])

\* What a date written in one format says to a reader of another: the same
\* order of fields reads it, day and month may be swapped, nothing else is a date.
Understood(x, f, g) ==
  IF f = g THEN Spelled(x, "Iso")
  ELSE IF {f, g} = {"DmySlash", "MdySlash"} /\ ValidYmd(x.y, x.d, x.m)
  THEN Spelled(Date(x.y, x.d, x.m), "Iso")
  ELSE None

\* "Each names one unambiguous reading; the extractor never guesses between
\* them" (lib.rs 97-99): a page is read in the declared format or not at all,
\* whatever format its date is written in, and always as the ISO spelling.
ReadAsDeclared ==
  day \in Sampled => \A f, g \in DateFormats : ReadAs(Page(date, f), g) = Understood(date, f, g)

\* A day that is not on the calendar is refused in every format (lib.rs 285-288):
\* after the last day of a month as civil_from_days counts them, the rest up to 32.
NoSuchDayRefused ==
  day \in Sampled /\ CivilFromDays(day + 1).d = 1 =>
    \A f \in DateFormats, d \in (date.d + 1)..32 :
      ReadAs(Page(Date(date.y, date.m, d), f), f) = None

\* A date with digits at either side is a piece of something longer and refused
\* (lib.rs 310-313).
PieceRefused ==
  day \in Sampled => \A f \in DateFormats : LET s == Spelled(date, f) IN
    /\ ReadAs(<<"a", "7">> \o s, f) = None
    /\ ReadAs(<<"a">> \o s \o <<"7">>, f) = None

\* Every date is on the calendar and read as it was meant, or not read.
DatesReadBack == CalendarsAgree /\ ReadAsDeclared /\ NoSuchDayRefused /\ PieceRefused

\* The first and the last second of the day, where TLC's integers reach.
Instants == IF day \in -24855..24854 THEN {day * 86400, day * 86400 + 86399} ELSE {}

AtLeast(x, y, m, d) == x.y > y \/ (x.y = y /\ (x.m > m \/ (x.m = m /\ x.d >= d)))

\* "counts leap years and only ticks over on/after the birthday" (lib.rs 595-596):
\* from birth on, the age is the number of birthdays that have come.
AgeCountsBirthdays ==
  \A b \in Births, now \in Instants :
    AtLeast(date, b.y, b.m, b.d) =>
      AgeYears(b, now) = Cardinality({y \in (b.y + 1)..date.y : AtLeast(date, y, b.m, b.d)})

\* "age is calendar-correct" (README.md 58, main.rs 503): the age predicate takes
\* a birth date in a format it can split for what it says, or refuses it.
AgeOfStatedDate ==
  \A b \in Births, f \in {"Iso", "IsoSlash", "DmySlash"}, now \in Instants :
    ComputeAge(Spelled(b, f), now) \in {NoAge, AgeYears(b, now)}
=============================================================================
