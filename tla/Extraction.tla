----------------------------- MODULE Extraction -----------------------------
(***************************************************************************)
(* Anchored extraction (src/zkvm/gps-core/src/lib.rs, 78-412) and the      *)
(* numeric and age readings of an extracted value.  Host and guest share   *)
(* this code: it decides which token of a signed page a proof is about.    *)
(*                                                                         *)
(* A text is a sequence of one-character strings; the empty sequence,      *)
(* None, stands for Option::None, since no token is empty.                 *)
(***************************************************************************)
EXTENDS Calendar, SequencesExt

None == <<>>

DigitNames == <<"0", "1", "2", "3", "4", "5", "6", "7", "8", "9">>
Digits == Range(DigitNames)
DigitValue == [c \in Digits |-> CHOOSE n \in 0..9 : DigitNames[n + 1] = c]
Separators == {".", ","}
Signs == {"+", "-"}

\* The character of s at k is one of cs; no position outside s has one.
Has(s, k, cs) == k \in DOMAIN s /\ s[k] \in cs
IsDigit(s, k) == Has(s, k, Digits)

\* The end of the run of digits that starts at p, exclusive.
RunEnd(s, p) ==
  CHOOSE q \in p..(Len(s) + 1) : ~IsDigit(s, q) /\ \A k \in p..(q - 1) : IsDigit(s, k)

Least(S) == CHOOSE x \in S : \A y \in S : x <= y

\* The characters of s that are among cs, in their order.
Kept(s, cs) ==
  LET kept[k \in 0..Len(s)] ==
        IF k = 0 THEN <<>>
        ELSE IF s[k] \in cs THEN Append(kept[k - 1], s[k]) ELSE kept[k - 1]
  IN kept[Len(s)]

-----------------------------------------------------------------------------
(* Numbers *)

NumberFormats == {"Plain", "EuGrouped", "UsGrouped"}

\* The characters that group thousands, and the one that begins the fraction.
Grouping(fmt) == IF fmt = "EuGrouped" THEN {"."} ELSE IF fmt = "UsGrouped" THEN {","} ELSE {}
Decimal(fmt) == IF fmt = "EuGrouped" THEN {","} ELSE {"."}

IntStart(s, p) == IF Has(s, p, Signs) THEN p + 1 ELSE p

\* A grouping separator at j and exactly three digits.
GroupAt(s, j, fmt) ==
  /\ Has(s, j, Grouping(fmt))
  /\ \A k \in (j + 1)..(j + 3) : IsDigit(s, k)
  /\ ~IsDigit(s, j + 4)

\* The end of the thousands groups that start at i.
GroupsEnd(s, i, fmt) ==
  i + 4 * CHOOSE n \in 0..Len(s) :
            /\ ~GroupAt(s, i + 4 * n, fmt)
            /\ \A k \in 0..(n - 1) : GroupAt(s, i + 4 * k, fmt)

\* The end of the fraction that starts at i, if one does.
FractionEnd(s, i, fmt) ==
  IF Has(s, i, Decimal(fmt)) /\ IsDigit(s, i + 1) THEN RunEnd(s, i + 1) ELSE i

\* Mutant: nothing looks at what follows the token.
ContinuesNever(s, p, e) == FALSE

\* The token s[p..e-1] is a piece of a longer number.
Continues(s, p, e) ==
  \/ IsDigit(s, p - 1)
  \/ Has(s, p - 1, Separators) /\ IsDigit(s, p - 2)
  \/ Has(s, e, Separators) /\ IsDigit(s, e + 1)

\* number_at: the number that starts at p.
NumberAt(s, p, fmt) ==
  LET i == IntStart(s, p)
      e == FractionEnd(s, GroupsEnd(s, RunEnd(s, i), fmt), fmt)
  IN IF IsDigit(s, i) /\ ~Continues(s, p, e) THEN SubSeq(s, p, e - 1) ELSE None

\* Where a number may start: at a digit, or at a sign before one.
Starts(s) == {p \in DOMAIN s : IsDigit(s, IntStart(s, p))}

\* The first number decides; if it does not conform, nothing is read.
ReadNumber(s, fmt) == IF Starts(s) = {} THEN None ELSE NumberAt(s, Least(Starts(s)), fmt)

\* Mutant: the run before the first group may be of any length.
LeadFitsAny(n, grouped) == n > 0

\* Before a group stand one to three digits, otherwise any number of them.
LeadFits(n, grouped) == n > 0 /\ (grouped => n <= 3)

\* Nothing may follow the number.
Complete(s, last) == last = Len(s) + 1

\* normalise_number: the plain decimal spelling of s, or None when s does not
\* conform to fmt.
NormaliseNumber(s, fmt) ==
  LET start == IntStart(s, 1)
      lead  == RunEnd(s, start)
      ends  == GroupsEnd(s, lead, fmt)
      whole == Kept(SubSeq(s, start, ends - 1), Digits)
      last  == FractionEnd(s, ends, fmt)
  IN IF LeadFits(lead - start, ends > lead) /\ Complete(s, last)
     THEN (IF Has(s, 1, {"-"}) THEN <<"-">> ELSE <<>>) \o whole
          \o (IF last > ends THEN <<".">> \o SubSeq(s, ends + 1, last - 1) ELSE <<>>)
     ELSE None

-----------------------------------------------------------------------------
(* Dates *)

DateFormats == {"Iso", "IsoSlash", "DmySlash", "MdySlash", "DmyDash", "DmyDot"}

DateSeparator(fmt) ==
  IF fmt \in {"Iso", "DmyDash"} THEN "-" ELSE IF fmt = "DmyDot" THEN "." ELSE "/"

\* The fields of a date in the order a format writes them.
DateFields(fmt) ==
  IF fmt \in {"Iso", "IsoSlash"} THEN <<"y", "m", "d">>
  ELSE IF fmt = "MdySlash" THEN <<"m", "d", "y">> ELSE <<"d", "m", "y">>

Width(field) == IF field = "y" THEN 4 ELSE 2

\* take_digits, and the parse of a run of digits: the number of the first k, and of all.
NumberOf(s) ==
  LET v[k \in 0..Len(s)] == IF k = 0 THEN 0 ELSE 10 * v[k - 1] + DigitValue[s[k]]
  IN v[Len(s)]

\* alloc_iso and its inverse for any format: n in the given width.
Padded(n, width) == [k \in 1..width |-> DigitNames[((n \div 10^(width - k)) % 10) + 1]]

Spelled(date, fmt) ==
  LET F == DateFields(fmt)
      Part(k) == Padded(date[F[k]], Width(F[k]))
      sep == <<DateSeparator(fmt)>>
  IN Part(1) \o sep \o Part(2) \o sep \o Part(3)

\* Where the k-th field starts, relative to the date.
Offset(fmt, k) ==
  LET F == DateFields(fmt)
  IN IF k = 1 THEN 0 ELSE IF k = 2 THEN Width(F[1]) + 1 ELSE Width(F[1]) + Width(F[2]) + 2

FieldText(s, p, fmt, k) ==
  SubSeq(s, p + Offset(fmt, k), p + Offset(fmt, k) + Width(DateFields(fmt)[k]) - 1)

\* Mutant: a date may be cut out of a longer run of digits.
StandsAloneNever(s, p) == TRUE

\* No digit precedes or follows the ten characters at p.
StandsAlone(s, p) == ~IsDigit(s, p - 1) /\ ~IsDigit(s, p + 10)

\* date_at: the characters at p have the shape of fmt and name a calendar date.
DateAt(s, p, fmt) ==
  LET F == DateFields(fmt)
      shaped == /\ p + 9 <= Len(s)
                /\ \A k \in 1..3 : Range(FieldText(s, p, fmt, k)) \subseteq Digits
                /\ \A k \in 2..3 : Has(s, p + Offset(fmt, k) - 1, {DateSeparator(fmt)})
      date == [f \in Range(F) |-> NumberOf(FieldText(s, p, fmt, CHOOSE k \in 1..3 : F[k] = f))]
  IN IF shaped /\ StandsAlone(s, p) /\ ValidYmd(date.y, date.m, date.d)
     THEN Spelled(date, "Iso") ELSE None

\* The first date of the format wins.
ReadDate(s, fmt) ==
  LET found == {p \in DOMAIN s : DateAt(s, p, fmt) # None}
  IN IF found = {} THEN None ELSE DateAt(s, Least(found), fmt)

-----------------------------------------------------------------------------
(* extract_anchored *)

Occurrences(s, needle) ==
  {p \in 1..(Len(s) - Len(needle) + 1) : SubSeq(s, p, p + Len(needle) - 1) = needle}

\* What follows the first anchor, at most window characters of it.
Region(body, anchor, window) ==
  LET start == Least(Occurrences(body, anchor)) + Len(anchor)
  IN SubSeq(body, start, IF start + window - 1 <= Len(body) THEN start + window - 1 ELSE Len(body))

Read(s, kind) ==
  CASE kind.is = "number"  -> ReadNumber(s, kind.format)
    [] kind.is = "literal" -> IF Occurrences(s, kind.text) # {} THEN kind.text ELSE None
    [] kind.is = "date"    -> ReadDate(s, kind.format)

ExtractAnchored(body, anchor, window, kind) ==
  IF Occurrences(body, anchor) = {} THEN None ELSE Read(Region(body, anchor, window), kind)

-----------------------------------------------------------------------------
(* The age predicate of the guest *)

\* compute_age: year, month and day are the three parts of the value, in this
\* order, between dashes or slashes.  NoAge, which no date yields, is a panic.
NoAge == -100000

\* The digits of a part that i64 parses; it may begin with a plus.
Unsigned(part) == IF Has(part, 1, {"+"}) THEN Tail(part) ELSE part

ComputeAge(value, now_secs) ==
  LET cuts == {k \in DOMAIN value : value[k] \in {"-", "/"}}
      a == Least(cuts)
      b == Least(cuts \ {a})
      parts == <<Unsigned(SubSeq(value, 1, a - 1)), Unsigned(SubSeq(value, a + 1, b - 1)),
                 Unsigned(SubSeq(value, b + 1, Len(value)))>>
  IN IF /\ \E x, y \in cuts : cuts = {x, y} /\ x # y
        /\ \A k \in 1..3 : parts[k] # <<>> /\ Range(parts[k]) \subseteq Digits
     THEN AgeYears([y |-> NumberOf(parts[1]), m |-> NumberOf(parts[2]),
                    d |-> NumberOf(parts[3])], now_secs)
     ELSE NoAge
=============================================================================
