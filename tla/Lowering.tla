------------------------------ MODULE Lowering ------------------------------
(***************************************************************************)
(* From a field specification to the rule of a proof: the patterns the     *)
(* content script writes and how the host lowers them to anchored rules    *)
(* (src/zkvm/host/src/main.rs, 440-569).                                   *)
(*                                                                         *)
(* A pattern is a sequence of characters and of the longer pieces the host *)
(* looks for, which hold a metacharacter or a colon each.                  *)
(***************************************************************************)
EXTENDS Extraction

\* What has a meaning in a pattern unless a backslash stands before it.
Escapable == {"\\", "^", "$", ".", "|", "?", "*", "+", "(", ")", "[", "]", "{", "}"}

\* The patterns of a number and of a date, and the convention each one names.
NumberKind ==
  [s \in {"[+-]?[0-9]+(\\.[0-9]+)?", "[+-]?[0-9]{1,3}(\\.[0-9]{3})+(,[0-9]+)?",
          "[+-]?[0-9]+,[0-9]+", "[+-]?[0-9]{1,3}(,[0-9]{3})+(\\.[0-9]+)?"} |->
     CASE s = "[+-]?[0-9]+(\\.[0-9]+)?" -> "Plain"
       [] s = "[+-]?[0-9]{1,3}(,[0-9]{3})+(\\.[0-9]+)?" -> "UsGrouped"
       [] OTHER -> "EuGrouped"]

DateShapes ==
  {"[0-9]{4}-[0-9]{2}-[0-9]{2}", "[0-9]{4}/[0-9]{2}/[0-9]{2}", "[0-9]{2}/[0-9]{2}/[0-9]{4}",
   "[0-9]{2}-[0-9]{2}-[0-9]{4}", "[0-9]{2}\\.[0-9]{2}\\.[0-9]{4}"}

\* Mutant: a date with dashes is taken for one that begins with the year.
DateKindDashed ==
  [s \in DateShapes |->
     CASE s = "[0-9]{4}/[0-9]{2}/[0-9]{2}" -> "IsoSlash"
       [] s = "[0-9]{2}/[0-9]{2}/[0-9]{4}" -> "DmySlash"
       [] s = "[0-9]{2}\\.[0-9]{2}\\.[0-9]{4}" -> "DmyDot"
       [] OTHER -> "Iso"]

DateKind ==
  [s \in DateShapes |->
     CASE s = "[0-9]{4}-[0-9]{2}-[0-9]{2}" -> "Iso"
       [] s = "[0-9]{4}/[0-9]{2}/[0-9]{2}" -> "IsoSlash"
       [] s = "[0-9]{2}/[0-9]{2}/[0-9]{4}" -> "DmySlash"
       [] s = "[0-9]{2}-[0-9]{2}-[0-9]{4}" -> "DmyDash"
       [] s = "[0-9]{2}\\.[0-9]{2}\\.[0-9]{4}" -> "DmyDot"]

Pieces == {"(?s)", ".{0,", "|||"} \cup DOMAIN NumberKind \cup DateShapes

\* The first position of a piece or a character, or 0.
Find(s, c) == LET at == {k \in DOMAIN s : s[k] = c} IN IF at = {} THEN 0 ELSE Least(at)

From(s, k) == SubSeq(s, k, Len(s))
DropPrefix(s, t) == IF IsPrefix(t, s) THEN From(s, Len(t) + 1) ELSE s
DropSuffix(s, t) == IF IsSuffix(t, s) THEN SubSeq(s, 1, Len(s) - Len(t)) ELSE s

-----------------------------------------------------------------------------
(* Literals *)

\* escapeRegex of the content script.
EscapeRegex(s) ==
  LET out[k \in 0..Len(s)] ==
        IF k = 0 THEN <<>>
        ELSE out[k - 1] \o (IF s[k] \in Escapable THEN <<"\\", s[k]>> ELSE <<s[k]>>)
  IN out[Len(s)]

\* Mutant: a backslash is dropped before whatever follows it.
EscapedLoosely(c) == TRUE

\* What a backslash may stand before.
Escaped(c) == c \in Escapable

\* One character of an escaped literal: read is what was unescaped so far.
Unescape(read, c) ==
  IF read.slash THEN [text |-> Append(read.text, c), slash |-> FALSE,
                      ok |-> read.ok /\ Escaped(c)]
  ELSE IF c = "\\" THEN [read EXCEPT !.slash = TRUE]
  ELSE [read EXCEPT !.text = Append(@, c), !.ok = @ /\ c \notin Escapable \cup Pieces]

\* What unescape_literal knows at the end of s.
Reading(s) ==
  LET read[k \in 0..Len(s)] ==
        IF k = 0 THEN [text |-> <<>>, slash |-> FALSE, ok |-> TRUE]
        ELSE Unescape(read[k - 1], s[k])
  IN read[Len(s)]

\* unescape_literal: the literal, or None for a real pattern.
UnescapeLiteral(s) == IF Reading(s).ok /\ ~Reading(s).slash THEN Reading(s).text ELSE None

-----------------------------------------------------------------------------
(* Rules *)

WordBoundary == <<"\\", "b">>

\* What a group captures: a date, a number, or a literal, which may be None.
KindOf(inner) ==
  IF Len(inner) = 1 /\ inner[1] \in DateShapes
  THEN [is |-> "date", format |-> DateKind[inner[1]]]
  ELSE IF Len(inner) = 1 /\ inner[1] \in DOMAIN NumberKind
  THEN [is |-> "number", format |-> NumberKind[inner[1]]]
  ELSE [is |-> "literal", text |-> UnescapeLiteral(inner)]

Regex(pattern) == [is |-> "regex", pattern |-> pattern]
Anchored(anchor, window, kind) ==
  [is |-> "anchored", anchor |-> anchor, window |-> window, kind |-> kind]

\* The label a raw search finds.
AnchorText(s) == UnescapeLiteral(s)

\* regex_to_anchored: label, bounded gap and one group, or the pattern itself.
RegexToAnchored(pattern) ==
  LET p      == DropPrefix(pattern, <<"(?s)">>)
      gap    == Find(p, ".{0,")
      rest   == From(p, gap + 1)
      brace  == Find(rest, "}")
      digits == Unsigned(SubSeq(rest, 1, brace - 1))
      after  == DropPrefix(From(rest, brace + 1), <<"?">>)
      inner  == DropSuffix(DropPrefix(SubSeq(after, 2, Len(after) - 1), WordBoundary),
                           WordBoundary)
      anchor == AnchorText(SubSeq(p, 1, gap - 1))
  IN IF /\ gap > 0 /\ anchor # None
        /\ brace > 0 /\ digits # <<>> /\ Range(digits) \subseteq Digits
        /\ Len(after) > 1 /\ after[1] = "(" /\ after[Len(after)] = ")"
        /\ KindOf(inner) # [is |-> "literal", text |-> None]
     THEN Anchored(anchor, NumberOf(digits), KindOf(inner)) ELSE Regex(pattern)

\* Every "regex:" in front is stripped.
Stripped(s) ==
  From(s, CHOOSE k \in 1..(Len(s) + 1) :
            ~Has(s, k, {"regex:"}) /\ \A j \in 1..(k - 1) : s[j] = "regex:")

\* parse_field_spec: the rule and the label of a field.
ParseFieldSpec(spec) ==
  LET rest == Stripped(spec)
      bar  == Find(rest, "|||")
      pattern == IF bar = 0 THEN rest ELSE SubSeq(rest, 1, bar - 1)
  IN IF Has(spec, 1, {"regex:"})
     THEN [rule |-> RegexToAnchored(pattern),
           label |-> IF bar = 0 THEN rest ELSE From(rest, bar + 1)]
     ELSE [rule |-> [is |-> "json", path |-> spec], label |-> spec]

-----------------------------------------------------------------------------
(* What the extension writes *)

Group(captured) == <<"(">> \o captured \o <<")">>

\* buildContextRegex.
ContextRegex(label, captured) ==
  EscapeRegex(label) \o <<".{0,", "3", "0", "0", "}", "?">> \o Group(captured)

\* A bar in a label becomes a blank.
LabelText(label) == [k \in DOMAIN label |-> IF label[k] = "|" THEN " " ELSE label[k]]

\* labelledField of the popup, for the pattern of a field.
LabelledField(pattern, label) ==
  <<"regex:">> \o pattern \o
  (IF LabelText(label) = <<>> THEN <<>> ELSE <<"|||">> \o LabelText(label))
=============================================================================
