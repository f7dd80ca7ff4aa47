------------------------------ MODULE MCRules ------------------------------
(***************************************************************************)
(* From what a user points at to what a verifier learns: the explorations  *)
(* of MCExtraction, and three more that share no state with them.  A       *)
(* literal, a predicate and a salt are written one character at a time;    *)
(* in every state the literal becomes a label and a value of a field, the  *)
(* predicate is evaluated, published and checked, the salt is parsed.      *)
(***************************************************************************)
EXTENDS MCExtraction, Lowering, Disclosure

CONSTANTS
  Letters,      \* the characters of a literal
  MaxLiteral,   \* bound: the length of the longest literal
  Words,        \* the characters of a predicate
  MaxPredicate, \* bound: the length of the longest predicate
  SaltLetters,  \* the characters of a salt
  MaxSalt,      \* bound: the length of the longest salt
  Salts,        \* the salts a commitment is made and checked under
  Values,       \* the values a predicate is evaluated for
  Rules,        \* the rules a value is read by
  Bodies        \* the bodies a proof is about

VARIABLES literal, predicate, salt

texts == <<literal, predicate, salt>>
all   == <<vars, texts>>

\* A letter is one character and no pattern; fresh_body_salt draws salts of one
\* length, and parse_salt accepts them.
ASSUME RulesAssumption ==
  /\ Letters \cap Pieces = {}
  /\ Words \subseteq STRING /\ SaltLetters \subseteq STRING
  /\ HexDigits \subseteq STRING /\ Tag \in Seq(STRING)
  /\ \A s \in Salts : s \in Seq(HexDigits) /\ Len(s) % 2 = 0 /\ Len(s) >= MinSalt
  /\ \A s, t \in Salts : Len(s) = Len(t)
  /\ Values \subseteq Seq(STRING) /\ Bodies \subseteq Seq(STRING)
  /\ \A rule \in Rules : /\ rule.is \in {"number", "literal"} /\ rule.anchor \in Seq(STRING)
                         /\ rule.is = "literal" => rule.text \in Seq(STRING)

SomeLetters == {"a", "b", "\\", ".", "|", " ", "regex:", "8"}
SomeWords   == {"=", "!", ">", "<", " ", "\"", "contains", "age", "5", "v"}

\* A tag that a salt may begin with.
TheTag == <<"f", "0">>

SomeSalts  == {<<"0", "0", "0", "0">>, <<"0", "f", "0", "f">>}
SomeValues == {<<"v">>, <<"5">>, <<"5", ".", "5", "0", "0">>,
               <<"2", "0", "0", "0", "-", "0", "1", "-", "0", "2">>}
SomeRules  == {[is |-> "number", anchor |-> <<"l">>, format |-> "Plain"],
               [is |-> "literal", anchor |-> <<"l">>, text |-> <<"v">>]}
SomeBodies == SomeValues \cup {<<"0", "v">>, <<"f", "0">>}

RulesInit == Init /\ literal = <<>> /\ predicate = <<>> /\ salt = <<>>

\* Nothing else has been written, and no day has passed.
Alone(t) == body = <<>> /\ day = Start.day /\ \A k \in 1..3 : texts[k] \in {t, <<>>}

WriteLiteral(c) ==
  /\ Alone(literal) /\ Len(literal) < MaxLiteral
  /\ literal' = Append(literal, c)
  /\ UNCHANGED <<vars, predicate, salt>>

WritePredicate(c) ==
  /\ Alone(predicate) /\ Len(predicate) < MaxPredicate
  /\ predicate' = Append(predicate, c)
  /\ UNCHANGED <<vars, literal, salt>>

WriteSalt(c) ==
  /\ Alone(salt) /\ Len(salt) < MaxSalt
  /\ salt' = Append(salt, c)
  /\ UNCHANGED <<vars, literal, predicate>>

RulesNext ==
  \/ texts = <<<<>>, <<>>, <<>>>> /\ Next /\ UNCHANGED texts
  \/ \E c \in Letters : WriteLiteral(c)
  \/ \E c \in Words : WritePredicate(c)
  \/ \E c \in SaltLetters : WriteSalt(c)

RulesSpec == RulesInit /\ [][RulesNext]_all
-----------------------------------------------------------------------------
(* Properties of lowering *)

\* "Returns None when the string contains a backslash sequence escapeRegex would
\* never produce, or an unescaped metacharacter" (main.rs 473-475): it undoes the
\* escaping of every literal and takes nothing else for an escaped one.
UnescapeInverts ==
  /\ literal # None => UnescapeLiteral(EscapeRegex(literal)) = literal
  /\ UnescapeLiteral(literal) # None => EscapeRegex(UnescapeLiteral(literal)) = literal

\* A trimmed text as the page shows it; one that begins with "regex:" loses that.
Shown == literal # None /\ Trim(literal) = literal /\ literal[1] # "regex:"

EndsInBoundary(s) == IsSuffix(WordBoundary, EscapeRegex(s))

\* What the extension writes for a label, and for a label and a text, is lowered to
\* that label, the window and the number or the text, whatever characters they hold
\* (main.rs 504-512); only a text that ends in "\b" keeps its pattern.
EmittedIsLowered ==
  Shown =>
    /\ \A shape \in DOMAIN NumberKind :
         ParseFieldSpec(LabelledField(ContextRegex(literal, <<shape>>), literal)) =
           [rule |-> Anchored(literal, 300, [is |-> "number", format |-> NumberKind[shape]]),
            label |-> LabelText(literal)]
    /\ LET pattern == ContextRegex(<<"l">>, EscapeRegex(literal)) IN
       ParseFieldSpec(LabelledField(pattern, <<"l">>)) =
         [rule |-> IF EndsInBoundary(literal) THEN Regex(pattern)
                   ELSE Anchored(<<"l">>, 300, [is |-> "literal", text |-> literal]),
          label |-> <<"l">>]

\* No literal is lost or invented between the page and the rule.
LiteralsSurvive == UnescapeInverts /\ EmittedIsLowered

\* The group of a number pattern matches all of s.
Fits(s, shape) ==
  CASE shape = "[+-]?[0-9]+(\\.[0-9]+)?" -> Numeral(s, "Plain")
    [] shape = "[+-]?[0-9]{1,3}(\\.[0-9]{3})+(,[0-9]+)?" -> "." \in Range(s) /\ Numeral(s, "EuGrouped")
    [] shape = "[+-]?[0-9]+,[0-9]+" ->
         "," \in Range(s) /\ "." \notin Range(s) /\ Numeral(s, "EuGrouped")
    [] shape = "[+-]?[0-9]{1,3}(,[0-9]{3})+(\\.[0-9]+)?" -> "," \in Range(s) /\ Numeral(s, "UsGrouped")

\* What the pattern of a shape captures: from the first anchor that leads to a
\* match, over the smallest gap, as much as matches.
Captured(shape) ==
  LET Ends(p)   == {q \in p..Len(body) : Fits(SubSeq(body, p, q), shape)}
      Begins(a) == {p \in (a + 1)..Len(body) : p <= a + 1 + Window /\ Ends(p) # {}}
      anchors   == {a \in Occurrences(body, Anchor) : Begins(a) # {}}
      p         == Least(Begins(Least(anchors)))
  IN IF anchors = {} THEN None
     ELSE SubSeq(body, p, CHOOSE q \in Ends(p) : \A r \in Ends(p) : r <= q)

\* What the lowered rule reads.
LoweredRule ==
  [shape \in DOMAIN NumberKind |->
     RegexToAnchored(Anchor \o <<".{0,">> \o Padded(Window, 4) \o <<"}", "?">> \o Group(<<shape>>))]

Lowered(shape) ==
  LET rule == LoweredRule[shape] IN ExtractAnchored(body, rule.anchor, rule.window, rule.kind)

\* Lowering keeps what a pattern captures (main.rs 498): a number in the shape the
\* pattern names is read as the pattern captures it, and a captured number that is
\* the whole first number behind the label is read.
LoweredAgrees ==
  Labelled => \A shape \in DOMAIN NumberKind :
    /\ Fits(Lowered(shape), shape) => Captured(shape) = Lowered(shape)
    /\ Captured(shape) # None /\ Captured(shape) = Printed(Behind) =>
         Lowered(shape) = Captured(shape)

\* "Both paths are sound; they differ only in cost" (main.rs 498): where a pattern
\* captures a number, its lowered rule reads that number or nothing.
LoweringKeepsReading ==
  Labelled => \A shape \in DOMAIN NumberKind :
    Captured(shape) # None => Lowered(shape) \in {None, Captured(shape)}

\* The date pattern matches s: the year's place and the separators.
FitsDate(s, shape) ==
  LET sep   == CASE shape \in {"[0-9]{4}-[0-9]{2}-[0-9]{2}", "[0-9]{2}-[0-9]{2}-[0-9]{4}"} -> "-"
                 [] shape \in {"[0-9]{4}/[0-9]{2}/[0-9]{2}", "[0-9]{2}/[0-9]{2}/[0-9]{4}"} -> "/"
                 [] OTHER -> "."
      first == IF shape \in {"[0-9]{4}-[0-9]{2}-[0-9]{2}", "[0-9]{4}/[0-9]{2}/[0-9]{2}"}
               THEN {5, 8} ELSE {3, 6}
  IN {k \in DOMAIN s : s[k] = sep} = first

\* A date that a pattern matches is read for what the page says, in every format
\* but the one that puts the month first, which no pattern names (main.rs 542-549).
LoweredDate ==
  day \in Sampled =>
    \A f \in DateFormats \ {"MdySlash"}, shape \in DateShapes :
      FitsDate(Spelled(date, f), shape) =>
        LET rule == RegexToAnchored(Anchor \o <<".{0,", "9", "}", "?">> \o Group(<<shape>>))
        IN ExtractAnchored(Page(date, f), rule.anchor, 20, rule.kind) = Spelled(date, "Iso")

\* Both: what a pattern or a date pattern names is read as it names it.
LoweringAgrees == LoweredAgrees /\ LoweredDate

-----------------------------------------------------------------------------
(* Properties of predicates *)

Verdict0(value, fmt) == EvaluatePredicate(predicate, value, fmt, 0)

\* The predicate compares strings: it is decided for a value that is no number, in
\* no convention.
ComparesStrings == Verdict0(<<"v">>, "none") # "panic"

\* "an ordering predicate on a field with no declared convention aborts rather than
\* guessing" (lib.rs 625): a verdict reached without a convention is the verdict
\* under every one.
NoReadingGuessed ==
  \A v \in Values : Verdict0(v, "none") # "panic" =>
    \A fmt \in NumberFormats : Verdict0(v, fmt) = Verdict0(v, "none")

\* gps-core splits a predicate to publish it, the guest splits it to evaluate it
\* (lib.rs 498, main.rs 447): what is committed to is the operand the value was
\* compared with, by the operator that is published.
CommitsToCompared ==
  ComparesStrings =>
    \A s \in Salts : LET parts == RedactPredicate(predicate, s) IN
      /\ Len(parts) = 2 /\ parts[2].hidden
      /\ \A v \in Values :
           Verdict0(v, "none") =
             Verdict(StringHolds(parts[1].of, v, After(Tag \o s, parts[2].of)))

\* "A party who does not know it learns nothing" (lib.rs 472): with a salt, what a
\* field publishes in the clear is its label and its operator, never the literal it
\* reads nor the text it compares.
ValueStaysHidden ==
  ComparesStrings =>
    \A s \in Salts, rule \in Rules :
      LET parts == FieldResult(rule, predicate, s, <<"v">>).predicate_statement IN
      \A k \in DOMAIN parts :
        ~parts[k].hidden => parts[k].of \in {rule.anchor, EQ, NE, CONTAINS}

\* The predicate asserts something of the text e.
Asserts(e) ==
  ComparesStrings /\ Unquote(After(Operator(Trim(predicate), Evaluated), Trim(predicate))) = e

\* verify-value confirms the literal that was read and the text that was compared,
\* and nothing else, under the salt of the proof and no other (main.rs 328-357).
ValueChecked ==
  predicate # None => \A s \in Salts, rule \in Rules :
    LET result == FieldResult(rule, predicate, s, <<"v">>) IN
    \A t \in Salts, e \in Values \cup {None} :
      VerifyValue(result, e, t) = "match" <=>
        t = s /\ ((rule.is = "literal" /\ e = rule.text) \/ Asserts(e))

-----------------------------------------------------------------------------
(* Properties of salts *)

\* "a malformed salt cannot silently degrade to no salt at all" (lib.rs 423): the
\* salt of the environment is used as it is or refused.
SaltNeverDropped ==
  \A drawn \in Salts : LET used == FreshBodySalt(salt, drawn) IN
    used # Invalid =>
      /\ ParseSalt(used) \notin {None, Invalid}
      /\ salt # <<>> => ParseSalt(used) = salt

\* verify-provenance matches the body of the proof under its salt, and among salts
\* of one length, as fresh_body_salt draws them, nothing else (main.rs 359-392).
BodyChecked ==
  \A s \in Salts : Len(salt) = Len(s) =>
    \A b, c \in Bodies :
      LET result == FieldResult([is |-> "json", anchor |-> <<"l">>], <<>>, s, b)
      IN VerifyProvenance(result, c, salt) = "match" <=> salt = s /\ c = b

\* A revealed salt proves what was committed to, a value or a body, and nothing
\* else (lib.rs 411 and 472).
CommitmentsChecked == ValueChecked /\ BodyChecked
=============================================================================
