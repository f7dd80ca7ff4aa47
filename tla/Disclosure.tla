----------------------------- MODULE Disclosure -----------------------------
(***************************************************************************)
(* What a journal says of a value, and what it hides: the predicate as the *)
(* guest evaluates it and as it publishes it, the salt, the commitments to *)
(* values and bodies, and the two commands that check a commitment         *)
(* (gps-core lib.rs 400-523, guest main.rs 185-228 and 338-500, host       *)
(* main.rs 295-392).                                                       *)
(*                                                                         *)
(* Texts are sequences of characters, as in Extraction; "contains" and     *)
(* "age" count as one.  A digest stands for what it was taken over.        *)
(***************************************************************************)
EXTENDS Extraction

CONSTANTS
  HexDigits,  \* the digits a salt is made of
  MinSalt,    \* the digits of the shortest salt: 32
  Tag         \* VALUE_TAG

ASSUME DisclosureAssumption == MinSalt \in Nat \ {0} /\ Tag # <<>>

Strip(s, cs) ==
  LET kept == {k \in DOMAIN s : s[k] \notin cs}
  IN IF kept = {} THEN <<>>
     ELSE SubSeq(s, Least(kept), CHOOSE k \in kept : \A j \in kept : j <= k)

Trim(s) == Strip(s, {" "})
Unquote(s) == Strip(Trim(s), {"\""})

\* The first of some operators that s begins with, or None; and what follows it.
Operator(s, ops) ==
  LET found == {k \in DOMAIN ops : IsPrefix(ops[k], s)}
  IN IF found = {} THEN None ELSE ops[Least(found)]

After(op, s) == SubSeq(s, Len(op) + 1, Len(s))

-----------------------------------------------------------------------------
(* Salts and commitments *)

Invalid == <<"invalid">>

\* Mutant: digits that are not hexadecimal are skipped.
ParseSaltSkipping(text) ==
  LET digits == SelectSeq(text, LAMBDA c : c \in HexDigits)
  IN IF digits # <<>> /\ Len(digits) < MinSalt THEN Invalid ELSE digits

\* parse_salt: None for no salt, Invalid for a malformed or a short one.  A salt
\* is kept as its digits, two to a byte.
ParseSalt(text) ==
  IF text = <<>> THEN None
  ELSE IF Len(text) % 2 = 0 /\ Range(text) \subseteq HexDigits /\ Len(text) >= MinSalt
  THEN text ELSE Invalid

\* fresh_body_salt: the salt of the environment if there is one, or a drawn one.
FreshBodySalt(env, drawn) ==
  IF env = <<>> THEN drawn ELSE IF ParseSalt(env) = Invalid THEN Invalid ELSE env

\* commitment_preimage; commitment_scheme names it by whether there is a salt.
CommitmentPreimage(salt, body) == salt \o body

ValueCommitmentPreimage(salt, value) == Tag \o salt \o value

\* A part of a published text: in the clear, or a digest.
Clear(text) == [hidden |-> FALSE, of |-> text]
Digest(pre) == [hidden |-> TRUE, of |-> pre]

\* A value as it is published: without a salt there is nothing to hide it behind.
Committed(salt, value) ==
  IF salt = None THEN Clear(value) ELSE Digest(ValueCommitmentPreimage(salt, value))

-----------------------------------------------------------------------------
(* Predicates *)

EQ == <<"=", "=">>
NE == <<"!", "=">>
GE == <<">", "=">>
LE == <<"<", "=">>
CONTAINS == <<"contains">>
AGE == <<"age">>
Ordering == {GE, LE, <<">", " ">>, <<"<", " ">>}
Strings  == {EQ, NE, CONTAINS}

\* The operators evaluate_predicate tries, in its order, and those after "age".
Evaluated == <<GE, LE, <<">", " ">>, <<"<", " ">>, NE, EQ, CONTAINS, AGE>>
EvaluatedAge == <<GE, LE, <<">", " ">>, <<"<", " ">>, EQ>>

\* Mutant: only equalities are taken for comparisons with a value.
RedactedEqualities == <<EQ, NE, GE, LE, <<">">>, <<"<">>>>

\* The operators predicate_operand tries.
Redacted == <<EQ, NE, CONTAINS, GE, LE, <<">">>, <<"<">>>>

\* The number a text parses to, in thousandths, or NoNumber; no more than three
\* decimals are looked at.
NoNumber == -10000000
Amount(text) ==
  LET t      == Trim(text)
      u      == SubSeq(t, IntStart(t, 1), Len(t))
      points == {k \in DOMAIN u : u[k] = "."}
      point  == IF points = {} THEN Len(u) + 1 ELSE Least(points)
      whole  == SubSeq(u, 1, point - 1)
      places == SubSeq(u, point + 1, Len(u))
      all    == whole \o SubSeq(places \o <<"0", "0", "0">>, 1, 3)
  IN IF whole \o places = <<>> \/ ~(Range(whole \o places) \subseteq Digits) THEN NoNumber
     ELSE IF Has(t, 1, {"-"}) THEN -NumberOf(all) ELSE NumberOf(all)

\* Years are whole.
Years(text) == IF Range(text) \cap Separators = {} THEN Amount(text) ELSE NoNumber

Compare(op, x, y) ==
  \/ op = GE /\ x >= y
  \/ op = LE /\ x <= y
  \/ op = <<">", " ">> /\ x > y
  \/ op = <<"<", " ">> /\ x < y
  \/ op = EQ /\ x = y

Verdict(holds) == IF holds THEN "true" ELSE "false"

\* Mutant: without a declared convention a number is read plainly.
NumberGuessed(value, fmt) ==
  Amount(NormaliseNumber(value, IF fmt = "none" THEN "Plain" ELSE fmt))

\* What an ordering compares: the value in the declared convention, if there is one.
Number(value, fmt) == IF fmt = "none" THEN NoNumber ELSE Amount(NormaliseNumber(value, fmt))

Ordered(op, x, y) == IF NoNumber \in {x, y} THEN "panic" ELSE Verdict(Compare(op, x, y))

StringHolds(op, value, operand) ==
  \/ op = EQ /\ value = operand
  \/ op = NE /\ value # operand
  \/ op = CONTAINS /\ (operand = <<>> \/ Occurrences(value, operand) # {})

\* evaluate_predicate: "true", "false" or "panic".
EvaluatePredicate(predicate, value, fmt, now) ==
  LET p  == Trim(predicate)
      op == Operator(p, Evaluated)
      r  == After(op, p)
      a  == Operator(Trim(r), EvaluatedAge)
  IN CASE op \in Ordering -> Ordered(op, Number(value, fmt), Amount(r))
       [] op \in Strings  -> Verdict(StringHolds(op, value, Unquote(r)))
       [] op = AGE /\ a # None ->
            LET age == ComputeAge(value, now) IN
            Ordered(a, IF age = NoAge THEN NoNumber ELSE 1000 * age, Years(After(a, Trim(r))))
       [] OTHER -> "panic"

\* Mutant: the operand is published as it is quoted.
OperandQuoted(op, p) == Trim(After(op, p))

\* predicate_operand: the operand as the evaluator reads it.
OperandOf(op, p) == Unquote(After(op, p))

\* redact_predicate: the published parts of a predicate.  Bounds are not hidden.
RedactPredicate(predicate, salt) ==
  LET p  == Trim(predicate)
      op == IF IsPrefix(AGE, p) THEN None ELSE Operator(p, Redacted)
  IN IF op \in Strings /\ salt # None
     THEN <<Clear(op), Committed(salt, OperandOf(op, p))>> ELSE <<Clear(p)>>

-----------------------------------------------------------------------------
(* Field results *)

\* Mutant: the rule is published as it is.
DescribePlainly(rule, salt) ==
  IF rule.is = "literal" THEN <<Clear(rule.anchor), Clear(rule.text)>> ELSE <<Clear(rule.anchor)>>

\* The published rule: a literal is its own value, so it is committed to.  A rule
\* is a path or pattern, or an anchor with what it looks for.
Describe(rule, salt) ==
  IF rule.is = "literal" THEN <<Clear(rule.anchor), Committed(salt, rule.text)>>
  ELSE <<Clear(rule.anchor)>>

\* The result of a field whose predicate holds; the statement repeats the rule.
FieldResult(rule, predicate, salt, body) ==
  [field_selected |-> Describe(rule, salt),
   predicate_statement |-> Describe(rule, salt) \o RedactPredicate(predicate, salt),
   body_hash |-> CommitmentPreimage(salt, body),
   salted |-> salt # None]

-----------------------------------------------------------------------------
(* The two checks *)

\* run_verify_value: where the commitment to a value is found.  Without a proper
\* salt the command ends before it looks.
InRule(result, want) == \E k \in DOMAIN result.field_selected : result.field_selected[k] = want
InPredicate(result, want) ==
  \E k \in DOMAIN result.predicate_statement : result.predicate_statement[k] = want

Wanted(expect, text) == Digest(ValueCommitmentPreimage(ParseSalt(text), expect))

VerifyValue(result, expect, text) ==
  IF ParseSalt(text) \in {None, Invalid} THEN "error"
  ELSE IF InRule(result, Wanted(expect, text)) \/ InPredicate(result, Wanted(expect, text))
  THEN "match" ELSE "no match"

\* run_verify_provenance.
VerifyProvenance(result, body, text) ==
  IF ParseSalt(text) = Invalid THEN "error"
  ELSE IF CommitmentPreimage(ParseSalt(text), body) = result.body_hash THEN "match" ELSE "no match"
=============================================================================
