--------------------------- MODULE LoweringProofs ---------------------------
(***************************************************************************)
(* Proofs about what a pattern names and what is read for it: the grammar  *)
(* of numbers, the escaping of literals and the lowering of patterns to    *)
(* rules, for every text a page, a label or a literal may hold.            *)
(***************************************************************************)
EXTENDS RulesProofs

-----------------------------------------------------------------------------
(* Texts, character by character *)

\* A set that holds the empty text, and with each text all that are one character
\* longer, holds them all.
LEMMA TextInduction ==
  ASSUME NEW S, NEW A, <<>> \in A, \A s \in Seq(S), c \in S : s \in A => Append(s, c) \in A
  PROVE  Seq(S) \subseteq A
<1> DEFINE T == {n \in Nat : \A s \in Seq(S) : Len(s) = n => s \in A}
<1>1. 0 \in T
  <2>1. \A s \in Seq(S) : Len(s) = 0 => s = <<>>
    OBVIOUS
  <2> QED
    BY <2>1
<1>2. ASSUME NEW n \in Nat, n \in T PROVE n + 1 \in T
  <2> SUFFICES ASSUME NEW s \in Seq(S), Len(s) = n + 1 PROVE s \in A
    OBVIOUS
  <2>1. PICK t \in Seq(S), c \in S : s = Append(t, c)
    <3>1. s # <<>>
      OBVIOUS
    <3> QED
      BY <3>1, SequenceEmptyOrAppend
  <2>2. Len(t) = n
    BY <2>1
  <2>3. t \in A
    BY <1>2, <2>2
  <2> QED
    BY <2>1, <2>3
<1>3. Nat \subseteq T
  <2> HIDE DEF T
  <2> QED
    BY <1>1, <1>2, NatSetInduction
<1> QED
  BY <1>3

\* f goes along s by step, from z on.
Along(f, s, T, z, step) ==
  /\ f \in [0..Len(s) -> T] /\ f[0] = z
  /\ \A k \in 1..Len(s) : f[k] = step[<<f[k - 1], s[k]>>]

LEMMA AlongText ==
  ASSUME NEW S, NEW s \in Seq(S), NEW T, NEW z \in T, NEW step \in [T \X S -> T]
  PROVE  \E f : Along(f, s, T, z, step)
<1> DEFINE n == Len(s)
           go == [v \in T \X Nat |-> IF v[2] \in 1..n THEN step[<<v[1], s[v[2]]>>] ELSE v[1]]
<1>1. n \in Nat /\ \A k \in 1..n : s[k] \in S
  BY LenProperties, ElementOfSeq
<1>2. go \in [T \X Nat -> T]
  <2>1. ASSUME NEW v \in T \X Nat
        PROVE  (IF v[2] \in 1..n THEN step[<<v[1], s[v[2]]>>] ELSE v[1]) \in T
    <3>1. v[1] \in T /\ v[2] \in Nat
      OBVIOUS
    <3>2. v[2] \in 1..n => <<v[1], s[v[2]]>> \in T \X S
      BY <1>1, <3>1
    <3> QED
      BY <3>1, <3>2
  <2> QED
    BY <2>1
<1>3. PICK f \in [0..n -> T] : f[0] = z /\ \A i \in 1..n : f[i] = go[<<f[i - 1], i>>]
  <2> HIDE DEF go, n
  <2>1. \E f \in [0..n -> T] : Iterates(f, z, go, n)
    BY <1>1, <1>2, Iteration
  <2> QED
    BY <2>1 DEF Iterates
<1>4. ASSUME NEW k \in 1..n PROVE f[k] = step[<<f[k - 1], s[k]>>]
  <2>1. k - 1 \in 0..n /\ k \in Nat
    BY <1>1
  <2>2. <<f[k - 1], k>> \in T \X Nat
    BY <2>1
  <2>3. f[k] = go[<<f[k - 1], k>>]
    BY <1>3
  <2> QED
    BY <2>2, <2>3
<1> QED
  BY <1>3, <1>4 DEF Along

-----------------------------------------------------------------------------
(* The characters of a text that are kept *)

KeptBy(f, s, cs) ==
  f = [k \in 0..Len(s) |-> IF k = 0 THEN <<>>
                           ELSE IF s[k] \in cs THEN Append(f[k - 1], s[k]) ELSE f[k - 1]]

LEMMA KeptIs ==
  ASSUME NEW S, NEW s \in Seq(S), NEW cs
  PROVE  \E f : KeptBy(f, s, cs) /\ Kept(s, cs) = f[Len(s)]
<1> DEFINE none == <<>>
           step == [v \in Seq(S) \X S |-> IF v[2] \in cs THEN Append(v[1], v[2]) ELSE v[1]]
<1>1. step \in [Seq(S) \X S -> Seq(S)] /\ none \in Seq(S)
  OBVIOUS
<1>2. PICK f : Along(f, s, Seq(S), none, step)
  <2> HIDE DEF step, none
  <2> QED
    BY <1>1, AlongText
<1>3. Len(s) \in Nat /\ \A k \in 1..Len(s) : s[k] \in S
  BY LenProperties, ElementOfSeq
<1>4. ASSUME NEW k \in 1..Len(s)
      PROVE  f[k] = IF s[k] \in cs THEN Append(f[k - 1], s[k]) ELSE f[k - 1]
  <2>0. f \in [0..Len(s) -> Seq(S)]
    BY <1>2 DEF Along
  <2>1. k - 1 \in 0..Len(s)
    BY <1>3
  <2>2. <<f[k - 1], s[k]>> \in Seq(S) \X S
    BY <1>3, <2>0, <2>1
  <2>3. f[k] = step[<<f[k - 1], s[k]>>]
    BY <1>2 DEF Along
  <2> QED
    BY <2>2, <2>3
<1>5. KeptBy(f, s, cs)
  <2>1. \A k \in 0..Len(s) : k = 0 \/ k \in 1..Len(s)
    BY <1>3
  <2>2. \A k \in 0..Len(s) :
          f[k] = IF k = 0 THEN <<>>
                 ELSE IF s[k] \in cs THEN Append(f[k - 1], s[k]) ELSE f[k - 1]
    BY <1>2, <1>4, <2>1 DEF Along
  <2> QED
    BY <1>2, <2>2 DEF Along, KeptBy
<1> DEFINE g == CHOOSE h : KeptBy(h, s, cs)
<1>6. KeptBy(g, s, cs)
  BY <1>5
<1>7. Kept(s, cs) = g[Len(s)]
  BY DEF Kept, KeptBy
<1> QED
  BY <1>6, <1>7

LEMMA KeptSteps ==
  ASSUME NEW S, NEW s \in Seq(S), NEW cs, NEW f, KeptBy(f, s, cs)
  PROVE  /\ f[0] = <<>>
         /\ \A k \in Nat : k + 1 <= Len(s) =>
              f[k + 1] = IF s[k + 1] \in cs THEN Append(f[k], s[k + 1]) ELSE f[k]
<1>1. Len(s) \in Nat /\ 0 \in 0..Len(s)
  BY LenProperties
<1>2. f[0] = <<>>
  BY <1>1 DEF KeptBy
<1>3. ASSUME NEW k \in Nat, k + 1 <= Len(s)
      PROVE  f[k + 1] = IF s[k + 1] \in cs THEN Append(f[k], s[k + 1]) ELSE f[k]
  <2> DEFINE m == k + 1
  <2>1. m \in 0..Len(s) /\ m # 0 /\ m - 1 = k
    BY <1>1, <1>3
  <2> HIDE DEF m
  <2>2. f[m] = IF s[m] \in cs THEN Append(f[m - 1], s[m]) ELSE f[m - 1]
    BY <2>1 DEF KeptBy
  <2> QED
    BY <2>1, <2>2 DEF m
<1> QED
  BY <1>2, <1>3

LEMMA KeptAgree ==
  ASSUME NEW S, NEW s \in Seq(S), NEW t \in Seq(S), NEW cs, NEW f, NEW g,
         KeptBy(f, s, cs), KeptBy(g, t, cs), Len(s) <= Len(t), \A k \in 1..Len(s) : t[k] = s[k]
  PROVE  f[Len(s)] = g[Len(s)]
<1> DEFINE A == {n \in Nat : n <= Len(s) => f[n] = g[n]}
<1>1. Len(s) \in Nat /\ Len(t) \in Nat
  OBVIOUS
<1>2. 0 \in A
  BY KeptSteps
<1>3. ASSUME NEW n \in Nat, n \in A PROVE n + 1 \in A
  <2> SUFFICES ASSUME n + 1 <= Len(s) PROVE f[n + 1] = g[n + 1]
    OBVIOUS
  <2>1. f[n] = g[n] /\ s[n + 1] = t[n + 1]
    BY <1>1, <1>3
  <2>2. f[n + 1] = IF s[n + 1] \in cs THEN Append(f[n], s[n + 1]) ELSE f[n]
    BY KeptSteps
  <2>3. g[n + 1] = IF t[n + 1] \in cs THEN Append(g[n], t[n + 1]) ELSE g[n]
    <3>1. n + 1 <= Len(t)
      BY <1>1
    <3> QED
      BY <3>1, KeptSteps
  <2> QED
    BY <2>1, <2>2, <2>3
<1>4. Nat \subseteq A
  <2> HIDE DEF A
  <2> QED
    BY <1>2, <1>3, NatSetInduction
<1> QED
  BY <1>1, <1>4

\* Of nothing nothing is kept ...
LEMMA KeptEmpty == ASSUME NEW cs PROVE Kept(<<>>, cs) = <<>>
<1>1. <<>> \in Seq({}) /\ Len(<<>>) = 0
  OBVIOUS
<1>2. PICK f : KeptBy(f, <<>>, cs) /\ Kept(<<>>, cs) = f[0]
  BY <1>1, KeptIs
<1> QED
  BY <1>1, <1>2 DEF KeptBy

\* ... and of one character more that one, if it is among the kept.
LEMMA KeptAppend ==
  ASSUME NEW S, NEW s \in Seq(S), NEW c \in S, NEW cs
  PROVE  Kept(Append(s, c), cs) = IF c \in cs THEN Append(Kept(s, cs), c) ELSE Kept(s, cs)
<1> DEFINE t == Append(s, c)
<1>1. /\ t \in Seq(S) /\ Len(t) = Len(s) + 1 /\ t[Len(s) + 1] = c /\ Len(s) \in Nat
      /\ \A k \in 1..Len(s) : t[k] = s[k]
  OBVIOUS
<1> HIDE DEF t
<1>2. PICK f : KeptBy(f, s, cs) /\ Kept(s, cs) = f[Len(s)]
  BY KeptIs
<1>3. PICK g : KeptBy(g, t, cs) /\ Kept(t, cs) = g[Len(t)]
  BY <1>1, KeptIs
<1>4. Len(s) <= Len(t)
  BY <1>1
<1>5. f[Len(s)] = g[Len(s)]
  BY <1>1, <1>2, <1>3, <1>4, KeptAgree
<1>6. g[Len(s) + 1] = IF t[Len(s) + 1] \in cs THEN Append(g[Len(s)], t[Len(s) + 1]) ELSE g[Len(s)]
  BY <1>1, <1>3, KeptSteps
<1> QED
  BY <1>1, <1>2, <1>3, <1>5, <1>6 DEF t

\* What is kept is among the kept.
LEMMA KeptTyped ==
  ASSUME NEW S, NEW s \in Seq(S), NEW cs
  PROVE  Kept(s, cs) \in Seq(S \cap cs)
<1> DEFINE A == {t \in Seq(S) : Kept(t, cs) \in Seq(S \cap cs)}
<1>1. <<>> \in A
  <2>1. <<>> \in Seq(S) /\ <<>> \in Seq(S \cap cs)
    OBVIOUS
  <2> QED
    BY <2>1, KeptEmpty
<1>2. \A t \in Seq(S), c \in S : t \in A => Append(t, c) \in A
  <2> SUFFICES ASSUME NEW t \in Seq(S), NEW c \in S, t \in A PROVE Append(t, c) \in A
    OBVIOUS
  <2>1. Append(t, c) \in Seq(S) /\ Kept(t, cs) \in Seq(S \cap cs)
    OBVIOUS
  <2>2. Kept(Append(t, c), cs) = IF c \in cs THEN Append(Kept(t, cs), c) ELSE Kept(t, cs)
    BY KeptAppend
  <2>3. Kept(Append(t, c), cs) \in Seq(S \cap cs)
    BY <2>1, <2>2
  <2> QED
    BY <2>1, <2>3
<1> HIDE DEF A
<1>3. Seq(S) \subseteq A
  BY <1>1, <1>2, TextInduction
<1> QED
  BY <1>3 DEF A

\* What is kept of two texts in a row is what is kept of each.
LEMMA KeptConcat ==
  ASSUME NEW S, NEW s \in Seq(S), NEW t \in Seq(S), NEW cs
  PROVE  Kept(s \o t, cs) = Kept(s, cs) \o Kept(t, cs)
<1> DEFINE A == {u \in Seq(S) : Kept(s \o u, cs) = Kept(s, cs) \o Kept(u, cs)}
<1>1. <<>> \in A
  <2>1. Kept(s, cs) \in Seq(S \cap cs) /\ s \o <<>> = s
    BY KeptTyped
  <2> QED
    BY <2>1, KeptEmpty
<1>2. \A u \in Seq(S), c \in S : u \in A => Append(u, c) \in A
  <2> SUFFICES ASSUME NEW u \in Seq(S), NEW c \in S, u \in A PROVE Append(u, c) \in A
    OBVIOUS
  <2>1. /\ Append(u, c) \in Seq(S) /\ s \o u \in Seq(S)
        /\ s \o Append(u, c) = Append(s \o u, c)
    OBVIOUS
  <2>2. /\ Kept(s, cs) \in Seq(S \cap cs) /\ Kept(u, cs) \in Seq(S \cap cs)
        /\ Kept(s \o u, cs) = Kept(s, cs) \o Kept(u, cs)
    BY KeptTyped
  <2>3. Kept(Append(u, c), cs) = IF c \in cs THEN Append(Kept(u, cs), c) ELSE Kept(u, cs)
    BY KeptAppend
  <2>4. Kept(Append(s \o u, c), cs) = IF c \in cs THEN Append(Kept(s \o u, cs), c) ELSE Kept(s \o u, cs)
    <3>1. ASSUME NEW v \in Seq(S)
          PROVE  Kept(Append(v, c), cs) = IF c \in cs THEN Append(Kept(v, cs), c) ELSE Kept(v, cs)
      BY KeptAppend
    <3> QED
      BY <2>1, <3>1
  <2>5. c \in cs => Append(Kept(s, cs) \o Kept(u, cs), c) = Kept(s, cs) \o Append(Kept(u, cs), c)
    <3> SUFFICES ASSUME c \in cs
                 PROVE  Append(Kept(s, cs) \o Kept(u, cs), c) = Kept(s, cs) \o Append(Kept(u, cs), c)
      OBVIOUS
    <3>1. \A a, b \in Seq(S \cap cs), d \in S \cap cs : Append(a \o b, d) = a \o Append(b, d)
      OBVIOUS
    <3> QED
      BY <2>2, <3>1
  <2>6. Kept(s \o Append(u, c), cs) = Kept(s, cs) \o Kept(Append(u, c), cs)
    BY <2>1, <2>2, <2>3, <2>4, <2>5, ZenonT(30)
  <2> QED
    BY <2>1, <2>6
<1> HIDE DEF A
<1>3. Seq(S) \subseteq A
  BY <1>1, <1>2, TextInduction
<1> QED
  BY <1>3 DEF A

\* Two sets that share the characters of a text keep the same of it ...
LEMMA KeptSame ==
  ASSUME NEW S, NEW s \in Seq(S), NEW cs, NEW ds, \A c \in S : c \in cs <=> c \in ds
  PROVE  Kept(s, cs) = Kept(s, ds)
<1> DEFINE A == {u \in Seq(S) : Kept(u, cs) = Kept(u, ds)}
<1>1. <<>> \in A
  BY KeptEmpty
<1>2. \A u \in Seq(S), c \in S : u \in A => Append(u, c) \in A
  <2> SUFFICES ASSUME NEW u \in Seq(S), NEW c \in S, u \in A PROVE Append(u, c) \in A
    OBVIOUS
  <2>1. Append(u, c) \in Seq(S)
    OBVIOUS
  <2>2. Kept(Append(u, c), cs) = IF c \in cs THEN Append(Kept(u, cs), c) ELSE Kept(u, cs)
    BY KeptAppend
  <2>3. Kept(Append(u, c), ds) = IF c \in ds THEN Append(Kept(u, ds), c) ELSE Kept(u, ds)
    BY KeptAppend
  <2> QED
    BY <2>1, <2>2, <2>3, SMTT(20)
<1> HIDE DEF A
<1>3. Seq(S) \subseteq A
  BY <1>1, <1>2, TextInduction
<1> QED
  BY <1>3 DEF A

\* ... and a set that holds them all keeps the text.
LEMMA KeptAll ==
  ASSUME NEW S, NEW s \in Seq(S), NEW cs, S \subseteq cs
  PROVE  Kept(s, cs) = s
<1> DEFINE A == {u \in Seq(S) : Kept(u, cs) = u}
<1>1. <<>> \in A
  BY KeptEmpty
<1>2. \A u \in Seq(S), c \in S : u \in A => Append(u, c) \in A
  <2> SUFFICES ASSUME NEW u \in Seq(S), NEW c \in S, u \in A PROVE Append(u, c) \in A
    OBVIOUS
  <2>1. Append(u, c) \in Seq(S)
    OBVIOUS
  <2>2. Kept(Append(u, c), cs) = IF c \in cs THEN Append(Kept(u, cs), c) ELSE Kept(u, cs)
    BY KeptAppend
  <2> QED
    BY <2>1, <2>2
<1> HIDE DEF A
<1>3. Seq(S) \subseteq A
  BY <1>1, <1>2, TextInduction
<1> QED
  BY <1>3 DEF A

\* Nothing is kept of a text that has none of the kept.
LEMMA KeptNone ==
  ASSUME NEW S, NEW s \in Seq(S), NEW cs, S \cap cs = {}
  PROVE  Kept(s, cs) = <<>>
<1>1. Kept(s, cs) \in Seq({})
  BY KeptTyped
<1> QED
  BY <1>1, EmptySeq, ElementOfSeq

-----------------------------------------------------------------------------
(* The grammar of numbers *)

\* A numeral of a text, from i on: a whole part, or one with a fraction after d.
WholeFrom(s, i, fmt) == Whole(Part(s, i, Len(s) + 1), fmt)
FractionFrom(s, i, d, fmt) ==
  /\ Has(s, d, Decimal(fmt)) /\ Whole(Part(s, i, d), fmt)
  /\ AllDigits(Part(s, d + 1, Len(s) + 1))

\* A part of a text, given as such.
IsPart(t, S, s, i, e) ==
  /\ t \in Seq(S) /\ i \in Nat /\ e \in Nat /\ i >= 1 /\ i <= e /\ e <= Len(s) + 1
  /\ Len(t) = e - i /\ \A k \in Nat : k >= 1 /\ k <= e - i => t[k] = s[i + k - 1]

LEMMA PartIsPart ==
  ASSUME NEW S, NEW s \in Seq(S), NEW i \in Nat, NEW e \in Nat, Cut(s, i, e)
  PROVE  IsPart(Part(s, i, e), S, s, i, e)
<1>1. /\ Part(s, i, e) \in Seq(S) /\ Len(Part(s, i, e)) = e - i
      /\ \A k \in 1..(e - i) : Part(s, i, e)[k] = s[i + k - 1]
  BY PartIs
<1>2. i >= 1 /\ i <= e /\ e <= Len(s) + 1
  BY DEF Cut
<1>3. \A k \in Nat : k >= 1 /\ k <= e - i => k \in 1..(e - i)
  OBVIOUS
<1> QED
  BY <1>1, <1>2, <1>3 DEF IsPart

LEMMA StartIs ==
  ASSUME NEW S, NEW s \in Seq(S)
  PROVE  /\ Len(s) \in Nat /\ IntStart(s, 1) \in 1..(Len(s) + 1)
         /\ Cut(s, IntStart(s, 1), Len(s) + 1)
         /\ (IF Has(s, 1, Signs) THEN Tail(s) ELSE s) = Part(s, IntStart(s, 1), Len(s) + 1)
<1>1. Len(s) \in Nat /\ DOMAIN s = 1..Len(s)
  OBVIOUS
<1>2. IntStart(s, 1) \in 1..(Len(s) + 1)
  BY <1>1 DEF IntStart, Has
<1>3. Cut(s, IntStart(s, 1), Len(s) + 1)
  BY <1>1, <1>2 DEF Cut
<1>4. CASE Has(s, 1, Signs)
  <2>1. s # <<>> /\ IntStart(s, 1) = 2 /\ (Len(s) + 1) - 1 = Len(s)
    BY <1>1, <1>4 DEF IntStart, Has
  <2>2. Tail(s) = SubSeq(s, 2, Len(s))
    BY <2>1, TailIsSubSeq
  <2> QED
    BY <1>1, <1>2, <1>3, <1>4, <2>1, <2>2 DEF Part
<1>5. CASE ~Has(s, 1, Signs)
  <2>1. IntStart(s, 1) = 1 /\ (Len(s) + 1) - 1 = Len(s)
    BY <1>1, <1>5 DEF IntStart
  <2>2. SubSeq(s, 1, Len(s)) = s
    BY SubSeqFull
  <2> QED
    BY <1>1, <1>2, <1>3, <1>5, <2>1, <2>2 DEF Part
<1> QED
  BY <1>4, <1>5

LEMMA NumeralParts ==
  ASSUME NEW S, NEW s \in Seq(S), NEW fmt, NEW i, i = IntStart(s, 1)
  PROVE  Numeral(s, fmt) <=> \/ WholeFrom(s, i, fmt)
                             \/ \E d \in i..Len(s) : FractionFrom(s, i, d, fmt)
<1> DEFINE e == Len(s) + 1
           t == Part(s, i, e)
<1>1. Len(s) \in Nat /\ i \in 1..e /\ Cut(s, i, e) /\ i \in Nat /\ e \in Nat
  BY StartIs
<1>2. t = IF Has(s, 1, Signs) THEN Tail(s) ELSE s
  BY StartIs
<1>3. t \in Seq(S) /\ Len(t) = e - i /\ DOMAIN t = 1..(e - i) /\ \A k \in 1..(e - i) : t[k] = s[i + k - 1]
  <2>1. Part(s, i, e) \in Seq(S) /\ DOMAIN Part(s, i, e) = 1..(e - i)
    BY <1>1, PartIs
  <2> HIDE DEF e
  <2>0. i \in Nat /\ e \in Nat /\ Cut(s, i, e)
    BY <1>1
  <2>2. \A k \in 1..(e - i) : Part(s, i, e)[k] = s[i + k - 1]
    <3>1. IsPart(Part(s, i, e), S, s, i, e)
      BY <2>0, PartIsPart
    <3>2. \A k \in 1..(e - i) : k \in Nat /\ k >= 1 /\ k <= e - i
      BY <2>0
    <3> QED
      BY <3>1, <3>2 DEF IsPart
  <2>3. Len(Part(s, i, e)) = e - i
    BY <1>1, PartIs
  <2> QED
    BY <2>1, <2>2, <2>3
<1> HIDE DEF t
<1>0. e = Len(s) + 1
  OBVIOUS
<1> HIDE DEF e
<1>4. ASSUME NEW k \in 1..(e - i), NEW d \in i..Len(s), d = i + k - 1
      PROVE  (/\ t[k] \in Decimal(fmt) /\ Whole(SubSeq(t, 1, k - 1), fmt)
              /\ AllDigits(SubSeq(t, k + 1, Len(t)))) <=> FractionFrom(s, i, d, fmt)
  <2>1. Has(s, d, Decimal(fmt)) <=> t[k] \in Decimal(fmt)
    <3>1. d \in DOMAIN s /\ t[k] = s[d]
      BY <1>0, <1>1, <1>3, <1>4
    <3> QED
      BY <3>1 DEF Has
  <2>2. SubSeq(t, 1, k - 1) = Part(s, i, d)
    <3>1. /\ 1 \in 1..(e - i + 1) /\ k \in 1..(e - i + 1) /\ d \in Nat /\ i = i + 1 - 1
      BY <1>1
    <3>2. Part(Part(s, i, e), 1, k) = Part(s, i, d)
      BY <1>1, <1>4, <3>1, PartOfPartIs
    <3> QED
      BY <3>2 DEF Part, t
  <2>3. SubSeq(t, k + 1, Len(t)) = Part(s, d + 1, e)
    <3>1. PICK a \in Nat, b \in Nat, x \in Nat : a = k + 1 /\ b = e - i + 1 /\ x = d + 1
      <4>1. k + 1 \in Nat /\ e - i + 1 \in Nat /\ d + 1 \in Nat
        BY <1>1
      <4> QED
        BY <4>1
    <3>2. /\ a \in 1..(e - i + 1) /\ b \in a..(e - i + 1) /\ x = i + a - 1 /\ e = i + b - 1
          /\ b - 1 = Len(t)
      <4>1. i \in Nat /\ e \in Nat /\ Len(t) = e - i /\ Len(s) \in Nat /\ i \in 1..e /\ e = Len(s) + 1
        BY <1>0, <1>1, <1>3
      <4> HIDE DEF t
      <4>2. a \in 1..(e - i + 1) /\ b \in a..(e - i + 1)
        BY <3>1, <4>1
      <4>3. x = i + a - 1 /\ e = i + b - 1 /\ b - 1 = Len(t)
        <5>1. d \in Int /\ k \in Int
          OBVIOUS
        <5>2. x = i + a - 1
          BY <1>4, <3>1, <4>1, <5>1
        <5>3. e = i + b - 1 /\ b - 1 = e - i
          BY <3>1, <4>1
        <5> QED
          BY <4>1, <5>2, <5>3
      <4> QED
        BY <4>2, <4>3
    <3>3. Part(Part(s, i, e), a, b) = Part(s, x, e)
      <4>1. i \in Nat /\ e \in Nat /\ Cut(s, i, e)
        BY <1>1
      <4>2. ASSUME NEW j \in Nat, NEW m \in Nat, Cut(s, j, m),
                   NEW p \in 1..(m - j + 1), NEW q \in p..(m - j + 1),
                   NEW y \in Nat, NEW z \in Nat, y = j + p - 1, z = j + q - 1
            PROVE  Part(Part(s, j, m), p, q) = Part(s, y, z)
        BY <4>2, PartOfPartIs
      <4> QED
        BY <3>2, <4>1, <4>2, SMTT(20)
    <3>4. Part(t, a, b) = Part(s, x, e)
      BY <3>3 DEF t
    <3>5. Part(t, a, b) = SubSeq(t, k + 1, Len(t))
      BY <3>1, <3>2 DEF Part
    <3> QED
      BY <3>1, <3>4, <3>5
  <2> QED
    BY <1>0, <2>1, <2>2, <2>3 DEF FractionFrom
<1>5. Numeral(s, fmt) <=> \/ Whole(t, fmt)
                          \/ \E k \in DOMAIN t : /\ t[k] \in Decimal(fmt)
                                                 /\ Whole(SubSeq(t, 1, k - 1), fmt)
                                                 /\ AllDigits(SubSeq(t, k + 1, Len(t)))
  BY <1>2 DEF Numeral
<1>6. \A k \in 1..(e - i) : i + k - 1 \in i..Len(s)
  BY <1>0, <1>1
<1>7. \A d \in i..Len(s) : d - i + 1 \in 1..(e - i) /\ d = i + (d - i + 1) - 1
  BY <1>0, <1>1
<1>8. ASSUME NEW k \in DOMAIN t, t[k] \in Decimal(fmt), Whole(SubSeq(t, 1, k - 1), fmt),
             AllDigits(SubSeq(t, k + 1, Len(t)))
      PROVE  \E d \in i..Len(s) : FractionFrom(s, i, d, fmt)
  BY <1>3, <1>4, <1>6, <1>8
<1>9. ASSUME NEW d \in i..Len(s), FractionFrom(s, i, d, fmt)
      PROVE  \E k \in DOMAIN t : /\ t[k] \in Decimal(fmt)
                                 /\ Whole(SubSeq(t, 1, k - 1), fmt)
                                 /\ AllDigits(SubSeq(t, k + 1, Len(t)))
  BY <1>3, <1>4, <1>7, <1>9
<1> QED
  BY <1>0, <1>5, <1>8, <1>9 DEF WholeFrom, t

\* Digits that begin a number and the groups after them are a whole part, when the
\* digits are as many as fit.
LEMMA GroupsFit ==
  ASSUME NEW S, NEW s \in Seq(S), NEW i \in 1..(Len(s) + 1), NEW fmt,
         NEW r, r = RunEnd(s, i), NEW g, g = GroupsEnd(s, r, fmt), LeadFits(r - i, g > r)
  PROVE  /\ r \in Nat /\ g \in Nat /\ i < r /\ r <= g /\ g <= Len(s) + 1
         /\ Whole(Part(s, i, g), fmt)
<1>1. Len(s) \in Nat /\ DOMAIN s = 1..Len(s)
  OBVIOUS
<1>2. r \in i..(Len(s) + 1) /\ ~IsDigit(s, r) /\ \A k \in i..(r - 1) : IsDigit(s, k)
  BY RunEnds
<1>3. r \in 1..(Len(s) + 1)
  BY <1>1, <1>2
<1>4. PICK n \in 0..Len(s) : HasGroups(s, r, fmt, n) /\ g = r + 4 * n
  BY <1>3, GroupsEndAt
<1>5. n \in Nat /\ r \in Nat /\ g \in Nat /\ r <= g /\ i < r /\ (n > 0 => r - i <= 3)
  <2>1. i \in Nat /\ n \in Nat /\ r \in Nat
    BY <1>1, <1>3
  <2>2. g \in Nat /\ r <= g /\ (n > 0 => g > r)
    BY <1>4, <2>1
  <2>3. r - i > 0 /\ (g > r => r - i <= 3)
    BY DEF LeadFits
  <2> QED
    BY <2>1, <2>2, <2>3
<1>6. ASSUME NEW k \in 0..(n - 1)
      PROVE  /\ r + 4 * k \in DOMAIN s /\ s[r + 4 * k] \in Grouping(fmt)
             /\ \A j \in (r + 4 * k + 1)..(r + 4 * k + 3) : j \in DOMAIN s /\ s[j] \in Digits
  <2>1. GroupAt(s, r + 4 * k, fmt)
    BY <1>4 DEF HasGroups
  <2> QED
    BY <2>1 DEF GroupAt, Has, IsDigit
<1>7. g <= Len(s) + 1
  <2>1. CASE n = 0
    BY <1>2, <1>4, <2>1
  <2>2. CASE n > 0
    <3>1. n - 1 \in 0..(n - 1) /\ r + 4 * (n - 1) + 3 = g - 1
      BY <1>4, <1>5, <2>2
    <3>2. g - 1 \in (r + 4 * (n - 1) + 1)..(r + 4 * (n - 1) + 3)
      BY <1>5, <3>1
    <3>3. g - 1 \in DOMAIN s
      BY <1>6, <3>1, <3>2
    <3> QED
      BY <1>1, <1>5, <3>3
  <2> QED
    BY <1>5, <2>1, <2>2
<1> DEFINE t == Part(s, i, g)
<1>8. IsPart(t, S, s, i, g)
  <2>1. i \in Nat /\ Cut(s, i, g)
    BY <1>1, <1>5, <1>7 DEF Cut
  <2> QED
    BY <1>5, <2>1, PartIsPart
<1> HIDE DEF t
<1>9. Len(t) = g - i /\ Len(t) \in Nat /\ DOMAIN t = 1..Len(t) /\ t # <<>>
  BY <1>5, <1>8 DEF IsPart
<1>10. CASE n = 0
  <2>1. g = r
    BY <1>4, <1>5, <1>10
  <2>2. ASSUME NEW k \in DOMAIN t PROVE t[k] \in Digits
    <3>1. k \in Nat /\ k >= 1 /\ k <= g - i /\ i + k - 1 \in i..(r - 1)
      BY <1>5, <1>9, <2>1
    <3>2. t[k] = s[i + k - 1]
      BY <1>8, <3>1 DEF IsPart
    <3> QED
      BY <1>2, <3>1, <3>2 DEF IsDigit, Has
  <2>3. AllDigits(t)
    BY <1>9, <2>2 DEF AllDigits, Range
  <2> QED
    BY <1>5, <1>7, <2>3 DEF Whole, t
<1>11. CASE n > 0
  <2> DEFINE l == r - i
  <2>1. l \in 1..3 /\ Len(t) = l + 4 * n /\ Len(t) > l /\ (Len(t) - l) % 4 = 0
    <3>1. i \in Nat /\ l \in 1..3
      BY <1>5, <1>11
    <3>2. Len(t) = l + 4 * n
      BY <1>4, <1>5, <1>9
    <3> HIDE DEF l
    <3>3. Len(t) > l /\ Len(t) - l = 4 * n
      BY <1>5, <1>11, <3>1, <3>2
    <3>4. (4 * n) % 4 = 0
      BY <1>5
    <3> QED
      BY <3>1, <3>2, <3>3, <3>4
  <2>2. ASSUME NEW k \in DOMAIN t
        PROVE  t[k] \in IF k > l /\ (k - l) % 4 = 1 THEN Grouping(fmt) ELSE Digits
    <3>1. k \in Nat /\ k >= 1 /\ k <= g - i
      BY <1>9
    <3>2. t[k] = s[i + k - 1]
      BY <1>8, <3>1 DEF IsPart
    <3>3. CASE k <= l
      <4>1. i + k - 1 \in i..(r - 1)
        BY <1>2, <1>5, <3>1, <3>3
      <4>2. ~(k > l)
        BY <2>1, <3>1, <3>3
      <4> QED
        BY <1>2, <3>2, <4>1, <4>2 DEF IsDigit, Has
    <3>4. CASE k > l
      <4> DEFINE m == (k - l - 1) \div 4
                 c == (k - l - 1) % 4
      <4>1. k - l - 1 \in Nat /\ k - l - 1 < 4 * n /\ l \in Int
        <5>1. k <= l + 4 * n
          BY <1>9, <2>1
        <5> HIDE DEF l
        <5> QED
          BY <1>5, <2>1, <3>1, <3>4, <5>1, SMTT(20)
      <4>2. m \in Nat /\ c \in 0..3 /\ k - l - 1 = 4 * m + c
        BY <4>1
      <4> HIDE DEF m, c, l
      <4>3. m \in 0..(n - 1) /\ ((k - l) % 4 = 1 <=> c = 0)
        <5>1. m \in 0..(n - 1)
          BY <1>5, <4>1, <4>2
        <5>2. k - l = 4 * m + c + 1 /\ k \in Int
          BY <3>1, <4>1, <4>2
        <5>3. (4 * m + c + 1) % 4 = 1 <=> c = 0
          BY <4>2
        <5> QED
          BY <5>1, <5>2, <5>3
      <4>4. i + k - 1 = r + 4 * m + c
        <5>1. l = r - i /\ i \in Int
          BY DEF l
        <5>2. m \in Int /\ c \in Int /\ k \in Int /\ l \in Int /\ r \in Int
          BY <1>5, <3>1, <4>1, <4>2
        <5>3. k = l + 1 + (4 * m + c)
          <6>1. k - l - 1 = 4 * m + c
            BY <4>2
          <6> QED
            BY <5>2, <6>1
        <5>4. i + l = r
          BY <5>1, <5>2
        <5>5. i + k - 1 = (i + l) + (4 * m + c)
          BY <5>1, <5>2, <5>3, SMTT(20)
        <5>6. (i + l) + (4 * m + c) = r + 4 * m + c
          BY <5>2, <5>4
        <5> QED
          BY <5>5, <5>6
      <4>5. CASE c = 0
        <5>1. i + k - 1 = r + 4 * m
          BY <1>5, <4>2, <4>4, <4>5
        <5>2. s[r + 4 * m] \in Grouping(fmt)
          BY <1>6, <4>3
        <5> QED
          BY <3>2, <3>4, <4>3, <4>5, <5>1, <5>2
      <4>6. CASE c # 0
        <5>1. i + k - 1 \in (r + 4 * m + 1)..(r + 4 * m + 3)
          BY <1>5, <4>2, <4>4, <4>6, SMTT(20)
        <5>2. s[i + k - 1] \in Digits
          BY <1>6, <4>3, <5>1
        <5> QED
          BY <3>2, <3>4, <4>3, <4>6, <5>2
      <4> QED
        BY <4>5, <4>6
    <3> QED
      BY <2>1, <3>1, <3>3, <3>4
  <2> HIDE DEF l
  <2>3. Whole(t, fmt)
    BY <2>1, <2>2 DEF Whole
  <2> QED
    BY <1>5, <1>7, <2>3 DEF t
<1> QED
  BY <1>5, <1>10, <1>11

\* The digits that begin a whole part fit.
LEMMA LeadOfWhole ==
  ASSUME NEW S, NEW s \in Seq(S), NEW i \in 1..(Len(s) + 1), NEW d \in i..(Len(s) + 1),
         NEW fmt \in NumberFormats, Whole(Part(s, i, d), fmt), ~IsDigit(s, d),
         NEW r, r = RunEnd(s, i)
  PROVE  LeadFits(r - i, d > r)
<1> DEFINE t == Part(s, i, d)
<1>1. Len(s) \in Nat /\ DOMAIN s = 1..Len(s)
  OBVIOUS
<1>2. r \in i..(Len(s) + 1) /\ ~IsDigit(s, r) /\ \A k \in i..(r - 1) : IsDigit(s, k)
  BY RunEnds
<1>3. IsPart(t, S, s, i, d)
  <2>1. i \in Nat /\ d \in Nat /\ Cut(s, i, d)
    BY <1>1 DEF Cut
  <2> QED
    BY <2>1, PartIsPart
<1>4. CASE AllDigits(t)
  <2>1. i < d /\ \A k \in i..(d - 1) : IsDigit(s, k)
    BY <1>4, DigitsOfPart
  <2>2. r = d
    BY <2>1, RunEndIs
  <2> QED
    BY <1>1, <2>1, <2>2 DEF LeadFits
<1>5. ASSUME NEW n \in 1..3, Len(t) > n,
             \A k \in DOMAIN t :
               t[k] \in IF k > n /\ (k - n) % 4 = 1 THEN Grouping(fmt) ELSE Digits
      PROVE  LeadFits(r - i, d > r)
  <2> HIDE DEF t
  <2>1. /\ Len(t) = d - i /\ DOMAIN t = 1..Len(t) /\ n + 1 \in DOMAIN t /\ 1 \in DOMAIN t
        /\ n + 1 > n /\ ((n + 1) - n) % 4 = 1 /\ ~(1 > n)
    BY <1>1, <1>3, <1>5 DEF IsPart
  <2>2. t[n + 1] \in Grouping(fmt) /\ t[1] \in Digits
    BY <1>5, <2>1
  <2>3. t[n + 1] = s[i + n] /\ t[1] = s[i] /\ i + n \in DOMAIN s /\ i \in DOMAIN s
    <3>1. i + (n + 1) - 1 = i + n /\ i + 1 - 1 = i
      OBVIOUS
    <3>2. n + 1 \in Nat /\ n + 1 >= 1 /\ n + 1 <= d - i /\ 1 <= d - i
      BY <1>1, <1>5, <2>1
    <3>3. t[n + 1] = s[i + (n + 1) - 1] /\ t[1] = s[i + 1 - 1]
      BY <1>3, <3>2 DEF IsPart
    <3> QED
      BY <1>1, <3>1, <3>2, <3>3
  <2>4. IsDigit(s, i) /\ ~IsDigit(s, i + n)
    BY <2>2, <2>3, Marks, KindsOfCharacter DEF IsDigit, Has
  <2>5. r # i
    BY <1>2, <2>4
  <2>6. r <= i + n
    <3> SUFFICES ASSUME r > i + n PROVE FALSE
      BY <1>1, <1>2
    <3>1. i + n \in i..(r - 1)
      BY <1>1, <1>2
    <3> QED
      BY <1>2, <2>4, <3>1
  <2> QED
    BY <1>1, <1>2, <2>5, <2>6 DEF LeadFits
<1> QED
  BY <1>4, <1>5 DEF Whole

-----------------------------------------------------------------------------
(* The plain spelling of a number *)

\* A text with a point for what begins the fraction.
Dotted(u, fmt) == [k \in DOMAIN u |-> IF u[k] \in Decimal(fmt) THEN "." ELSE u[k]]

LEMMA DottedIs ==
  ASSUME NEW S, NEW u \in Seq(S), NEW fmt
  PROVE  /\ Dotted(u, fmt) \in Seq(S \cup {"."}) /\ Len(Dotted(u, fmt)) = Len(u)
         /\ \A k \in 1..Len(u) : Dotted(u, fmt)[k] = IF u[k] \in Decimal(fmt) THEN "." ELSE u[k]
<1>1. DOMAIN u = 1..Len(u) /\ Len(u) \in Nat /\ \A k \in 1..Len(u) : u[k] \in S
  BY LenProperties, ElementOfSeq
<1>2. Dotted(u, fmt) = [k \in 1..Len(u) |-> IF u[k] \in Decimal(fmt) THEN "." ELSE u[k]]
  BY <1>1 DEF Dotted
<1>3. Dotted(u, fmt) \in Seq(S \cup {"."}) /\ Len(Dotted(u, fmt)) = Len(u)
  BY <1>1, <1>2
<1>4. \A k \in 1..Len(u) : Dotted(u, fmt)[k] = IF u[k] \in Decimal(fmt) THEN "." ELSE u[k]
  BY <1>2
<1> QED
  BY <1>3, <1>4

LEMMA DottedConcat ==
  ASSUME NEW S, NEW u \in Seq(S), NEW v \in Seq(S), NEW fmt
  PROVE  Dotted(u \o v, fmt) = Dotted(u, fmt) \o Dotted(v, fmt)
<1> DEFINE T == S \cup {"."}
           a == Dotted(u \o v, fmt)
           b == Dotted(u, fmt)
           c == Dotted(v, fmt)
<1>1. /\ u \o v \in Seq(S) /\ Len(u \o v) = Len(u) + Len(v) /\ Len(u) \in Nat /\ Len(v) \in Nat
      /\ \A k \in 1..Len(u) : (u \o v)[k] = u[k]
      /\ \A k \in 1..Len(v) : (u \o v)[Len(u) + k] = v[k]
  OBVIOUS
<1>2. b \in Seq(T) /\ Len(b) = Len(u) /\ c \in Seq(T) /\ Len(c) = Len(v)
  BY DottedIs
<1>3. a \in Seq(T) /\ Len(a) = Len(u) + Len(v)
  BY <1>1, DottedIs
<1>4. ASSUME NEW k \in 1..Len(u) PROVE a[k] = b[k]
  <2>1. k \in 1..Len(u \o v)
    BY <1>1
  <2>2. a[k] = IF (u \o v)[k] \in Decimal(fmt) THEN "." ELSE (u \o v)[k]
    BY <1>1, <2>1, DottedIs
  <2>3. b[k] = IF u[k] \in Decimal(fmt) THEN "." ELSE u[k]
    BY DottedIs
  <2> QED
    BY <1>1, <2>2, <2>3
<1>5. ASSUME NEW k \in 1..Len(v) PROVE a[Len(u) + k] = c[k]
  <2>1. Len(u) + k \in 1..Len(u \o v)
    BY <1>1
  <2>2. a[Len(u) + k] = IF (u \o v)[Len(u) + k] \in Decimal(fmt) THEN "." ELSE (u \o v)[Len(u) + k]
    <3>1. ASSUME NEW j \in 1..Len(u \o v)
          PROVE  a[j] = IF (u \o v)[j] \in Decimal(fmt) THEN "." ELSE (u \o v)[j]
      BY <1>1, DottedIs
    <3> QED
      BY <2>1, <3>1
  <2>3. c[k] = IF v[k] \in Decimal(fmt) THEN "." ELSE v[k]
    BY DottedIs
  <2> QED
    BY <1>1, <2>2, <2>3
<1> HIDE DEF a, b, c, T
<1>6. b \o c \in Seq(T) /\ Len(b \o c) = Len(a)
  <2>1. b \o c \in Seq(T) /\ Len(b \o c) = Len(b) + Len(c)
    BY <1>2, ConcatProperties
  <2> QED
    BY <1>2, <1>3, <2>1
<1>7. ASSUME NEW k \in 1..Len(a) PROVE a[k] = (b \o c)[k]
  <2>1. CASE k <= Len(u)
    BY <1>1, <1>2, <1>3, <1>4, <2>1
  <2>2. CASE k > Len(u)
    <3>1. k - Len(u) \in 1..Len(v) /\ Len(u) + (k - Len(u)) = k
      BY <1>1, <1>3, <2>2
    <3>2. a[k] = c[k - Len(u)]
      BY <1>5, <3>1
    <3>3. (b \o c)[k] = c[k - Len(u)]
      BY <1>1, <1>2, <1>3, <2>2
    <3> QED
      BY <3>2, <3>3
  <2>3. k \in Int /\ Len(u) \in Int
    BY <1>1
  <2>4. k <= Len(u) \/ k > Len(u)
    BY <2>3
  <2> QED
    BY <2>1, <2>2, <2>4
<1>8. a = b \o c
  BY <1>3, <1>6, <1>7, SeqEqual
<1> QED
  BY <1>8 DEF a, b, c

LEMMA DottedSame ==
  ASSUME NEW S, NEW u \in Seq(S), NEW fmt, S \cap Decimal(fmt) = {}
  PROVE  Dotted(u, fmt) = u
<1>1. DOMAIN u = 1..Len(u) /\ Len(u) \in Nat /\ u \in [1..Len(u) -> S]
  BY LenProperties
<1>2. \A k \in DOMAIN u : u[k] \notin Decimal(fmt)
  BY <1>1
<1>3. Dotted(u, fmt) = [k \in DOMAIN u |-> u[k]]
  BY <1>2 DEF Dotted
<1> QED
  BY <1>1, <1>3

\* The three pieces of a text that ends with a fraction at d, or without.
LEMMA ThreeParts ==
  ASSUME NEW S, NEW s \in Seq(S), NEW i \in 1..(Len(s) + 1), NEW d \in i..(Len(s) + 1)
  PROVE  s = (Part(s, 1, i) \o Part(s, i, d)) \o Part(s, d, Len(s) + 1)
<1>1. Len(s) \in Nat /\ i \in Int /\ d \in Int /\ (Len(s) + 1) - 1 = Len(s)
  OBVIOUS
<1>2. SubSeq(s, 1, i - 1) \o SubSeq(s, i, d - 1) = SubSeq(s, 1, d - 1)
  <2>1. PICK k \in 0..Len(s) : k = i - 1
    BY <1>1
  <2>2. 1 \in 1..(Len(s) + 1) /\ k \in (1 - 1)..Len(s) /\ d - 1 \in k..Len(s) /\ k + 1 = i
    BY <1>1, <2>1
  <2>3. SubSeq(s, 1, k) \o SubSeq(s, k + 1, d - 1) = SubSeq(s, 1, d - 1)
    BY <2>2, ConcatAdjacentSubSeq
  <2> QED
    BY <2>1, <2>2, <2>3
<1>3. SubSeq(s, 1, d - 1) \o SubSeq(s, d, Len(s)) = SubSeq(s, 1, Len(s))
  <2>1. PICK k \in 0..Len(s) : k = d - 1
    BY <1>1
  <2>2. 1 \in 1..(Len(s) + 1) /\ k \in (1 - 1)..Len(s) /\ Len(s) \in k..Len(s) /\ k + 1 = d
    BY <1>1, <2>1
  <2>3. SubSeq(s, 1, k) \o SubSeq(s, k + 1, Len(s)) = SubSeq(s, 1, Len(s))
    BY <2>2, ConcatAdjacentSubSeq
  <2> QED
    BY <2>1, <2>2, <2>3
<1>4. SubSeq(s, 1, Len(s)) = s
  BY SubSeqFull
<1> QED
  BY <1>1, <1>2, <1>3, <1>4 DEF Part

\* A numeral is spelled plainly as its sign, its digits and its fraction are.
LEMMA PlainlyIs ==
  ASSUME NEW S, NEW s \in Seq(S), NEW fmt \in NumberFormats, NEW i, i = IntStart(s, 1),
         NEW d \in i..(Len(s) + 1), Whole(Part(s, i, d), fmt),
         d = Len(s) + 1 \/ FractionFrom(s, i, d, fmt)
  PROVE  Plainly(s, fmt) =
           (IF Has(s, 1, {"-"}) THEN <<"-">> ELSE <<>>) \o Kept(Part(s, i, d), Digits)
           \o (IF d <= Len(s) THEN <<".">> \o Part(s, d + 1, Len(s) + 1) ELSE <<>>)
<1> DEFINE R == Range(s)
           cs == R \ (Grouping(fmt) \cup {"+"})
           sg == Part(s, 1, i)
           w == Part(s, i, d)
           r == Part(s, d, Len(s) + 1)
           f == Part(s, d + 1, Len(s) + 1)
           minus == IF Has(s, 1, {"-"}) THEN <<"-">> ELSE <<>>
           point == IF d <= Len(s) THEN <<".">> \o f ELSE <<>>
<1>1. Len(s) \in Nat /\ i \in 1..(Len(s) + 1) /\ DOMAIN s = 1..Len(s) /\ d \in Nat /\ i \in Nat
  BY StartIs
<1>2. s \in Seq(R) /\ \A k \in 1..Len(s) : s[k] \in R
  BY <1>1, SeqOfRange DEF Range
<1>3. s = (sg \o w) \o r
  BY <1>1, ThreeParts
<1>4. /\ IsPart(sg, R, s, 1, i) /\ IsPart(w, R, s, i, d) /\ IsPart(r, R, s, d, Len(s) + 1)
      /\ d <= Len(s) => IsPart(f, R, s, d + 1, Len(s) + 1)
  <2>1. 1 \in Nat /\ Len(s) + 1 \in Nat /\ Cut(s, 1, i) /\ Cut(s, i, d) /\ Cut(s, d, Len(s) + 1)
    BY <1>1 DEF Cut
  <2>2. d <= Len(s) => d + 1 \in Nat /\ Cut(s, d + 1, Len(s) + 1)
    BY <1>1 DEF Cut
  <2>3. ASSUME NEW x \in Nat, NEW y \in Nat, Cut(s, x, y) PROVE IsPart(Part(s, x, y), R, s, x, y)
    BY <1>2, <2>3, PartIsPart
  <2> QED
    BY <1>1, <2>1, <2>2, <2>3
<1>5. sg \in Seq(R) /\ w \in Seq(R) /\ r \in Seq(R)
  BY <1>4 DEF IsPart
<1> HIDE DEF sg, w, r, f, R
<1>6. Kept(s, cs) = (Kept(sg, cs) \o Kept(w, cs)) \o Kept(r, cs)
  <2>1. sg \o w \in Seq(R)
    BY <1>5
  <2>2. Kept((sg \o w) \o r, cs) = Kept(sg \o w, cs) \o Kept(r, cs)
    <3> HIDE DEF cs
    <3>1. ASSUME NEW a \in Seq(R), NEW b \in Seq(R) PROVE Kept(a \o b, cs) = Kept(a, cs) \o Kept(b, cs)
      BY KeptConcat
    <3> QED
      BY <1>5, <2>1, <3>1
  <2>3. Kept(sg \o w, cs) = Kept(sg, cs) \o Kept(w, cs)
    <3> HIDE DEF cs
    <3> QED
      BY <1>5, KeptConcat
  <2> QED
    BY <1>3, <2>2, <2>3
<1>7. Kept(sg, cs) = minus /\ minus \in Seq(Signs)
  <2>1. CASE Has(s, 1, Signs)
    <3>1. i = 2 /\ 1 \in DOMAIN s /\ s[1] \in Signs /\ s[1] \in R
      BY <1>1, <1>2, <2>1 DEF IntStart, Has
    <3>2. Len(sg) = 1 /\ sg[1] = s[1]
      <4>1. 1 \in Nat /\ 1 >= 1 /\ 1 <= i - 1 /\ i - 1 = 1 /\ 1 + 1 - 1 = 1
        BY <3>1
      <4> QED
        BY <1>4, <4>1 DEF IsPart
    <3>3. sg = <<s[1]>>
      <4>1. <<s[1]>> \in Seq(R)
        BY <3>1
      <4> QED
        BY <1>5, <3>2, <4>1, SeqEqual
    <3>4. Kept(sg, cs) = IF s[1] \in cs THEN <<s[1]>> ELSE <<>>
      <4>1. <<>> \in Seq(R) /\ Append(<<>>, s[1]) = <<s[1]>>
        BY <3>1
      <4> HIDE DEF cs
      <4>2. Kept(Append(<<>>, s[1]), cs) =
              IF s[1] \in cs THEN Append(Kept(<<>>, cs), s[1]) ELSE Kept(<<>>, cs)
        <5>1. ASSUME NEW c \in R, NEW u \in Seq(R)
              PROVE  Kept(Append(u, c), cs) = IF c \in cs THEN Append(Kept(u, cs), c) ELSE Kept(u, cs)
          BY KeptAppend
        <5> QED
          BY <3>1, <4>1, <5>1
      <4> QED
        BY <3>3, <4>1, <4>2, KeptEmpty
    <3>5. s[1] \notin Grouping(fmt)
      BY <3>1, Marks, KindsOfCharacter
    <3>6. CASE s[1] = "-"
      <4>1. s[1] \in cs /\ minus = <<"-">>
        BY <3>1, <3>5, <3>6 DEF Has
      <4>2. Kept(sg, cs) = <<"-">>
        BY <3>4, <3>6, <4>1
      <4>3. <<"-">> \in Seq(Signs)
        BY DEF Signs
      <4> QED
        BY <4>1, <4>2, <4>3
    <3>7. CASE s[1] = "+"
      <4>1. s[1] \notin cs /\ minus = <<>>
        BY <3>7 DEF Has
      <4> QED
        BY <3>4, <4>1
    <3> QED
      BY <3>1, <3>6, <3>7 DEF Signs
  <2>2. CASE ~Has(s, 1, Signs)
    <3>1. i = 1 /\ minus = <<>>
      BY <2>2 DEF IntStart, Has, Signs
    <3>2. sg = <<>>
      <4>1. Len(sg) = 0
        BY <1>4, <3>1 DEF IsPart
      <4> QED
        BY <1>5, <4>1
    <3> QED
      BY <3>1, <3>2, KeptEmpty
  <2> QED
    BY <2>1, <2>2
<1>8. Kept(w, cs) = Kept(w, Digits) /\ Kept(w, Digits) \in Seq(Digits)
  <2> DEFINE W == R \cap (Digits \cup Grouping(fmt))
  <2>1. w \in Seq(W)
    <3>1. Len(w) \in Nat /\ DOMAIN w = 1..Len(w) /\ \A k \in 1..Len(w) : w[k] \in R
      BY <1>5, LenProperties, ElementOfSeq
    <3>2. \A k \in DOMAIN w : w[k] \in Digits \cup Grouping(fmt)
      BY DEF Whole, AllDigits, Range, w
    <3>3. \A k \in 1..Len(w) : w[k] \in W
      BY <3>1, <3>2
    <3> HIDE DEF W
    <3> QED
      BY <1>5, <3>1, <3>3
  <2>2. \A c \in W : c \in cs <=> c \in Digits
    <3>1. Digits \cap Grouping(fmt) = {} /\ "+" \notin Digits /\ "+" \notin Grouping(fmt)
      BY Marks, KindsOfCharacter DEF Signs
    <3> QED
      BY <3>1
  <2>3. Kept(w, cs) = Kept(w, Digits)
    <3> HIDE DEF W, cs
    <3> QED
      BY <2>1, <2>2, KeptSame
  <2>4. Kept(w, Digits) \in Seq(R \cap Digits)
    BY <1>5, KeptTyped
  <2> QED
    BY <2>3, <2>4, SeqMonotonic
<1>9. Kept(r, cs) = r /\ Dotted(r, fmt) = point
  <2>1. CASE d = Len(s) + 1
    <3>1. r = <<>> /\ point = <<>>
      <4>1. Len(r) = 0 /\ ~(d <= Len(s))
        BY <1>1, <1>4, <2>1 DEF IsPart
      <4> QED
        BY <1>5, <4>1
    <3>2. <<>> \in Seq({}) /\ {} \cap Decimal(fmt) = {}
      OBVIOUS
    <3>3. Dotted(<<>>, fmt) = <<>>
      BY <3>2, DottedSame
    <3> QED
      BY <3>1, <3>3, KeptEmpty
  <2>2. CASE d <= Len(s) /\ FractionFrom(s, i, d, fmt)
    <3>1. s[d] \in Decimal(fmt) /\ s[d] \in R /\ d \in 1..Len(s)
      BY <1>1, <1>2, <2>2 DEF FractionFrom, Has
    <3>2. f \in Seq(R \cap Digits)
      <4>1. f \in Seq(R) /\ Len(f) \in Nat /\ DOMAIN f = 1..Len(f) /\ \A k \in 1..Len(f) : f[k] \in R
        BY <1>4, <2>2 DEF IsPart
      <4>2. \A k \in DOMAIN f : f[k] \in Digits
        BY <2>2 DEF FractionFrom, AllDigits, Range, f
      <4> QED
        BY <4>1, <4>2
    <3> DEFINE c == s[d]
    <3>3. <<c>> \in Seq(R \cap Decimal(fmt)) /\ <<c>> \in Seq(R) /\ f \in Seq(R)
      BY <3>1, <3>2, SeqMonotonic
    <3>4. r = <<c>> \o f
      <4>1. SubSeq(s, d, d) \o SubSeq(s, d + 1, Len(s)) = SubSeq(s, d, Len(s))
        <5>1. d \in 1..(Len(s) + 1) /\ d \in (d - 1)..Len(s) /\ Len(s) \in d..Len(s)
          BY <1>1, <3>1
        <5> QED
          BY <5>1, ConcatAdjacentSubSeq
      <4>2. SubSeq(s, d, d) = <<c>>
        <5>1. d \in Int /\ \A k \in d..d : s[k] \in R
          BY <1>2, <3>1
        <5>2. /\ SubSeq(s, d, d) \in Seq(R) /\ Len(SubSeq(s, d, d)) = IF d <= d THEN d - d + 1 ELSE 0
              /\ \A k \in 1..(d - d + 1) : SubSeq(s, d, d)[k] = s[d + k - 1]
          BY <5>1, SubSeqProperties
        <5>3. 1 \in 1..(d - d + 1) /\ d + 1 - 1 = d /\ d - d + 1 = 1 /\ d <= d
          BY <5>1
        <5>4. Len(SubSeq(s, d, d)) = 1 /\ SubSeq(s, d, d)[1] = c
          BY <5>2, <5>3
        <5> HIDE DEF c
        <5>5. \A u \in Seq(R) : Len(u) = 1 => u = <<u[1]>>
          OBVIOUS
        <5> QED
          BY <5>2, <5>4, <5>5
      <4>3. (Len(s) + 1) - 1 = Len(s)
        BY <1>1
      <4> QED
        BY <4>1, <4>2, <4>3 DEF Part, r, f
    <3>5. Kept(r, cs) = r
      <4> DEFINE D == R \cap (Digits \cup Decimal(fmt))
      <4>1. <<c>> \in Seq(D) /\ f \in Seq(D)
        <5>1. R \cap Digits \subseteq D /\ c \in D
          BY <3>1
        <5> HIDE DEF D
        <5> QED
          BY <3>2, <5>1, SeqMonotonic
      <4>2. r \in Seq(D)
        BY <3>4, <4>1, ConcatProperties
      <4>3. D \subseteq cs
        <5>1. "+" \notin Digits /\ "+" \notin Decimal(fmt) /\ Digits \cap Grouping(fmt) = {}
              /\ Decimal(fmt) \cap Grouping(fmt) = {}
          BY Marks, KindsOfCharacter DEF Signs
        <5> QED
          BY <5>1
      <4> HIDE DEF D, cs
      <4> QED
        BY <4>2, <4>3, KeptAll
    <3>6. Dotted(r, fmt) = Dotted(<<c>>, fmt) \o Dotted(f, fmt)
      <4>1. ASSUME NEW a \in Seq(R), NEW b \in Seq(R)
            PROVE  Dotted(a \o b, fmt) = Dotted(a, fmt) \o Dotted(b, fmt)
        BY DottedConcat
      <4> QED
        BY <3>3, <3>4, <4>1
    <3>7. Dotted(<<c>>, fmt) = <<".">>
      BY <3>1 DEF Dotted
    <3>8. Dotted(f, fmt) = f
      <4>1. (R \cap Digits) \cap Decimal(fmt) = {}
        BY Marks, KindsOfCharacter
      <4> QED
        BY <3>2, <4>1, DottedSame
    <3> QED
      BY <2>2, <3>5, <3>6, <3>7, <3>8
  <2> QED
    BY <1>1, <2>1, <2>2
<1>10. Plainly(s, fmt) = Dotted((minus \o Kept(w, Digits)) \o r, fmt)
  BY <1>6, <1>7, <1>8, <1>9 DEF Plainly, Dotted, R
<1>11. Dotted((minus \o Kept(w, Digits)) \o r, fmt) = (minus \o Kept(w, Digits)) \o point
  <2> DEFINE T == R \cup Digits \cup Signs
             v == Kept(w, Digits)
  <2>1. minus \in Seq(T) /\ v \in Seq(T) /\ r \in Seq(T) /\ Dotted(r, fmt) = point
    BY <1>5, <1>7, <1>8, <1>9, SeqMonotonic
  <2>2. Dotted(minus, fmt) = minus /\ Dotted(v, fmt) = v
    <3>1. Signs \cap Decimal(fmt) = {} /\ Digits \cap Decimal(fmt) = {}
      BY Marks, KindsOfCharacter
    <3> HIDE DEF minus
    <3> QED
      BY <1>7, <1>8, <3>1, DottedSame
  <2> HIDE DEF T, v, minus, point
  <2>3. minus \o v \in Seq(T)
    BY <2>1
  <2>4. ASSUME NEW a \in Seq(T), NEW b \in Seq(T)
        PROVE  Dotted(a \o b, fmt) = Dotted(a, fmt) \o Dotted(b, fmt)
    BY DottedConcat
  <2>5. Dotted((minus \o v) \o r, fmt) = (Dotted(minus, fmt) \o Dotted(v, fmt)) \o Dotted(r, fmt)
    BY <2>1, <2>3, <2>4
  <2> QED
    BY <2>1, <2>2, <2>5 DEF v
<1> QED
  BY <1>10, <1>11 DEF w, f

\* The number that begins the text ends it.
TakenWhole(s, fmt) ==
  /\ RunEnd(s, IntStart(s, 1)) > IntStart(s, 1)
  /\ TokenEnd(s, IntStart(s, 1), fmt) = Len(s) + 1

\* normalise_number accepts what the grammar makes, and spells it plainly.
LEMMA Conforms ==
  ASSUME NEW S, NEW s \in Seq(S), NEW fmt \in NumberFormats
  PROVE  /\ NormaliseNumber(s, fmt) = IF Numeral(s, fmt) THEN Plainly(s, fmt) ELSE None
         /\ Numeral(s, fmt) => TakenWhole(s, fmt)
<1> DEFINE i == IntStart(s, 1)
           r == RunEnd(s, i)
           g == GroupsEnd(s, r, fmt)
           last == FractionEnd(s, g, fmt)
           fits == LeadFits(r - i, g > r) /\ Complete(s, last)
           value == (IF Has(s, 1, {"-"}) THEN <<"-">> ELSE <<>>) \o Kept(SubSeq(s, i, g - 1), Digits)
                    \o (IF last > g THEN <<".">> \o SubSeq(s, g + 1, last - 1) ELSE <<>>)
<1>1. Len(s) \in Nat /\ i \in 1..(Len(s) + 1) /\ DOMAIN s = 1..Len(s) /\ i \in Nat
  BY StartIs
<1>2. NormaliseNumber(s, fmt) = IF fits THEN value ELSE None
  BY DEF NormaliseNumber
<1>3. Numeral(s, fmt) <=> \/ WholeFrom(s, i, fmt)
                          \/ \E d \in i..Len(s) : FractionFrom(s, i, d, fmt)
  BY NumeralParts
<1>4. i = IntStart(s, 1) /\ r = RunEnd(s, i) /\ g = GroupsEnd(s, r, fmt)
  OBVIOUS
<1> HIDE DEF i, r, g
\* What is accepted is a numeral ...
<1>5. ASSUME fits
      PROVE  Numeral(s, fmt) /\ value = Plainly(s, fmt)
  <2>1. r \in Nat /\ g \in Nat /\ i < r /\ r <= g /\ g <= Len(s) + 1 /\ Whole(Part(s, i, g), fmt)
    BY <1>1, <1>4, <1>5, GroupsFit
  <2>2. g \in i..(Len(s) + 1) /\ last = Len(s) + 1
    BY <1>1, <1>5, <2>1 DEF Complete
  <2>3. CASE g = Len(s) + 1
    <3>1. WholeFrom(s, i, fmt)
      BY <2>1, <2>3 DEF WholeFrom
    <3>2. ~(last > g) /\ ~(g <= Len(s))
      BY <1>1, <2>2, <2>3
    <3>3. Plainly(s, fmt) =
            (IF Has(s, 1, {"-"}) THEN <<"-">> ELSE <<>>) \o Kept(Part(s, i, g), Digits)
            \o (IF g <= Len(s) THEN <<".">> \o Part(s, g + 1, Len(s) + 1) ELSE <<>>)
      BY <1>4, <2>1, <2>2, <2>3, PlainlyIs
    <3> QED
      BY <1>3, <3>1, <3>2, <3>3 DEF Part
  <2>4. CASE g # Len(s) + 1
    <3>1. last # g /\ last > g /\ g <= Len(s) /\ g \in i..Len(s)
      BY <1>1, <2>1, <2>2, <2>4
    <3>2. Has(s, g, Decimal(fmt)) /\ IsDigit(s, g + 1) /\ last = RunEnd(s, g + 1)
      BY <3>1 DEF FractionEnd
    <3>3. g + 1 \in 1..(Len(s) + 1)
      BY <1>1, <3>1
    <3>4. \A k \in (g + 1)..Len(s) : IsDigit(s, k)
      <4>1. \A k \in (g + 1)..(last - 1) : IsDigit(s, k)
        BY <3>2, <3>3, RunEnds
      <4>2. last - 1 = Len(s)
        BY <1>1, <2>2
      <4> QED
        BY <4>1, <4>2
    <3>5. AllDigits(Part(s, g + 1, Len(s) + 1))
      <4> DEFINE f == Part(s, g + 1, Len(s) + 1)
      <4>1. IsPart(f, S, s, g + 1, Len(s) + 1)
        <5>1. g + 1 \in Nat /\ Len(s) + 1 \in Nat /\ Cut(s, g + 1, Len(s) + 1)
          BY <1>1, <3>1 DEF Cut
        <5>2. ASSUME NEW x \in Nat, NEW y \in Nat, Cut(s, x, y) PROVE IsPart(Part(s, x, y), S, s, x, y)
          BY <5>2, PartIsPart
        <5> QED
          BY <5>1, <5>2
      <4> HIDE DEF f
      <4>2. f \in Seq(S) /\ DOMAIN f = 1..Len(f) /\ Len(f) = (Len(s) + 1) - (g + 1) /\ Len(f) \in Nat
        BY <4>1 DEF IsPart
      <4>3. Len(f) > 0
        BY <1>1, <3>2, <4>2 DEF IsDigit, Has
      <4>4. ASSUME NEW k \in DOMAIN f PROVE f[k] \in Digits
        <5>1. k \in Nat /\ k >= 1 /\ k <= (Len(s) + 1) - (g + 1)
          BY <4>2
        <5>2. f[k] = s[(g + 1) + k - 1] /\ (g + 1) + k - 1 \in (g + 1)..Len(s)
          <6>1. f[k] = s[(g + 1) + k - 1]
            BY <4>1, <5>1 DEF IsPart
          <6>2. (g + 1) + k - 1 >= g + 1 /\ (g + 1) + k - 1 <= Len(s) /\ (g + 1) + k - 1 \in Int
            BY <1>1, <2>1, <5>1
          <6> QED
            BY <2>1, <6>1, <6>2
        <5> QED
          BY <3>4, <5>2 DEF IsDigit, Has
      <4> QED
        BY <4>2, <4>3, <4>4 DEF AllDigits, Range, f
    <3>6. FractionFrom(s, i, g, fmt)
      BY <2>1, <3>2, <3>5 DEF FractionFrom
    <3>7. Plainly(s, fmt) =
            (IF Has(s, 1, {"-"}) THEN <<"-">> ELSE <<>>) \o Kept(Part(s, i, g), Digits)
            \o (IF g <= Len(s) THEN <<".">> \o Part(s, g + 1, Len(s) + 1) ELSE <<>>)
      BY <1>4, <2>1, <2>2, <3>6, PlainlyIs
    <3> QED
      BY <1>3, <2>2, <3>1, <3>6, <3>7 DEF Part
  <2> QED
    BY <2>3, <2>4
\* ... and every numeral is accepted.
<1>6. ASSUME NEW d \in i..(Len(s) + 1), Whole(Part(s, i, d), fmt),
             d = Len(s) + 1 \/ FractionFrom(s, i, d, fmt)
      PROVE  fits
  <2>1. d \in 1..(Len(s) + 1) /\ d \in Int
    BY <1>1
  <2>2. ~IsDigit(s, d) /\ ~GroupAt(s, d, fmt)
    <3>1. CASE d = Len(s) + 1
      <4>1. d \notin DOMAIN s
        BY <1>1, <3>1
      <4> QED
        BY <4>1 DEF IsDigit, Has, GroupAt
    <3>2. CASE FractionFrom(s, i, d, fmt)
      <4>1. Has(s, d, Separators) /\ ~Has(s, d, Grouping(fmt))
        BY <3>2, Marks DEF FractionFrom, Has
      <4> QED
        BY <2>1, <4>1, Positions DEF GroupAt
    <3> QED
      BY <1>6, <3>1, <3>2
  <2>3. g = d
    BY <1>1, <1>4, <1>6, <2>2, WholeIsRead
  <2>4. LeadFits(r - i, g > r)
    BY <1>1, <1>4, <1>6, <2>2, <2>3, LeadOfWhole
  <2>5. last = Len(s) + 1
    <3>1. CASE d = Len(s) + 1
      BY <1>1, <2>3, <3>1 DEF FractionEnd, Has
    <3>2. CASE FractionFrom(s, i, d, fmt)
      <4>1. Has(s, d, Decimal(fmt)) /\ AllDigits(Part(s, d + 1, Len(s) + 1)) /\ d \in 1..Len(s)
        BY <1>1, <3>2 DEF FractionFrom, Has
      <4>2. d + 1 < Len(s) + 1 /\ \A k \in (d + 1)..Len(s) : IsDigit(s, k)
        <5>1. PICK x \in 1..(Len(s) + 1), y \in 1..(Len(s) + 1) : x = d + 1 /\ y = Len(s) + 1 /\ x <= y
          BY <1>1, <4>1
        <5>2. AllDigits(Part(s, x, y)) /\ y - 1 = Len(s) /\ y \in x..(Len(s) + 1)
          BY <1>1, <4>1, <5>1
        <5>3. x < y /\ \A k \in x..(y - 1) : IsDigit(s, k)
          BY <5>2, DigitsOfPart
        <5> QED
          BY <5>1, <5>2, <5>3
      <4>3. IsDigit(s, d + 1)
        BY <1>1, <4>1, <4>2
      <4>4. RunEnd(s, d + 1) = Len(s) + 1
        <5>1. PICK x \in 1..(Len(s) + 1), y \in 1..(Len(s) + 1) : x = d + 1 /\ y = Len(s) + 1 /\ x <= y
          BY <1>1, <4>1
        <5>2. y \in x..(Len(s) + 1) /\ ~IsDigit(s, y) /\ \A k \in x..(y - 1) : IsDigit(s, k)
          <6>1. y \notin DOMAIN s /\ y - 1 = Len(s) /\ y \in x..(Len(s) + 1)
            BY <1>1, <5>1
          <6> QED
            BY <4>2, <5>1, <6>1 DEF IsDigit, Has
        <5>3. RunEnd(s, x) = y
          BY <5>2, RunEndIs
        <5> QED
          BY <5>1, <5>3
      <4> QED
        BY <2>3, <4>1, <4>3, <4>4 DEF FractionEnd
    <3> QED
      BY <1>6, <3>1, <3>2
  <2> QED
    BY <2>4, <2>5 DEF Complete
<1>7. Numeral(s, fmt) => fits
  <2>1. ASSUME WholeFrom(s, i, fmt) PROVE fits
    <3>1. PICK d \in i..(Len(s) + 1) : d = Len(s) + 1
      BY <1>1
    <3>2. Whole(Part(s, i, d), fmt)
      BY <2>1, <3>1 DEF WholeFrom
    <3> QED
      BY <1>6, <3>1, <3>2
  <2>2. ASSUME NEW d \in i..Len(s), FractionFrom(s, i, d, fmt) PROVE fits
    <3>1. d \in i..(Len(s) + 1) /\ Whole(Part(s, i, d), fmt)
      BY <1>1, <2>2 DEF FractionFrom
    <3> QED
      BY <1>6, <2>2, <3>1
  <2> QED
    BY <1>3, <2>1, <2>2
<1>8. ASSUME fits PROVE TakenWhole(s, fmt)
  <2>1. r \in Nat /\ i < r
    BY <1>1, <1>4, <1>8, GroupsFit
  <2>2. last = Len(s) + 1
    BY <1>8 DEF Complete
  <2>3. TokenEnd(s, i, fmt) = last
    BY DEF TokenEnd, g, r
  <2>4. r > i /\ TokenEnd(s, i, fmt) = Len(s) + 1
    BY <1>1, <2>1, <2>2, <2>3
  <2> QED
    BY <2>4 DEF TakenWhole, r, i
<1> HIDE DEF fits, value
<1> QED
  BY <1>2, <1>5, <1>7, <1>8

-----------------------------------------------------------------------------
(* The one ambiguity *)

\* Conventions that give the characters of a text the same meaning spell it alike.
LEMMA PlainlySame ==
  ASSUME NEW S, NEW s \in Seq(S), NEW f, NEW g,
         \A c \in Range(s) : /\ c \in Grouping(f) <=> c \in Grouping(g)
                             /\ c \in Decimal(f) <=> c \in Decimal(g)
  PROVE  Plainly(s, f) = Plainly(s, g)
<1> DEFINE R == Range(s)
           cs == R \ (Grouping(f) \cup {"+"})
           ds == R \ (Grouping(g) \cup {"+"})
<1>1. s \in Seq(R)
  BY SeqOfRange
<1>2. cs = ds
  OBVIOUS
<1>3. Kept(s, cs) \in Seq(R \cap cs)
  BY <1>1, KeptTyped
<1>4. \A k \in DOMAIN Kept(s, cs) : Kept(s, cs)[k] \in R
  BY <1>3, LenProperties, ElementOfSeq
<1>5. Plainly(s, f) = Dotted(Kept(s, cs), f)
  BY DEF Plainly, Dotted
<1>6. Plainly(s, g) = Dotted(Kept(s, ds), g)
  BY DEF Plainly, Dotted
<1> DEFINE kept == Kept(s, cs)
<1>7. \A k \in DOMAIN kept : kept[k] \in Decimal(f) <=> kept[k] \in Decimal(g)
  BY <1>4
<1> HIDE DEF kept
<1>8. Dotted(kept, f) = Dotted(kept, g)
  BY <1>7 DEF Dotted
<1> QED
  BY <1>2, <1>5, <1>6, <1>8 DEF kept

\* What follows a position, character by character.
LEMMA AfterIs ==
  ASSUME NEW S, NEW s \in Seq(S), NEW d \in 1..Len(s)
  PROVE  /\ SubSeq(s, d + 1, Len(s)) \in Seq(S) /\ Len(SubSeq(s, d + 1, Len(s))) = Len(s) - d
         /\ \A k \in 1..Len(s) : k > d => k - d \in 1..(Len(s) - d)
                                       /\ SubSeq(s, d + 1, Len(s))[k - d] = s[k]
<1> DEFINE f == SubSeq(s, d + 1, Len(s))
<1>1. Len(s) \in Nat
  OBVIOUS
<1>2. PICK a \in Nat, b \in Nat : a = d + 1 /\ b = Len(s) + 1
  BY <1>1
<1>3. b - 1 = Len(s) /\ Cut(s, a, b)
  BY <1>1, <1>2 DEF Cut
<1>4. f = Part(s, a, b)
  BY <1>2, <1>3 DEF Part
<1>5. IsPart(Part(s, a, b), S, s, a, b)
  BY <1>3, PartIsPart
<1> HIDE DEF f
<1>6. f \in Seq(S) /\ Len(f) = b - a /\ \A k \in Nat : k >= 1 /\ k <= b - a => f[k] = s[a + k - 1]
  BY <1>4, <1>5 DEF IsPart
<1>7. ASSUME NEW k \in 1..Len(s), k > d
      PROVE  k - d \in 1..(Len(s) - d) /\ f[k - d] = s[k]
  <2>1. PICK m \in Nat : m = k - d
    BY <1>7
  <2>2. m >= 1 /\ m <= b - a /\ a + m - 1 = k /\ m \in 1..(Len(s) - d)
    BY <1>1, <1>2, <1>7, <2>1
  <2>3. f[m] = s[a + m - 1]
    BY <1>6, <2>2
  <2> QED
    BY <2>1, <2>2, <2>3
<1>8. b - a = Len(s) - d
  BY <1>1, <1>2
<1> QED
  BY <1>6, <1>7, <1>8 DEF f

\* Groups of four behind a lead of n are one, or a second begins five behind the lead.
LEMMA GroupsOfFour ==
  ASSUME NEW l \in Nat, NEW n \in 1..3, l > n, (l - n) % 4 = 0
  PROVE  /\ n + 1 \in 1..l /\ n + 1 > n /\ (n + 1 - n) % 4 = 1
         /\ l = n + 4 \/ (n + 5 \in 1..l /\ n + 5 > n /\ (n + 5 - n) % 4 = 1)
<1>1. \A x \in Nat : x > 0 /\ x % 4 = 0 => x = 4 \/ x >= 8
  OBVIOUS
<1>2. PICK x \in Nat : x = l - n
  OBVIOUS
<1>3. x > 0 /\ x % 4 = 0
  BY <1>2
<1>4. x = 4 \/ x >= 8
  BY <1>1, <1>3
<1>5. n + 1 - n = 1 /\ n + 5 - n = 5 /\ 1 % 4 = 1 /\ 5 % 4 = 1
  OBVIOUS
<1> QED
  BY <1>2, <1>4, <1>5

\* A whole part is made of digits and grouping separators, and a single separator
\* stands before its last three digits.
LEMMA WholeMarks ==
  ASSUME NEW S, NEW s \in Seq(S), NEW fmt \in NumberFormats, Whole(s, fmt)
  PROVE  /\ \A k \in 1..Len(s) : s[k] \in Digits \cup Grouping(fmt)
         /\ \A k \in 1..Len(s) :
              s[k] \in Grouping(fmt) /\ (\A j \in 1..Len(s) : s[j] \in Grouping(fmt) => j = k) =>
                Len(s) \in 5..7 /\ k = Len(s) - 3
<1>1. Len(s) \in Nat /\ DOMAIN s = 1..Len(s)
  OBVIOUS
<1>2. Digits \cap Grouping(fmt) = {}
  BY Marks, KindsOfCharacter
<1>3. CASE AllDigits(s)
  <2>1. \A k \in 1..Len(s) : s[k] \in Digits
    BY <1>1, <1>3 DEF AllDigits, Range
  <2> QED
    BY <1>2, <2>1
<1>4. ASSUME NEW n \in 1..3, Len(s) > n, (Len(s) - n) % 4 = 0,
             \A k \in DOMAIN s : s[k] \in IF k > n /\ (k - n) % 4 = 1 THEN Grouping(fmt) ELSE Digits
      PROVE  /\ \A k \in 1..Len(s) : s[k] \in Digits \cup Grouping(fmt)
             /\ \A k \in 1..Len(s) :
                  s[k] \in Grouping(fmt)
                  /\ (\A j \in 1..Len(s) : s[j] \in Grouping(fmt) => j = k) =>
                    Len(s) \in 5..7 /\ k = Len(s) - 3
  <2>1. \A k \in 1..Len(s) : s[k] \in Digits \cup Grouping(fmt)
    BY <1>1, <1>4
  <2>2. ASSUME NEW k \in 1..Len(s), \A j \in 1..Len(s) : s[j] \in Grouping(fmt) => j = k
        PROVE  Len(s) \in 5..7 /\ k = Len(s) - 3
    <3>1. PICK l \in Nat : l = Len(s)
      BY <1>1
    <3>2. /\ n + 1 \in 1..l /\ n + 1 > n /\ (n + 1 - n) % 4 = 1
          /\ l = n + 4 \/ (n + 5 \in 1..l /\ n + 5 > n /\ (n + 5 - n) % 4 = 1)
      BY <1>4, <3>1, GroupsOfFour
    <3>3. \A m \in 1..l : m > n /\ (m - n) % 4 = 1 => s[m] \in Grouping(fmt)
      BY <1>1, <1>4, <3>1
    <3>4. n + 1 = k
      BY <2>2, <3>1, <3>2, <3>3
    <3>5. n + 5 # k
      BY <3>4
    <3>6. l = n + 4
      BY <2>2, <3>1, <3>2, <3>3, <3>5
    <3> QED
      BY <3>1, <3>4, <3>6
  <2> QED
    BY <2>1, <2>2
<1> QED
  BY <1>3, <1>4 DEF Whole

\* What the characters of a numeral without its sign are, where its separators
\* stand, and where one does that groups alone.
Marked(t, fmt) ==
  /\ \A k \in 1..Len(t) : t[k] \in Digits \cup Grouping(fmt) \cup Decimal(fmt)
  /\ \A k, j \in 1..Len(t) : t[k] \in Decimal(fmt) /\ t[j] \in Separators => j <= k
  /\ \A k \in 1..Len(t) :
       /\ t[k] \in Grouping(fmt)
       /\ \A j \in 1..Len(t) : t[j] \in Separators => j = k
       => Len(t) \in 5..7 /\ k = Len(t) - 3

LEMMA NumeralMarks ==
  ASSUME NEW S, NEW s \in Seq(S), NEW fmt \in NumberFormats, Numeral(s, fmt),
         NEW t \in Seq(S), t = IF Has(s, 1, Signs) THEN Tail(s) ELSE s
  PROVE  Marked(t, fmt)
<1>1. Len(t) \in Nat /\ DOMAIN t = 1..Len(t)
  OBVIOUS
<1>2. /\ Digits \cap Separators = {} /\ Grouping(fmt) \subseteq Separators
      /\ Decimal(fmt) \subseteq Separators /\ Grouping(fmt) \cap Decimal(fmt) = {}
  BY Marks, KindsOfCharacter DEF Grouping, Decimal, Separators, NumberFormats
<1>3. CASE Whole(t, fmt)
  <2>1. /\ \A k \in 1..Len(t) : t[k] \in Digits \cup Grouping(fmt)
        /\ \A k \in 1..Len(t) :
             t[k] \in Grouping(fmt) /\ (\A j \in 1..Len(t) : t[j] \in Grouping(fmt) => j = k) =>
               Len(t) \in 5..7 /\ k = Len(t) - 3
    BY <1>3, WholeMarks
  <2>2. \A k \in 1..Len(t) : t[k] \notin Decimal(fmt)
    BY <1>2, <2>1
  <2>3. \A k \in 1..Len(t) :
          t[k] \in Grouping(fmt) /\ (\A j \in 1..Len(t) : t[j] \in Separators => j = k) =>
               Len(t) \in 5..7 /\ k = Len(t) - 3
    BY <1>2, <2>1
  <2> QED
    BY <2>1, <2>2, <2>3 DEF Marked
<1>4. ASSUME NEW d \in DOMAIN t, t[d] \in Decimal(fmt), Whole(SubSeq(t, 1, d - 1), fmt),
             AllDigits(SubSeq(t, d + 1, Len(t)))
      PROVE  Marked(t, fmt)
  <2> DEFINE w == SubSeq(t, 1, d - 1)
             f == SubSeq(t, d + 1, Len(t))
  <2>1. w \in Seq(S) /\ Len(w) = d - 1 /\ \A k \in 1..(d - 1) : w[k] = t[k]
    BY <1>1
  <2>2. \A k \in 1..(d - 1) : t[k] \in Digits \cup Grouping(fmt)
    <3>1. Whole(w, fmt)
      BY <1>4
    <3> HIDE DEF w
    <3>2. \A k \in 1..Len(w) : w[k] \in Digits \cup Grouping(fmt)
      BY <2>1, <3>1, WholeMarks
    <3> QED
      BY <2>1, <3>2
  <2>3. ASSUME NEW k \in 1..Len(t), k > d PROVE t[k] \in Digits
    <3>1. f \in Seq(S) /\ k - d \in 1..Len(f) /\ f[k - d] = t[k]
      <4>1. d \in 1..Len(t)
        BY <1>1
      <4>2. /\ SubSeq(t, d + 1, Len(t)) \in Seq(S) /\ Len(SubSeq(t, d + 1, Len(t))) = Len(t) - d
            /\ k - d \in 1..(Len(t) - d) /\ SubSeq(t, d + 1, Len(t))[k - d] = t[k]
        BY <2>3, <4>1, AfterIs
      <4> QED
        BY <4>2
    <3>2. AllDigits(f)
      BY <1>4
    <3> HIDE DEF f
    <3> QED
      BY <3>1, <3>2 DEF AllDigits, Range
  <2>4. \A k \in 1..Len(t) : k < d \/ k = d \/ k > d
    BY <1>1
  <2>5. \A k \in 1..Len(t) : t[k] \in Digits \cup Grouping(fmt) \cup Decimal(fmt)
    <3> SUFFICES ASSUME NEW k \in 1..Len(t)
                 PROVE  t[k] \in Digits \cup Grouping(fmt) \cup Decimal(fmt)
      OBVIOUS
    <3>1. CASE k < d
      <4>1. k \in 1..(d - 1)
        BY <1>1, <3>1
      <4> QED
        BY <2>2, <4>1
    <3> QED
      BY <1>4, <2>3, <2>4, <3>1
  <2>6. \A k \in 1..Len(t) : t[k] \in Decimal(fmt) => k = d
    BY <1>1, <1>2, <2>2, <2>3, <2>4
  <2>7. \A k \in 1..Len(t) : t[k] \in Separators => k <= d
    BY <1>1, <1>2, <2>3, <2>4
  <2>8. ASSUME NEW k \in 1..Len(t), t[k] \in Grouping(fmt),
               \A j \in 1..Len(t) : t[j] \in Separators => j = k
        PROVE  FALSE
    BY <1>1, <1>2, <1>4, <2>8
  <2>9. \A k, j \in 1..Len(t) : t[k] \in Decimal(fmt) /\ t[j] \in Separators => j <= k
    BY <2>6, <2>7
  <2> HIDE DEF w, f
  <2> QED
    BY <2>5, <2>8, <2>9 DEF Marked
<1> QED
  BY <1>3, <1>4 DEF Numeral

\* One to three digits, a separator and three digits.
Ambiguous(t) ==
  /\ Len(t) \in 5..7
  /\ \A k \in DOMAIN t : IF k = Len(t) - 3 THEN t[k] \in Separators ELSE t[k] \in Digits

\* A text with a separator that is a numeral with grouping points, and in another
\* convention too, is the ambiguous one.
LEMMA TwoReadings ==
  ASSUME NEW S, NEW t \in Seq(S), Marked(t, "EuGrouped"),
         NEW o \in {"Plain", "UsGrouped"}, Marked(t, o),
         NEW n \in 1..Len(t), t[n] \in Separators
  PROVE  Ambiguous(t)
<1>1. Len(t) \in Nat /\ DOMAIN t = 1..Len(t)
  OBVIOUS
<1>2. /\ Decimal("EuGrouped") = {","} /\ Grouping("EuGrouped") = {"."} /\ Decimal(o) = {"."}
      /\ Grouping("UsGrouped") = {","} /\ Grouping("Plain") = {} /\ Separators = {".", ","}
      /\ Decimal("UsGrouped") = {"."}
  BY DEF Decimal, Grouping, Separators
<1>3. "," \notin Digits /\ "." \notin Digits
  BY <1>2, Marks, KindsOfCharacter
<1>4. ASSUME NEW k \in 1..Len(t), t[k] = "."
      PROVE  Ambiguous(t)
  <2>1. \A j \in 1..Len(t) : t[j] = "," => k <= j
    BY <1>2, <1>4 DEF Marked
  <2>2. \A j \in 1..Len(t) : t[j] \in Separators => j <= k
    BY <1>2, <1>4 DEF Marked
  <2>3. \A j \in 1..Len(t) : t[j] = "." => k <= j
    BY <1>2, <1>4 DEF Marked
  <2>4. \A j \in 1..Len(t) : t[j] \in Separators => j = k
    <3> SUFFICES ASSUME NEW j \in 1..Len(t), t[j] \in Separators PROVE j = k
      OBVIOUS
    <3>1. j <= k /\ k <= j
      BY <1>2, <2>1, <2>2, <2>3
    <3> QED
      BY <1>1, <3>1
  <2>5. Len(t) \in 5..7 /\ k = Len(t) - 3
    BY <1>2, <1>4, <2>4 DEF Marked
  <2>6. \A j \in 1..Len(t) : j # k => t[j] \in Digits
    BY <1>2, <2>4 DEF Marked
  <2> QED
    BY <1>1, <1>2, <1>4, <2>5, <2>6 DEF Ambiguous
<1>5. ASSUME \A k \in 1..Len(t) : t[k] # "."
      PROVE  Ambiguous(t)
  <2>1. t[n] = ","
    BY <1>2, <1>5
  <2>2. o = "UsGrouped"
    BY <1>2, <1>3, <2>1 DEF Marked
  <2>3. \A j \in 1..Len(t) : t[j] = "," => n <= j /\ j <= n
    BY <1>2, <2>1 DEF Marked
  <2>4. \A j \in 1..Len(t) : t[j] \in Separators => j = n
    <3> SUFFICES ASSUME NEW j \in 1..Len(t), t[j] \in Separators PROVE j = n
      OBVIOUS
    <3>1. j <= n /\ n <= j
      BY <1>2, <1>5, <2>3
    <3> QED
      BY <1>1, <3>1
  <2>5. Len(t) \in 5..7 /\ n = Len(t) - 3
    BY <1>2, <2>1, <2>2, <2>4 DEF Marked
  <2>6. \A j \in 1..Len(t) : j # n => t[j] \in Digits
    BY <1>2, <2>4 DEF Marked
  <2> QED
    BY <1>1, <2>5, <2>6 DEF Ambiguous
<1> QED
  BY <1>4, <1>5

\* Two conventions that read a text as different numbers read the ambiguous one.
LEMMA OneAmbiguity ==
  ASSUME NEW S, NEW s \in Seq(S), NEW f \in NumberFormats, NEW g \in NumberFormats,
         Numeral(s, f), Numeral(s, g), Plainly(s, f) # Plainly(s, g),
         NEW t, t = IF Has(s, 1, Signs) THEN Tail(s) ELSE s
  PROVE  Ambiguous(t)
<1>1. Len(s) \in Nat /\ DOMAIN s = 1..Len(s) /\ t \in Seq(S)
  <2>1. Has(s, 1, Signs) => s # <<>>
    BY DEF Has
  <2> QED
    BY <2>1
<1>2. Marked(t, f) /\ Marked(t, g)
  BY <1>1, NumeralMarks
<1>3. ASSUME NEW c \in Range(s), c \in Separators PROVE \E n \in 1..Len(t) : t[n] = c
  <2>1. PICK k \in 1..Len(s) : s[k] = c
    BY <1>1 DEF Range
  <2>2. CASE Has(s, 1, Signs)
    <3>1. s[1] \notin Separators /\ s # <<>>
      BY <2>2, Marks, KindsOfCharacter DEF Has
    <3>2. k # 1
      BY <1>3, <2>1, <3>1
    <3>3. t = Tail(s) /\ Len(t) = Len(s) - 1 /\ \A m \in 1..(Len(s) - 1) : t[m] = s[m + 1]
      BY <1>1, <2>2, <3>1
    <3>4. k - 1 \in 1..Len(t) /\ t[k - 1] = s[k - 1 + 1] /\ k - 1 + 1 = k
      <4>1. k - 1 \in 1..(Len(s) - 1) /\ k - 1 + 1 = k
        BY <1>1, <3>2
      <4> QED
        BY <3>3, <4>1
    <3> QED
      BY <2>1, <3>4
  <2> QED
    BY <2>1, <2>2
<1>4. /\ Grouping("EuGrouped") = {"."} /\ Grouping("UsGrouped") = {","} /\ Grouping("Plain") = {}
      /\ Decimal("EuGrouped") = {","} /\ Decimal("UsGrouped") = {"."} /\ Decimal("Plain") = {"."}
      /\ Separators = {".", ","} /\ NumberFormats = {"Plain", "EuGrouped", "UsGrouped"}
  BY DEF Decimal, Grouping, Separators, NumberFormats
<1>5. PICK c \in Range(s) : \/ ~(c \in Grouping(f) <=> c \in Grouping(g))
                            \/ ~(c \in Decimal(f) <=> c \in Decimal(g))
  BY PlainlySame
<1>6. c \in Separators
  BY <1>4, <1>5
<1>7. PICK n \in 1..Len(t) : t[n] = c
  BY <1>3, <1>6
<1>8. "," \notin Digits
  BY <1>4, Marks, KindsOfCharacter
<1>9. CASE f = "EuGrouped"
  <2>1. g \in {"Plain", "UsGrouped"}
    BY <1>4, <1>5, <1>9
  <2> QED
    BY <1>1, <1>2, <1>6, <1>7, <1>9, <2>1, TwoReadings
<1>10. CASE g = "EuGrouped"
  <2>1. f \in {"Plain", "UsGrouped"}
    BY <1>4, <1>5, <1>10
  <2> QED
    BY <1>1, <1>2, <1>6, <1>7, <1>10, <2>1, TwoReadings
<1>11. CASE f # "EuGrouped" /\ g # "EuGrouped"
  <2>1. /\ f = "Plain" \/ g = "Plain"
        /\ c = ","
    BY <1>4, <1>5, <1>11
  <2>2. "," \in Digits
    BY <1>2, <1>4, <1>7, <2>1 DEF Marked
  <2> QED
    BY <1>8, <2>2
<1> QED
  BY <1>9, <1>10, <1>11

\* normalise_number accepts the numerals of each convention and nothing else, spells
\* them plainly, and has no ambiguity but the one it names (lib.rs 157-222).
THEOREM NumbersAlwaysConform == RulesSpec => []NumbersConform
<1>1. RulesInit => BodyInv
  BY DEF RulesInit, Init, BodyInv
<1>2. BodyInv => NumbersConform
  <2> SUFFICES ASSUME BodyInv PROVE NumbersConform
    OBVIOUS
  <2>1. body \in Seq(Alphabet)
    BY DEF BodyInv
  <2>2. \A fmt \in NumberFormats :
          NormaliseNumber(body, fmt) = IF Numeral(body, fmt) THEN Plainly(body, fmt) ELSE None
    BY <2>1, Conforms
  <2>3. ASSUME NEW f \in NumberFormats, NEW g \in NumberFormats,
               NormaliseNumber(body, f) # None, NormaliseNumber(body, g) # None,
               NormaliseNumber(body, f) # NormaliseNumber(body, g)
        PROVE  Ambiguous(IF Has(body, 1, Signs) THEN Tail(body) ELSE body)
    <3>1. Numeral(body, f) /\ Numeral(body, g) /\ Plainly(body, f) # Plainly(body, g)
      BY <2>2, <2>3
    <3> QED
      BY <2>1, <3>1, OneAmbiguity
  <2>4. NormaliseConforms
    BY <2>2 DEF NormaliseConforms
  <2>5. OnlyAmbiguity
    BY <2>3 DEF OnlyAmbiguity, Ambiguous
  <2> QED
    BY <2>4, <2>5 DEF NumbersConform
<1> QED
  BY <1>1, <1>2, BodyStep, PTL DEF RulesSpec

-----------------------------------------------------------------------------
(* Literals, escaped and read back *)

\* What satisfies the recursion of a walk is the walk.
LEMMA AlongUnique ==
  ASSUME NEW S, NEW s \in Seq(S), NEW T, NEW z, NEW step, NEW f, Along(f, s, T, z, step),
         NEW g, g[0] = z, \A k \in 1..Len(s) : g[k - 1] \in T => g[k] = step[<<g[k - 1], s[k]>>]
  PROVE  g[Len(s)] = f[Len(s)] /\ f[Len(s)] \in T
<1> DEFINE A == {n \in Nat : n <= Len(s) => f[n] \in T /\ g[n] = f[n]}
<1>1. /\ Len(s) \in Nat /\ f \in [0..Len(s) -> T] /\ f[0] = z
      /\ \A k \in 1..Len(s) : f[k] = step[<<f[k - 1], s[k]>>]
  BY LenProperties DEF Along
<1>2. 0 \in A
  BY <1>1
<1>3. ASSUME NEW n \in Nat, n \in A PROVE n + 1 \in A
  <2> SUFFICES ASSUME n + 1 <= Len(s) PROVE f[n + 1] \in T /\ g[n + 1] = f[n + 1]
    OBVIOUS
  <2> DEFINE m == n + 1
  <2>1. m \in 1..Len(s) /\ m - 1 = n /\ m \in 0..Len(s)
    BY <1>1
  <2>2. f[n] \in T /\ g[n] = f[n]
    BY <1>1, <1>3
  <2> HIDE DEF m
  <2>3. f[m] = step[<<f[m - 1], s[m]>>] /\ f[m] \in T
    BY <1>1, <2>1
  <2>4. g[m] = step[<<g[m - 1], s[m]>>]
    BY <2>1, <2>2
  <2> QED
    BY <2>1, <2>2, <2>3, <2>4 DEF m
<1>4. Nat \subseteq A
  <2> HIDE DEF A
  <2> QED
    BY <1>2, <1>3, NatSetInduction
<1> QED
  BY <1>1, <1>4

LongerBy(t, s, c) ==
  Len(t) = Len(s) + 1 /\ t[Len(s) + 1] = c /\ \A k \in 1..Len(s) : t[k] = s[k]

\* A walk along a text of one character more is one step longer.
LEMMA AlongAppend ==
  ASSUME NEW S, NEW s \in Seq(S), NEW c \in S, NEW t \in Seq(S), LongerBy(t, s, c),
         NEW T, NEW z, NEW step, NEW f, Along(f, s, T, z, step), NEW g, Along(g, t, T, z, step)
  PROVE  g[Len(t)] = step[<<f[Len(s)], c>>] /\ f[Len(s)] \in T
<1>1. /\ Len(t) = Len(s) + 1 /\ t[Len(s) + 1] = c /\ Len(s) \in Nat
      /\ \A k \in 1..Len(s) : t[k] = s[k]
  BY LenProperties DEF LongerBy
<1>2. g[0] = z /\ \A k \in 1..Len(t) : g[k] = step[<<g[k - 1], t[k]>>]
  BY DEF Along
<1>3. \A k \in 1..Len(s) : k \in 1..Len(t)
  BY <1>1
<1>4. \A k \in 1..Len(s) : g[k] = step[<<g[k - 1], s[k]>>]
  BY <1>1, <1>2, <1>3
<1>5. g[Len(s)] = f[Len(s)] /\ f[Len(s)] \in T
  BY <1>2, <1>4, AlongUnique
<1>6. Len(t) \in 1..Len(t) /\ Len(t) - 1 = Len(s)
  BY <1>1
<1>7. g[Len(t)] = step[<<g[Len(t) - 1], t[Len(t)]>>]
  BY <1>2, <1>6
<1> QED
  BY <1>1, <1>5, <1>6, <1>7

\* How one character is escaped, and what escaping does along a text.
Esc(c) == IF c \in Escapable THEN <<"\\", c>> ELSE <<c>>
Slashed(S) == S \cup {"\\"}
EscapeStep(S) == [v \in Seq(Slashed(S)) \X S |-> v[1] \o Esc(v[2])]

EscapedBy(f, s) ==
  f = [k \in 0..Len(s) |->
         IF k = 0 THEN <<>>
         ELSE f[k - 1] \o (IF s[k] \in Escapable THEN <<"\\", s[k]>> ELSE <<s[k]>>)]

LEMMA EscIs ==
  ASSUME NEW S, NEW c \in S
  PROVE  Esc(c) \in Seq(Slashed(S)) /\ Len(Esc(c)) \in 1..2
<1>1. CASE c \in Escapable
  BY <1>1 DEF Esc, Slashed
<1>2. CASE c \notin Escapable
  BY <1>2 DEF Esc, Slashed
<1> QED
  BY <1>1, <1>2

LEMMA EscapeIs ==
  ASSUME NEW S, NEW s \in Seq(S)
  PROVE  \E f : Along(f, s, Seq(Slashed(S)), <<>>, EscapeStep(S)) /\ EscapeRegex(s) = f[Len(s)]
<1> DEFINE T == Seq(Slashed(S))
           none == <<>>
           step == EscapeStep(S)
<1>1. step \in [T \X S -> T] /\ none \in T
  <2>1. ASSUME NEW v \in T \X S PROVE v[1] \o Esc(v[2]) \in T
    <3>1. v[1] \in T /\ v[2] \in S
      OBVIOUS
    <3>2. Esc(v[2]) \in T
      BY <3>1, EscIs
    <3> QED
      BY <3>1, <3>2
  <2>2. none \in T
    OBVIOUS
  <2> HIDE DEF T
  <2> QED
    BY <2>1, <2>2 DEF EscapeStep, T
<1>2. PICK f : Along(f, s, T, none, step)
  <2> HIDE DEF step, none, T
  <2> QED
    BY <1>1, AlongText
<1>3. Len(s) \in Nat /\ \A k \in 1..Len(s) : s[k] \in S
  BY LenProperties, ElementOfSeq
<1>4. \A v \in T, c \in S : step[<<v, c>>] = v \o Esc(c)
  BY DEF EscapeStep
<1>5. EscapedBy(f, s)
  <2>1. \A k \in 0..Len(s) : k = 0 \/ k \in 1..Len(s)
    BY <1>3
  <2>2. \A k \in 1..Len(s) : f[k - 1] \in T
    <3> HIDE DEF T, none, step
    <3>1. \A k \in 1..Len(s) : k - 1 \in 0..Len(s)
      BY <1>3
    <3> QED
      BY <1>2, <3>1 DEF Along
  <2>3. \A k \in 1..Len(s) : f[k] = f[k - 1] \o Esc(s[k])
    <3> HIDE DEF T, none, step
    <3> QED
      BY <1>2, <1>3, <1>4, <2>2 DEF Along
  <2>4. f \in [0..Len(s) -> T] /\ f[0] = <<>>
    <3> HIDE DEF T, step
    <3> QED
      BY <1>2 DEF Along
  <2> HIDE DEF T
  <2> QED
    BY <2>1, <2>3, <2>4 DEF EscapedBy, Esc
<1> DEFINE g == CHOOSE h : EscapedBy(h, s)
<1>6. EscapedBy(g, s)
  BY <1>5
<1>7. EscapeRegex(s) = g[Len(s)]
  BY DEF EscapeRegex, EscapedBy
<1> HIDE DEF g
<1>8. g[0] = none
  <2>1. 0 \in 0..Len(s)
    BY <1>3
  <2> QED
    BY <1>6, <2>1 DEF EscapedBy
<1>9. \A k \in 1..Len(s) : g[k - 1] \in T => g[k] = step[<<g[k - 1], s[k]>>]
  <2> SUFFICES ASSUME NEW k \in 1..Len(s), g[k - 1] \in T PROVE g[k] = step[<<g[k - 1], s[k]>>]
    OBVIOUS
  <2>1. k \in 0..Len(s) /\ k # 0
    BY <1>3
  <2>2. g[k] = g[k - 1] \o Esc(s[k])
    BY <1>6, <2>1 DEF EscapedBy, Esc
  <2> HIDE DEF T, step
  <2> QED
    BY <1>3, <1>4, <2>2
<1>10. g[Len(s)] = f[Len(s)]
  <2> HIDE DEF T, none, step
  <2> QED
    BY <1>2, <1>8, <1>9, AlongUnique
<1> QED
  BY <1>2, <1>7, <1>10

LEMMA EscapeEmpty == EscapeRegex(<<>>) = <<>>
<1>1. <<>> \in Seq({}) /\ Len(<<>>) = 0
  OBVIOUS
<1>2. PICK f : Along(f, <<>>, Seq(Slashed({})), <<>>, EscapeStep({})) /\ EscapeRegex(<<>>) = f[0]
  BY <1>1, EscapeIs
<1> QED
  BY <1>2 DEF Along

LEMMA EscapeAppend ==
  ASSUME NEW S, NEW s \in Seq(S), NEW c \in S
  PROVE  /\ EscapeRegex(Append(s, c)) = EscapeRegex(s) \o Esc(c)
         /\ EscapeRegex(s) \in Seq(Slashed(S))
<1> DEFINE t == Append(s, c)
<1>1. t \in Seq(S) /\ LongerBy(t, s, c)
  <2>1. t \in Seq(S) /\ Len(t) = Len(s) + 1 /\ t[Len(s) + 1] = c /\ \A k \in 1..Len(s) : t[k] = s[k]
    OBVIOUS
  <2> HIDE DEF t
  <2> QED
    BY <2>1 DEF LongerBy
<1> HIDE DEF t
<1>2. PICK f : /\ Along(f, s, Seq(Slashed(S)), <<>>, EscapeStep(S))
               /\ EscapeRegex(s) = f[Len(s)]
  BY EscapeIs
<1>3. PICK g : /\ Along(g, t, Seq(Slashed(S)), <<>>, EscapeStep(S))
               /\ EscapeRegex(t) = g[Len(t)]
  BY <1>1, EscapeIs
<1>4. g[Len(t)] = EscapeStep(S)[<<f[Len(s)], c>>] /\ f[Len(s)] \in Seq(Slashed(S))
  BY <1>1, <1>2, <1>3, AlongAppend
<1>5. EscapeStep(S)[<<f[Len(s)], c>>] = f[Len(s)] \o Esc(c)
  BY <1>4 DEF EscapeStep
<1> QED
  BY <1>2, <1>3, <1>4, <1>5 DEF t

LEMMA EscapeTyped ==
  ASSUME NEW S, NEW s \in Seq(S) PROVE EscapeRegex(s) \in Seq(Slashed(S))
<1>1. CASE s = <<>>
  <2>1. <<>> \in Seq(Slashed(S))
    OBVIOUS
  <2> QED
    BY <1>1, <2>1, EscapeEmpty
<1>2. CASE s # <<>>
  <2>1. PICK c \in S : TRUE
    BY <1>2
  <2> QED
    BY <2>1, EscapeAppend
<1> QED
  BY <1>1, <1>2

\* What unescaping knows after a text.
Readings(S) == [text : Seq(S), slash : BOOLEAN, ok : BOOLEAN]
Fresh == [text |-> <<>>, slash |-> FALSE, ok |-> TRUE]
UnescapeStep(S) == [v \in Readings(S) \X S |-> Unescape(v[1], v[2])]

ReadingBy(f, s) ==
  f = [k \in 0..Len(s) |->
         IF k = 0 THEN [text |-> <<>>, slash |-> FALSE, ok |-> TRUE] ELSE Unescape(f[k - 1], s[k])]

LEMMA UnescapeTyped ==
  ASSUME NEW S, NEW r \in Readings(S), NEW c \in S
  PROVE  Unescape(r, c) \in Readings(S)
<1>1. r.text \in Seq(S) /\ r.slash \in BOOLEAN /\ r.ok \in BOOLEAN
  BY DEF Readings
<1>2. Append(r.text, c) \in Seq(S)
  BY <1>1
<1>3. CASE r.slash
  <2>1. (r.ok /\ Escaped(c)) \in BOOLEAN
    OBVIOUS
  <2> QED
    BY <1>2, <1>3, <2>1 DEF Unescape, Readings
<1>4. CASE ~r.slash /\ c = "\\"
  BY <1>4 DEF Unescape, Readings
<1>5. CASE ~r.slash /\ c # "\\"
  <2>1. (r.ok /\ c \notin Escapable \cup Pieces) \in BOOLEAN
    OBVIOUS
  <2> QED
    BY <1>2, <1>5, <2>1 DEF Unescape, Readings
<1> QED
  BY <1>3, <1>4, <1>5

LEMMA ReadingIs ==
  ASSUME NEW S, NEW s \in Seq(S)
  PROVE  \E f : Along(f, s, Readings(S), Fresh, UnescapeStep(S)) /\ Reading(s) = f[Len(s)]
<1> DEFINE T == Readings(S)
           step == UnescapeStep(S)
<1>1. step \in [T \X S -> T] /\ Fresh \in T
  <2>1. ASSUME NEW v \in T \X S PROVE Unescape(v[1], v[2]) \in T
    <3>1. v[1] \in T /\ v[2] \in S
      OBVIOUS
    <3> QED
      BY <3>1, UnescapeTyped
  <2>2. Fresh \in T
    <3>1. <<>> \in Seq(S)
      OBVIOUS
    <3> QED
      BY <3>1 DEF Fresh, Readings
  <2> HIDE DEF T
  <2> QED
    BY <2>1, <2>2 DEF UnescapeStep, T
<1>2. PICK f : Along(f, s, T, Fresh, step)
  <2> HIDE DEF step, T
  <2> QED
    BY <1>1, AlongText
<1>3. Len(s) \in Nat /\ \A k \in 1..Len(s) : s[k] \in S
  BY LenProperties, ElementOfSeq
<1>4. \A v \in T, c \in S : step[<<v, c>>] = Unescape(v, c)
  BY DEF UnescapeStep
<1> HIDE DEF T, step
<1>5. ReadingBy(f, s)
  <2>1. \A k \in 0..Len(s) : k = 0 \/ k \in 1..Len(s)
    BY <1>3
  <2>2. \A k \in 1..Len(s) : f[k - 1] \in T
    <3>1. \A k \in 1..Len(s) : k - 1 \in 0..Len(s)
      BY <1>3
    <3> QED
      BY <1>2, <3>1 DEF Along
  <2>3. \A k \in 1..Len(s) : f[k] = Unescape(f[k - 1], s[k])
    BY <1>2, <1>3, <1>4, <2>2 DEF Along
  <2>4. f \in [0..Len(s) -> T] /\ f[0] = Fresh
    BY <1>2 DEF Along
  <2> QED
    BY <2>1, <2>3, <2>4 DEF ReadingBy, Fresh
<1> DEFINE g == CHOOSE h : ReadingBy(h, s)
<1>6. ReadingBy(g, s)
  BY <1>5
<1>7. Reading(s) = g[Len(s)]
  BY DEF Reading, ReadingBy
<1> HIDE DEF g
<1>8. g[0] = Fresh
  <2>1. 0 \in 0..Len(s)
    BY <1>3
  <2> QED
    BY <1>6, <2>1 DEF ReadingBy, Fresh
<1>9. \A k \in 1..Len(s) : g[k - 1] \in T => g[k] = step[<<g[k - 1], s[k]>>]
  <2> SUFFICES ASSUME NEW k \in 1..Len(s), g[k - 1] \in T PROVE g[k] = step[<<g[k - 1], s[k]>>]
    OBVIOUS
  <2>1. k \in 0..Len(s) /\ k # 0
    BY <1>3
  <2>2. g[k] = Unescape(g[k - 1], s[k])
    BY <1>6, <2>1 DEF ReadingBy
  <2> QED
    BY <1>3, <1>4, <2>2
<1>10. g[Len(s)] = f[Len(s)]
  BY <1>2, <1>8, <1>9, AlongUnique
<1> QED
  BY <1>2, <1>7, <1>10 DEF T, step

LEMMA ReadingEmpty == Reading(<<>>) = Fresh
<1>1. <<>> \in Seq({}) /\ Len(<<>>) = 0
  OBVIOUS
<1>2. PICK f : Along(f, <<>>, Readings({}), Fresh, UnescapeStep({})) /\ Reading(<<>>) = f[0]
  BY <1>1, ReadingIs
<1> QED
  BY <1>2 DEF Along

LEMMA ReadingAppend ==
  ASSUME NEW S, NEW s \in Seq(S), NEW c \in S
  PROVE  Reading(Append(s, c)) = Unescape(Reading(s), c) /\ Reading(s) \in Readings(S)
<1> DEFINE t == Append(s, c)
<1>1. t \in Seq(S) /\ LongerBy(t, s, c)
  <2>1. t \in Seq(S) /\ Len(t) = Len(s) + 1 /\ t[Len(s) + 1] = c /\ \A k \in 1..Len(s) : t[k] = s[k]
    OBVIOUS
  <2> HIDE DEF t
  <2> QED
    BY <2>1 DEF LongerBy
<1> HIDE DEF t
<1>2. PICK f : Along(f, s, Readings(S), Fresh, UnescapeStep(S)) /\ Reading(s) = f[Len(s)]
  BY ReadingIs
<1>3. PICK g : Along(g, t, Readings(S), Fresh, UnescapeStep(S)) /\ Reading(t) = g[Len(t)]
  BY <1>1, ReadingIs
<1>4. g[Len(t)] = UnescapeStep(S)[<<f[Len(s)], c>>] /\ f[Len(s)] \in Readings(S)
  BY <1>1, <1>2, <1>3, AlongAppend
<1>5. UnescapeStep(S)[<<f[Len(s)], c>>] = Unescape(f[Len(s)], c)
  BY <1>4 DEF UnescapeStep
<1> QED
  BY <1>2, <1>3, <1>4, <1>5 DEF t

\* An escaped literal without pieces of a pattern is read back as the literal.
LEMMA EscapedIsRead ==
  ASSUME NEW S, NEW s \in Seq(S), S \cap Pieces = {}
  PROVE  Reading(EscapeRegex(s)) = [text |-> s, slash |-> FALSE, ok |-> TRUE]
<1> DEFINE A == {u \in Seq(S) : Reading(EscapeRegex(u)) = [text |-> u, slash |-> FALSE, ok |-> TRUE]}
<1>1. <<>> \in A
  <2>1. <<>> \in Seq(S)
    OBVIOUS
  <2> QED
    BY <2>1, EscapeEmpty, ReadingEmpty DEF Fresh
<1>2. \A u \in Seq(S), c \in S : u \in A => Append(u, c) \in A
  <2> SUFFICES ASSUME NEW u \in Seq(S), NEW c \in S, u \in A PROVE Append(u, c) \in A
    OBVIOUS
  <2> DEFINE e == EscapeRegex(u)
             goal == [text |-> Append(u, c), slash |-> FALSE, ok |-> TRUE]
  <2>1. e \in Seq(Slashed(S)) /\ EscapeRegex(Append(u, c)) = e \o Esc(c) /\ Append(u, c) \in Seq(S)
    BY EscapeAppend
  <2>2. Reading(e) = [text |-> u, slash |-> FALSE, ok |-> TRUE]
    OBVIOUS
  <2>3. c \in Slashed(S) /\ "\\" \in Slashed(S)
    BY DEF Slashed
  <2> HIDE DEF e
  <2>4. CASE c \in Escapable
    <3>1. e \o Esc(c) = Append(Append(e, "\\"), c) /\ Append(e, "\\") \in Seq(Slashed(S))
      BY <2>1, <2>3, <2>4 DEF Esc
    <3>2. Reading(Append(e, "\\")) = Unescape(Reading(e), "\\")
      BY <2>1, <2>3, ReadingAppend
    <3>3. Reading(Append(Append(e, "\\"), c)) = Unescape(Reading(Append(e, "\\")), c)
      BY <2>3, <3>1, ReadingAppend
    <3>4. Unescape(Reading(e), "\\") = [text |-> u, slash |-> TRUE, ok |-> TRUE]
      <4>1. Unescape([text |-> u, slash |-> FALSE, ok |-> TRUE], "\\") =
              [text |-> u, slash |-> TRUE, ok |-> TRUE]
        BY DEF Unescape
      <4> QED
        BY <2>2, <4>1
    <3>5. Unescape([text |-> u, slash |-> TRUE, ok |-> TRUE], c) = goal
      BY <2>4 DEF Unescape, Escaped
    <3> QED
      BY <2>1, <3>1, <3>2, <3>3, <3>4, <3>5
  <2>5. CASE c \notin Escapable
    <3>1. e \o Esc(c) = Append(e, c)
      BY <2>1, <2>3, <2>5 DEF Esc
    <3>2. Reading(Append(e, c)) = Unescape(Reading(e), c)
      BY <2>1, <2>3, ReadingAppend
    <3>3. c # "\\" /\ c \notin Pieces
      BY <2>5 DEF Escapable
    <3>4. Unescape(Reading(e), c) = goal
      <4>1. Unescape([text |-> u, slash |-> FALSE, ok |-> TRUE], c) = goal
        BY <2>5, <3>3 DEF Unescape
      <4> QED
        BY <2>2, <4>1
    <3> QED
      BY <2>1, <3>1, <3>2, <3>4
  <2> QED
    BY <2>4, <2>5
<1> HIDE DEF A
<1>3. Seq(S) \subseteq A
  BY <1>1, <1>2, TextInduction
<1> QED
  BY <1>3 DEF A

\* What reads as an escaped literal is one, up to a slash that escapes nothing yet.
LEMMA ReadIsEscaped ==
  ASSUME NEW S, NEW s \in Seq(S), Reading(s).ok
  PROVE  /\ Reading(s) \in Readings(S)
         /\ s = EscapeRegex(Reading(s).text) \o (IF Reading(s).slash THEN <<"\\">> ELSE <<>>)
<1> DEFINE T == Slashed(S)
           Back(u) == u = EscapeRegex(Reading(u).text) \o (IF Reading(u).slash THEN <<"\\">> ELSE <<>>)
           A == {u \in Seq(S) : Reading(u) \in Readings(S) /\ (Reading(u).ok => Back(u))}
<1>1. <<>> \in A
  <2>1. <<>> \in Seq(S) /\ <<>> \o <<>> = <<>>
    OBVIOUS
  <2>2. Fresh \in Readings(S) /\ Fresh.text = <<>> /\ ~Fresh.slash
    BY <2>1 DEF Fresh, Readings
  <2> QED
    BY <2>1, <2>2, EscapeEmpty, ReadingEmpty
<1>2. \A u \in Seq(S), c \in S : u \in A => Append(u, c) \in A
  <2> SUFFICES ASSUME NEW u \in Seq(S), NEW c \in S, u \in A PROVE Append(u, c) \in A
    OBVIOUS
  <2> DEFINE r == Reading(u)
             n == Unescape(r, c)
             e == EscapeRegex(r.text)
             x == EscapeRegex(Append(r.text, c))
  <2>1. Reading(Append(u, c)) = n /\ r \in Readings(S) /\ Append(u, c) \in Seq(S)
    BY ReadingAppend
  <2>2. n \in Readings(S)
    BY <2>1, UnescapeTyped
  <2>3. r.text \in Seq(S) /\ r.slash \in BOOLEAN /\ r.ok \in BOOLEAN
    BY <2>1 DEF Readings
  <2>4. e \in Seq(T) /\ x = e \o Esc(c)
    <3>1. ASSUME NEW v \in Seq(S)
          PROVE  EscapeRegex(v) \in Seq(T) /\ EscapeRegex(Append(v, c)) = EscapeRegex(v) \o Esc(c)
      BY EscapeAppend
    <3> QED
      BY <2>3, <3>1
  <2>5. r.ok => u = e \o (IF r.slash THEN <<"\\">> ELSE <<>>)
    OBVIOUS
  <2>6. c \in T /\ "\\" \in T
    BY DEF Slashed
  <2> SUFFICES ASSUME n.ok
               PROVE  Append(u, c) = EscapeRegex(n.text) \o (IF n.slash THEN <<"\\">> ELSE <<>>)
    BY <2>1, <2>2
  <2> HIDE DEF r, e, x
  <2>7. CASE r.slash
    <3>1. n.text = Append(r.text, c) /\ ~n.slash /\ r.ok /\ c \in Escapable
      BY <2>7 DEF Unescape, Escaped
    <3>2. u = e \o <<"\\">>
      BY <2>5, <2>7, <3>1
    <3>3. x = e \o <<"\\", c>>
      BY <2>4, <3>1 DEF Esc
    <3>4. Append(e \o <<"\\">>, c) = e \o <<"\\", c>> /\ (e \o <<"\\", c>>) \o <<>> = e \o <<"\\", c>>
      BY <2>4, <2>6
    <3> QED
      BY <3>1, <3>2, <3>3, <3>4 DEF x
  <2>8. CASE ~r.slash /\ c = "\\"
    <3>1. n.text = r.text /\ n.slash /\ r.ok
      BY <2>1, <2>8 DEF Unescape, Readings
    <3>2. u = e \o <<>>
      BY <2>5, <2>8, <3>1
    <3>3. Append(e \o <<>>, c) = e \o <<c>>
      BY <2>4, <2>6
    <3> QED
      BY <2>8, <3>1, <3>2, <3>3 DEF e
  <2>9. CASE ~r.slash /\ c # "\\"
    <3>1. n.text = Append(r.text, c) /\ ~n.slash /\ r.ok /\ c \notin Escapable
      BY <2>1, <2>9 DEF Unescape, Readings
    <3>2. u = e \o <<>>
      BY <2>5, <2>9, <3>1
    <3>3. x = e \o <<c>>
      BY <2>4, <3>1 DEF Esc
    <3>4. Append(e \o <<>>, c) = e \o <<c>> /\ (e \o <<c>>) \o <<>> = e \o <<c>>
      BY <2>4, <2>6
    <3> QED
      BY <3>1, <3>2, <3>3, <3>4 DEF x
  <2> QED
    BY <2>3, <2>7, <2>8, <2>9
<1> HIDE DEF A
<1>3. Seq(S) \subseteq A
  BY <1>1, <1>2, TextInduction
<1> QED
  BY <1>3 DEF A

\* unescape_literal undoes the escaping of a literal, and takes nothing else for one.
LEMMA Unescaped ==
  ASSUME NEW S, NEW s \in Seq(S), S \cap Pieces = {}
  PROVE  /\ UnescapeLiteral(EscapeRegex(s)) = s
         /\ UnescapeLiteral(s) # None => EscapeRegex(UnescapeLiteral(s)) = s
<1>1. UnescapeLiteral(EscapeRegex(s)) = s
  BY EscapedIsRead DEF UnescapeLiteral
<1>2. ASSUME UnescapeLiteral(s) # None PROVE EscapeRegex(UnescapeLiteral(s)) = s
  <2> DEFINE r == Reading(s)
             e == EscapeRegex(r.text)
  <2>1. r.ok /\ ~r.slash /\ UnescapeLiteral(s) = r.text
    BY <1>2 DEF UnescapeLiteral
  <2>2. r \in Readings(S) /\ s = e \o <<>>
    BY <2>1, ReadIsEscaped
  <2>3. r.text \in Seq(S)
    BY <2>2 DEF Readings
  <2>4. e \in Seq(Slashed(S))
    <3>1. \A v \in Seq(S) : EscapeRegex(v) \in Seq(Slashed(S))
      BY EscapeTyped
    <3> QED
      BY <2>3, <3>1
  <2>5. e \o <<>> = e
    BY <2>4, ConcatEmptySeq
  <2> QED
    BY <2>1, <2>2, <2>5
<1> QED
  BY <1>1, <1>2

-----------------------------------------------------------------------------
(* A pattern and its parts *)

\* The two halves of a text.
LEMMA Halves ==
  ASSUME NEW U, NEW a \in Seq(U), NEW b \in Seq(U)
  PROVE  /\ a \o b \in Seq(U) /\ Len(a \o b) = Len(a) + Len(b)
         /\ SubSeq(a \o b, 1, Len(a)) = a /\ From(a \o b, Len(a) + 1) = b
<1> DEFINE s == a \o b
           x == Len(a) + 1
           y == Len(s) + 1
<1>1. /\ s \in Seq(U) /\ Len(s) = Len(a) + Len(b) /\ Len(a) \in Nat /\ Len(b) \in Nat
      /\ \A k \in 1..Len(a) : s[k] = a[k]
      /\ \A k \in 1..Len(b) : s[Len(a) + k] = b[k]
  OBVIOUS
<1> HIDE DEF s
<1>2. x \in Nat /\ y \in Nat /\ 1 \in Nat /\ Cut(s, 1, x) /\ Cut(s, x, y) /\ x - 1 = Len(a) /\ y - 1 = Len(s)
  BY <1>1 DEF Cut
<1>3. SubSeq(s, 1, Len(a)) = Part(s, 1, x) /\ SubSeq(s, x, Len(s)) = Part(s, x, y)
  BY <1>2 DEF Part
<1>4. IsPart(Part(s, 1, x), U, s, 1, x) /\ IsPart(Part(s, x, y), U, s, x, y)
  <2> HIDE DEF x, y
  <2>1. ASSUME NEW i \in Nat, NEW e \in Nat, Cut(s, i, e) PROVE IsPart(Part(s, i, e), U, s, i, e)
    BY <1>1, <2>1, PartIsPart
  <2> QED
    BY <1>2, <2>1
<1> DEFINE p == Part(s, 1, x)
           q == Part(s, x, y)
<1>5. p = a
  <2> HIDE DEF p, x, y
  <2>0. x - 1 = Len(a) /\ x \in Nat
    BY <1>2
  <2>1. p \in Seq(U) /\ Len(p) = x - 1 /\ \A k \in Nat : k >= 1 /\ k <= x - 1 => p[k] = s[1 + k - 1]
    BY <1>4 DEF IsPart, p
  <2>2. ASSUME NEW k \in 1..Len(p) PROVE p[k] = a[k]
    <3>1. k \in Nat /\ k >= 1 /\ k <= x - 1 /\ 1 + k - 1 = k /\ k \in 1..Len(a)
      BY <1>1, <2>0, <2>1
    <3>2. p[k] = s[1 + k - 1]
      BY <2>1, <3>1
    <3> QED
      BY <1>1, <3>1, <3>2
  <2> QED
    BY <2>0, <2>1, <2>2, SeqEqual
<1>6. q = b
  <2> HIDE DEF q, x, y
  <2>0. y - x = Len(b) /\ x \in Nat /\ x - 1 = Len(a) /\ y \in Nat
    BY <1>1, <1>2 DEF x, y
  <2>1. q \in Seq(U) /\ Len(q) = y - x /\ \A k \in Nat : k >= 1 /\ k <= y - x => q[k] = s[x + k - 1]
    BY <1>4 DEF IsPart, q
  <2>2. ASSUME NEW k \in 1..Len(q) PROVE q[k] = b[k]
    <3>1. k \in Nat /\ k >= 1 /\ k <= y - x /\ x + k - 1 = Len(a) + k /\ k \in 1..Len(b)
      BY <1>1, <2>0, <2>1
    <3>2. q[k] = s[x + k - 1]
      BY <2>1, <3>1
    <3> QED
      BY <1>1, <3>1, <3>2
  <2> QED
    BY <2>0, <2>1, <2>2, SeqEqual
<1> HIDE DEF p, q
<1>7. SubSeq(s, 1, Len(a)) = a /\ SubSeq(s, x, Len(s)) = b
  BY <1>3, <1>5, <1>6 DEF p, q
<1> QED
  BY <1>1, <1>7 DEF From, s

\* A piece is found where it first stands.
LEMMA FoundAfter ==
  ASSUME NEW U, NEW a \in Seq(U), NEW b \in Seq(U), NEW c,
         b # <<>>, b[1] = c, \A k \in 1..Len(a) : a[k] # c
  PROVE  Find(a \o b, c) = Len(a) + 1
<1> DEFINE s == a \o b
           at == {k \in DOMAIN s : s[k] = c}
<1>1. /\ s \in Seq(U) /\ Len(s) = Len(a) + Len(b) /\ Len(a) \in Nat /\ Len(b) \in Nat
      /\ DOMAIN s = 1..Len(s) /\ Len(b) >= 1
      /\ \A k \in 1..Len(a) : s[k] = a[k]
      /\ \A k \in 1..Len(b) : s[Len(a) + k] = b[k]
  OBVIOUS
<1> HIDE DEF s
<1>2. Len(a) + 1 \in at /\ \A k \in at : Len(a) + 1 <= k
  <2>1. Len(a) + 1 \in DOMAIN s /\ s[Len(a) + 1] = c
    BY <1>1
  <2>2. ASSUME NEW k \in at PROVE Len(a) + 1 <= k
    <3>1. k \in 1..Len(s) /\ s[k] = c
      BY <1>1
    <3>2. k \notin 1..Len(a)
      BY <1>1, <3>1
    <3> QED
      BY <1>1, <3>1, <3>2
  <2> QED
    BY <2>1, <2>2
<1>3. at \in SUBSET Nat /\ at # {}
  BY <1>1, <1>2, SMTT(20)
<1>4. Least(at) \in at /\ \A k \in at : Least(at) <= k
  <2> HIDE DEF at
  <2> QED
    BY <1>3, LeastIs
<1>5. Least(at) = Len(a) + 1
  <2>1. Least(at) \in Nat /\ Least(at) <= Len(a) + 1 /\ Len(a) + 1 <= Least(at)
    BY <1>2, <1>3, <1>4
  <2> HIDE DEF at
  <2> QED
    BY <1>1, <2>1
<1> QED
  BY <1>3, <1>5 DEF Find, s

\* A text with a given beginning loses it, and no other one.
LEMMA Dropped ==
  ASSUME NEW U, NEW a \in Seq(U), NEW b \in Seq(U)
  PROVE  DropPrefix(a \o b, a) = b
<1>1. /\ Len(a \o b) = Len(a) + Len(b) /\ SubSeq(a \o b, 1, Len(a)) = a
      /\ From(a \o b, Len(a) + 1) = b
  BY Halves
<1>2. SubSeq(a, 1, Len(a)) = a
  BY SubSeqFull
<1>3. IsPrefix(a, a \o b)
  <2>1. Len(a) <= Len(a) + Len(b)
    OBVIOUS
  <2> QED
    BY <1>1, <1>2, <2>1 DEF IsPrefix
<1> QED
  BY <1>1, <1>3 DEF DropPrefix

LEMMA PrefixIs ==
  ASSUME NEW U, NEW s \in Seq(U), NEW a \in Seq(U), IsPrefix(a, s)
  PROVE  Len(a) <= Len(s) /\ \A k \in 1..Len(a) : s[k] = a[k]
<1> DEFINE p == SubSeq(a, 1, Len(a))
           q == SubSeq(s, 1, Len(a))
<1>1. Len(a) \in Nat /\ Len(s) \in Nat /\ Len(a) <= Len(s) /\ p = q
  BY DEF IsPrefix
<1>2. p = a
  BY SubSeqFull
<1>3. \A k \in 1..Len(a) : q[k] = s[k]
  BY <1>1
<1> HIDE DEF p, q
<1> QED
  BY <1>1, <1>2, <1>3

\* A text ends in two characters when they are its last.
LEMMA SuffixIs ==
  ASSUME NEW U, NEW s \in Seq(U), NEW c \in U, NEW d \in U
  PROVE  IsSuffix(<<c, d>>, s) <=> Len(s) >= 2 /\ s[Len(s) - 1] = c /\ s[Len(s)] = d
<1> DEFINE t == <<c, d>>
           r == Reverse(s)
           rt == Reverse(t)
<1>1. Len(s) \in Nat /\ \A k \in 1..Len(s) : s[k] \in U
  BY LenProperties, ElementOfSeq
<1>2. r \in Seq(U) /\ Len(r) = Len(s) /\ \A k \in 1..Len(s) : r[k] = s[Len(s) - k + 1]
  <2>1. \A k \in 1..Len(s) : Len(s) - k + 1 \in 1..Len(s)
    BY <1>1
  <2>2. [k \in 1..Len(s) |-> s[Len(s) - k + 1]] \in Seq(U)
    BY <1>1, <2>1
  <2> QED
    BY <1>1, <2>2 DEF Reverse
<1>3. rt \in Seq(U) /\ Len(rt) = 2 /\ rt[1] = d /\ rt[2] = c
  <2>1. t \in Seq(U) /\ Len(t) = 2 /\ t[1] = c /\ t[2] = d
    OBVIOUS
  <2> HIDE DEF t
  <2>2. rt = [k \in 1..2 |-> t[2 - k + 1]]
    BY <2>1 DEF Reverse
  <2>3. \A k \in 1..2 : t[2 - k + 1] \in U
    BY <2>1
  <2> HIDE DEF rt
  <2> QED
    BY <2>1, <2>2, <2>3
<1> HIDE DEF r, rt
<1>4. IsSuffix(t, s) <=> IsPrefix(rt, r)
  BY DEF IsSuffix, r, rt
<1>5. IsPrefix(rt, r) => Len(r) >= 2 /\ r[1] = d /\ r[2] = c
  BY <1>2, <1>3, PrefixIs
<1>6. ASSUME Len(r) >= 2, r[1] = d, r[2] = c PROVE IsPrefix(rt, r)
  <2> DEFINE q == SubSeq(r, 1, 2)
  <2>1. q \in Seq(U) /\ Len(q) = 2 /\ q[1] = r[1] /\ q[2] = r[2]
    BY <1>2, <1>6
  <2> HIDE DEF q
  <2>2. q = rt
    BY <1>3, <1>6, <2>1, SeqEqual
  <2>3. SubSeq(rt, 1, Len(rt)) = rt
    BY <1>3, SubSeqFull
  <2> QED
    BY <1>3, <1>6, <2>2, <2>3 DEF IsPrefix, q
<1>7. Len(s) >= 2 => r[1] = s[Len(s)] /\ r[2] = s[Len(s) - 1]
  <2> SUFFICES ASSUME Len(s) >= 2 PROVE r[1] = s[Len(s)] /\ r[2] = s[Len(s) - 1]
    OBVIOUS
  <2>1. 1 \in 1..Len(s) /\ 2 \in 1..Len(s) /\ Len(s) - 1 + 1 = Len(s) /\ Len(s) - 2 + 1 = Len(s) - 1
    BY <1>1
  <2>2. r[1] = s[Len(s) - 1 + 1] /\ r[2] = s[Len(s) - 2 + 1]
    BY <1>2, <2>1
  <2> QED
    BY <2>1, <2>2
<1> QED
  BY <1>2, <1>4, <1>5, <1>6, <1>7 DEF t

\* The two pieces that open and close the bound of a gap.
GapPiece == ".{0,"
Brace == "}"

LEMMA NoBraces == Digits \cap {Brace, "?", "(", ")", "+", "|||", GapPiece, "(?s)", "\\"} = {}
<1>1. DOMAIN DigitNames = 1..10
  BY DEF DigitNames
<1>2. \A n \in 1..10 : DigitNames[n] \notin {Brace, "?", "(", ")", "+", "|||", GapPiece, "(?s)", "\\"}
  <2> TAKE n \in 1..10
  <2>1. n = 1 \/ n = 2 \/ n = 3 \/ n = 4 \/ n = 5 \/ n = 6 \/ n = 7 \/ n = 8 \/ n = 9 \/ n = 10
    OBVIOUS
  <2>2. /\ DigitNames[1] = "0" /\ DigitNames[2] = "1" /\ DigitNames[3] = "2"
        /\ DigitNames[4] = "3" /\ DigitNames[5] = "4" /\ DigitNames[6] = "5"
        /\ DigitNames[7] = "6" /\ DigitNames[8] = "7" /\ DigitNames[9] = "8"
        /\ DigitNames[10] = "9"
    BY SMT DEF DigitNames
  <2> QED
    BY <2>1, <2>2, Zenon DEF GapPiece, Brace
<1> HIDE DEF DigitNames
<1> QED
  BY <1>1, <1>2 DEF Digits, Range

\* A label, a gap of so many characters and a group.
Brackets == {GapPiece, Brace, "?", "(", ")"}
Pattern(lead, digs, cap) ==
  lead \o (<<GapPiece>> \o (digs \o (<<Brace>> \o (<<"?">> \o (<<"(">> \o (cap \o <<")">>))))))

\* A pattern is lowered to its label and its kind, or to itself.
LoweredTo(P, lead, digs, kind) ==
  RegexToAnchored(P) =
    IF kind # [is |-> "literal", text |-> None]
    THEN Anchored(UnescapeLiteral(lead), NumberOf(digs), kind) ELSE Regex(P)

\* regex_to_anchored finds the parts of a pattern.
LEMMA PatternLowered ==
  ASSUME NEW U, Brackets \subseteq U, Digits \subseteq U,
         NEW lead \in Seq(U), lead # <<>>, lead[1] # "(?s)",
         \A k \in 1..Len(lead) : lead[k] # GapPiece, UnescapeLiteral(lead) # None,
         NEW digs \in Seq(Digits), digs # <<>>, NEW cap \in Seq(U),
         NEW P, P = Pattern(lead, digs, cap),
         NEW kind, kind = KindOf(DropSuffix(DropPrefix(cap, WordBoundary), WordBoundary))
  PROVE  LoweredTo(P, lead, digs, kind)
<1> SUFFICES RegexToAnchored(P) =
               IF kind # [is |-> "literal", text |-> None]
               THEN Anchored(UnescapeLiteral(lead), NumberOf(digs), kind) ELSE Regex(P)
  BY DEF LoweredTo
<1> DEFINE p      == DropPrefix(P, <<"(?s)">>)
           gap    == Find(p, GapPiece)
           rest   == From(p, gap + 1)
           brace  == Find(rest, Brace)
           digits == Unsigned(SubSeq(rest, 1, brace - 1))
           after  == DropPrefix(From(rest, brace + 1), <<"?">>)
           inner  == DropSuffix(DropPrefix(SubSeq(after, 2, Len(after) - 1), WordBoundary),
                                WordBoundary)
           anchor == AnchorText(SubSeq(p, 1, gap - 1))
           found  == /\ gap > 0 /\ anchor # None
                     /\ brace > 0 /\ digits # <<>> /\ Range(digits) \subseteq Digits
                     /\ Len(after) > 1 /\ after[1] = "(" /\ after[Len(after)] = ")"
<1>1. RegexToAnchored(P) =
        IF found /\ KindOf(inner) # [is |-> "literal", text |-> None]
        THEN Anchored(anchor, NumberOf(digits), KindOf(inner)) ELSE Regex(P)
  BY Zenon DEF RegexToAnchored, GapPiece, Brace
\* The parts, from the last to the first.
<1> DEFINE close == cap \o <<")">>
           group == <<"(">> \o close
           lazy  == <<"?">> \o group
           upto  == <<Brace>> \o lazy
           bound == digs \o upto
           open  == <<GapPiece>> \o bound
<1>2. /\ <<")">> \in Seq(U) /\ <<"(">> \in Seq(U) /\ <<"?">> \in Seq(U) /\ <<Brace>> \in Seq(U)
      /\ <<GapPiece>> \in Seq(U) /\ digs \in Seq(U)
  BY DEF Brackets
<1>3. /\ close \in Seq(U) /\ group \in Seq(U) /\ lazy \in Seq(U) /\ upto \in Seq(U)
      /\ bound \in Seq(U) /\ open \in Seq(U)
  BY <1>2, ConcatProperties
<1>4. P = lead \o open
  BY DEF Pattern
<1>5. p = P
  <2>1. P[1] = lead[1] /\ P \in Seq(U)
    <3> HIDE DEF open
    <3> QED
      BY <1>3, <1>4
  <2>2. ~IsPrefix(<<"(?s)">>, P)
    <3> DEFINE a == <<"(?s)">>
               W == U \cup {"(?s)"}
    <3>1. P \in Seq(W) /\ a \in Seq(W) /\ Len(a) = 1 /\ a[1] = "(?s)" /\ 1 \in 1..Len(a)
      BY <2>1
    <3> HIDE DEF a, W
    <3>2. IsPrefix(a, P) => P[1] = a[1]
      BY <3>1, PrefixIs
    <3> USE DEF a
    <3> QED
      BY <2>1, <3>2
  <2> QED
    BY <2>2 DEF DropPrefix
<1>6. gap = Len(lead) + 1 /\ SubSeq(p, 1, gap - 1) = lead /\ rest = bound
  <2>1. open # <<>> /\ open[1] = GapPiece
    <3> HIDE DEF bound
    <3> QED
      BY <1>3
  <2>2. Find(P, GapPiece) = Len(lead) + 1
    <3> HIDE DEF open
    <3> QED
      BY <1>3, <1>4, <2>1, FoundAfter
  <2>3. SubSeq(P, 1, Len(lead)) = lead /\ From(P, Len(lead) + 1) = open
    <3> HIDE DEF open
    <3> QED
      BY <1>3, <1>4, Halves
  <2>4. From(P, Len(lead) + 1 + 1) = bound
    <3> DEFINE a == lead \o <<GapPiece>>
    <3>1. a \in Seq(U) /\ Len(a) = Len(lead) + 1 /\ a \o bound = lead \o open
      <4>1. a \in Seq(U) /\ Len(a) = Len(lead) + 1
        BY <1>2
      <4>2. a \o bound = lead \o open
        <5> HIDE DEF bound
        <5> QED
          BY <1>2, <1>3, ConcatAssociative
      <4> QED
        BY <4>1, <4>2
    <3> HIDE DEF a, bound, open
    <3>2. From(a \o bound, Len(a) + 1) = bound
      BY <1>3, <3>1, Halves
    <3> QED
      BY <1>4, <3>1, <3>2
  <2>5. Len(lead) \in Nat
    OBVIOUS
  <2> HIDE DEF bound, open, p
  <2>6. gap = Len(lead) + 1
    BY <1>5, <2>2
  <2>7. gap - 1 = Len(lead)
    BY <2>5, <2>6
  <2> HIDE DEF gap
  <2> QED
    BY <1>5, <2>3, <2>4, <2>6, <2>7
<1>7. brace = Len(digs) + 1 /\ SubSeq(rest, 1, brace - 1) = digs /\ From(rest, brace + 1) = lazy
  <2>1. upto # <<>> /\ upto[1] = Brace
    <3> HIDE DEF lazy
    <3> QED
      BY <1>3
  <2>0. \A k \in 1..Len(digs) : digs[k] # Brace
    BY NoBraces, ElementOfSeq
  <2>2. Find(bound, Brace) = Len(digs) + 1
    <3> HIDE DEF upto
    <3> QED
      BY <1>2, <1>3, <2>0, <2>1, FoundAfter
  <2>3. SubSeq(bound, 1, Len(digs)) = digs
    <3> HIDE DEF upto
    <3> QED
      BY <1>2, <1>3, Halves
  <2>4. From(bound, Len(digs) + 1 + 1) = lazy
    <3> DEFINE a == digs \o <<Brace>>
    <3>1. a \in Seq(U) /\ Len(a) = Len(digs) + 1 /\ a \o lazy = bound
      <4>1. a \in Seq(U) /\ Len(a) = Len(digs) + 1
        BY <1>2
      <4>2. a \o lazy = bound
        <5> HIDE DEF lazy
        <5> QED
          BY <1>2, <1>3, ConcatAssociative
      <4> QED
        BY <4>1, <4>2
    <3> HIDE DEF a, bound, lazy
    <3>2. From(a \o lazy, Len(a) + 1) = lazy
      BY <1>3, <3>1, Halves
    <3> QED
      BY <3>1, <3>2
  <2>5. Len(digs) \in Nat
    OBVIOUS
  <2>6. rest = bound
    BY <1>6
  <2> HIDE DEF bound, lazy, rest
  <2>7. brace = Len(digs) + 1
    BY <2>2, <2>6
  <2>8. brace - 1 = Len(digs)
    BY <2>5, <2>7
  <2> HIDE DEF brace
  <2> QED
    BY <2>3, <2>4, <2>6, <2>7, <2>8
<1>8. digits = digs
  <2>1. digs[1] \notin {"+"}
    BY NoBraces, ElementOfSeq
  <2>2. Unsigned(digs) = digs
    BY <2>1 DEF Unsigned, Has
  <2> HIDE DEF rest, brace
  <2> QED
    BY <1>7, <2>2
<1>9. after = group
  <2>1. DropPrefix(lazy, <<"?">>) = group
    <3> HIDE DEF group
    <3> QED
      BY <1>2, <1>3, Dropped
  <2> HIDE DEF group, lazy, rest, brace
  <2> QED
    BY <1>7, <2>1
<1>10. /\ Len(group) > 1 /\ group[1] = "(" /\ group[Len(group)] = ")"
       /\ SubSeq(group, 2, Len(group) - 1) = cap
  <2>1. /\ close \in Seq(U) /\ Len(close) = Len(cap) + 1 /\ close[Len(cap) + 1] = ")" /\ Len(cap) \in Nat
    BY <1>2
  <2>2. group \in Seq(U) /\ Len(group) = Len(cap) + 2 /\ group[1] = "(" /\ group[Len(cap) + 2] = ")"
    <3> HIDE DEF close
    <3>1. Len(group) = 1 + Len(close) /\ group[1] = "(" /\ group[1 + Len(close)] = close[Len(close)]
      BY <1>2, <2>1
    <3> HIDE DEF group
    <3> QED
      BY <1>3, <2>1, <3>1
  <2>3. SubSeq(group, 2, Len(group) - 1) = cap
    <3> DEFINE a == <<"(">>
               b == a \o cap
               d == <<")">>
    <3>1. b \in Seq(U) /\ Len(b) = Len(cap) + 1 /\ b \o d = group
      <4>1. b \in Seq(U) /\ Len(b) = Len(cap) + 1
        BY <1>2
      <4>2. b \o d = group
        <5>1. ASSUME NEW x \in Seq(U), NEW y \in Seq(U), NEW z \in Seq(U)
              PROVE  (x \o y) \o z = x \o (y \o z)
          BY ConcatAssociative, SMTT(20)
        <5> HIDE DEF a, d
        <5> QED
          BY <1>2, <5>1 DEF a, d
      <4> QED
        BY <4>1, <4>2
    <3>2. SubSeq(b \o d, 1, Len(b)) = b
      <4> HIDE DEF b, d
      <4>1. d \in Seq(U)
        BY <1>2 DEF d
      <4> QED
        BY <3>1, <4>1, Halves
    <3>3. From(b, 2) = cap
      <4>1. Len(a) + 1 = 2 /\ a \in Seq(U)
        BY <1>2
      <4>2. From(a \o cap, Len(a) + 1) = cap
        <5> HIDE DEF a
        <5> QED
          BY <4>1, Halves
      <4> QED
        BY <4>1, <4>2
    <3> HIDE DEF group, b, d
    <3>4. SubSeq(group, 1, Len(b)) = b
      BY <3>1, <3>2
    <3>5. SubSeq(SubSeq(group, 1, Len(b)), 2, Len(b)) = SubSeq(group, 2, Len(b))
      <4>1. Len(group) - 1 = Len(b) /\ Len(b) \in Nat /\ Len(b) >= 1 /\ group \in Seq(U)
        BY <2>1, <2>2, <3>1
      <4>2. CASE Len(b) >= 2
        <5>1. /\ 1 \in 1..Len(group) /\ Len(b) \in 1..Len(group) /\ 2 \in 1..(Len(b) - 1 + 1)
              /\ Len(b) \in 1..(Len(b) - 1 + 1) /\ 1 + 2 - 1 = 2 /\ 1 + Len(b) - 1 = Len(b)
          BY <4>1, <4>2
        <5>2. SubSeq(SubSeq(group, 1, Len(b)), 2, Len(b)) = SubSeq(group, 1 + 2 - 1, 1 + Len(b) - 1)
          BY <4>1, <5>1, SubSeqOfSubSeq
        <5> QED
          BY <5>1, <5>2
      <4>3. CASE Len(b) < 2
        BY <4>1, <4>3, SubSeqEmpty
      <4> QED
        BY <4>1, <4>2, <4>3
    <3>6. Len(group) - 1 = Len(b)
      BY <2>1, <2>2, <3>1
    <3> QED
      BY <3>3, <3>4, <3>5, <3>6 DEF From
  <2> HIDE DEF group
  <2> QED
    BY <2>1, <2>2, <2>3
<1>11. KindOf(inner) = kind
  <2> HIDE DEF after, group
  <2> QED
    BY <1>9, <1>10
<1>12. anchor = UnescapeLiteral(lead)
  BY <1>6 DEF AnchorText
<1>13. found
  <2>1. gap > 0 /\ brace > 0
    <3>1. Len(lead) \in Nat /\ Len(digs) \in Nat
      OBVIOUS
    <3> HIDE DEF gap, brace
    <3> QED
      BY <1>6, <1>7, <3>1
  <2>2. Range(digs) \subseteq Digits
    BY ElementOfSeq DEF Range
  <2> HIDE DEF gap, brace, digits, after, anchor, group
  <2> QED
    BY <1>8, <1>9, <1>10, <1>12, <2>1, <2>2
<1> HIDE DEF found, inner, anchor, digits
<1> QED
  BY <1>1, <1>8, <1>11, <1>12, <1>13

-----------------------------------------------------------------------------
(* What the extension writes is lowered *)

\* The escape of a literal begins as the literal does, or with a slash before what
\* has a meaning in a pattern: never with a word boundary.
BeginsAs(e, s, S) ==
  /\ e \in Seq(Slashed(S)) /\ Len(e) >= 1 /\ e[1] \in {s[1], "\\"}
  /\ e[1] = "\\" => Len(e) >= 2 /\ e[2] \in Escapable

LEMMA EscapeBegins ==
  ASSUME NEW S, NEW s \in Seq(S), s # <<>>
  PROVE  BeginsAs(EscapeRegex(s), s, S)
<1> DEFINE A == {u \in Seq(S) : u # <<>> => BeginsAs(EscapeRegex(u), u, S)}
<1>1. <<>> \in A
  <2>1. <<>> \in Seq(S)
    OBVIOUS
  <2> QED
    BY <2>1
<1>2. \A u \in Seq(S), c \in S : u \in A => Append(u, c) \in A
  <2> SUFFICES ASSUME NEW u \in Seq(S), NEW c \in S, u \in A PROVE Append(u, c) \in A
    OBVIOUS
  <2> DEFINE v == Append(u, c)
             e == EscapeRegex(u)
             f == EscapeRegex(v)
  <2>1. e \in Seq(Slashed(S)) /\ f = e \o Esc(c) /\ v \in Seq(S)
    <3>1. EscapeRegex(Append(u, c)) = EscapeRegex(u) \o Esc(c) /\ EscapeRegex(u) \in Seq(Slashed(S))
      BY EscapeAppend
    <3>2. Append(u, c) \in Seq(S)
      OBVIOUS
    <3> QED
      BY <3>1, <3>2
  <2>2. Esc(c) \in Seq(Slashed(S)) /\ Len(Esc(c)) \in 1..2
    BY EscIs
  <2>3. CASE u = <<>>
    <3>1. f = Esc(c) /\ v[1] = c
      <4>1. e = <<>>
        BY <2>3, EscapeEmpty
      <4>2. <<>> \o Esc(c) = Esc(c)
        BY <2>2, ConcatEmptySeq
      <4>3. v[1] = c
        BY <2>3
      <4> HIDE DEF v
      <4> QED
        BY <2>1, <4>1, <4>2, <4>3
    <3>2. CASE c \in Escapable
      <4>1. f = <<"\\", c>>
        BY <3>1, <3>2 DEF Esc
      <4> HIDE DEF v, f
      <4>2. BeginsAs(f, v, S)
        BY <2>1, <2>2, <3>1, <3>2, <4>1 DEF BeginsAs
      <4> QED
        BY <2>1, <4>2 DEF f, v
    <3>3. CASE c \notin Escapable
      <4>1. f = <<c>> /\ c # "\\"
        BY <3>1, <3>3 DEF Esc, Escapable
      <4> HIDE DEF v, f
      <4>2. BeginsAs(f, v, S)
        BY <2>1, <2>2, <3>1, <3>3, <4>1 DEF BeginsAs
      <4> QED
        BY <2>1, <4>2 DEF f, v
    <3> QED
      BY <3>2, <3>3
  <2>4. CASE u # <<>>
    <3>1. /\ e \in Seq(Slashed(S)) /\ Len(e) >= 1 /\ e[1] \in {u[1], "\\"}
          /\ e[1] = "\\" => Len(e) >= 2 /\ e[2] \in Escapable
      BY <2>4 DEF BeginsAs
    <3>2. v[1] = u[1]
      BY <2>4
    <3> HIDE DEF e, f, v
    <3>3. /\ f \in Seq(Slashed(S)) /\ Len(f) >= Len(e) /\ f[1] = e[1] /\ Len(e) \in Nat
          /\ Len(e) >= 2 => f[2] = e[2]
      BY <2>1, <2>2, <3>1
    <3>4. Len(f) \in Nat
      BY <3>3
    <3>5. BeginsAs(f, v, S)
      BY <3>1, <3>2, <3>3, <3>4 DEF BeginsAs
    <3> QED
      BY <2>1, <3>5 DEF f, v
  <2> QED
    BY <2>3, <2>4
<1> HIDE DEF A
<1>3. Seq(S) \subseteq A
  BY <1>1, <1>2, TextInduction
<1>4. s \in A
  BY <1>3
<1> QED
  BY <1>4 DEF A

\* Cut before a word boundary at its end, an escape ends in a slash that escapes
\* nothing, so that no literal is read.
LEMMA CutBoundary ==
  ASSUME NEW S, NEW s \in Seq(S), S \cap Pieces = {}, IsSuffix(WordBoundary, EscapeRegex(s))
  PROVE  /\ DropSuffix(EscapeRegex(s), WordBoundary) \in Seq(Slashed(S))
         /\ UnescapeLiteral(DropSuffix(EscapeRegex(s), WordBoundary)) = None
<1> DEFINE e == EscapeRegex(s)
           T == Slashed(S) \cup {"b"}
           d == SubSeq(e, 1, Len(e) - 2)
           m == Append(d, "\\")
           r == Reading(d)
<1>1. e \in Seq(Slashed(S)) /\ Reading(e) = [text |-> s, slash |-> FALSE, ok |-> TRUE]
  BY EscapeTyped, EscapedIsRead
<1>2. IsSuffix(<<"\\", "b">>, e)
  BY DEF WordBoundary
<1>3. e \in Seq(T)
  BY <1>1
<1>4. "\\" \in T /\ "b" \in T
  BY DEF Slashed
<1> HIDE DEF e, T
<1>5. Len(e) >= 2 /\ e[Len(e) - 1] = "\\" /\ e[Len(e)] = "b"
  BY <1>2, <1>3, <1>4, SuffixIs
<1>6. DropSuffix(e, WordBoundary) = d
  <2>1. Len(WordBoundary) = 2
    BY DEF WordBoundary
  <2> QED
    BY <1>2, <2>1 DEF DropSuffix, WordBoundary
<1>7. /\ d \in Seq(Slashed(S)) /\ d \in Seq(T) /\ m \in Seq(T)
      /\ e = Append(m, "b")
  <2>1. Len(e) \in Nat
    BY <1>1
  <2>2. /\ d \in Seq(Slashed(S)) /\ d \in Seq(T) /\ Len(d) = Len(e) - 2
        /\ \A k \in 1..(Len(e) - 2) : d[k] = e[k]
    <3>1. PICK x \in Nat : x = Len(e) - 1
      BY <1>5, <2>1
    <3>2. x - 1 = Len(e) - 2 /\ Cut(e, 1, x) /\ 1 \in Nat
      BY <1>5, <2>1, <3>1 DEF Cut
    <3>3. d = Part(e, 1, x)
      BY <3>2 DEF Part
    <3> HIDE DEF d
    <3>4. IsPart(d, Slashed(S), e, 1, x) /\ IsPart(d, T, e, 1, x)
      BY <1>1, <1>3, <3>2, <3>3, PartIsPart
    <3>5. /\ d \in Seq(Slashed(S)) /\ d \in Seq(T) /\ Len(d) = x - 1
          /\ \A k \in Nat : k >= 1 /\ k <= x - 1 => d[k] = e[1 + k - 1]
      BY <3>4 DEF IsPart
    <3>6. \A k \in 1..(Len(e) - 2) : k \in Nat /\ k >= 1 /\ k <= x - 1 /\ 1 + k - 1 = k
      BY <2>1, <3>1
    <3> QED
      BY <3>2, <3>5, <3>6
  <2> HIDE DEF d
  <2>3. /\ m \in Seq(T) /\ Len(m) = Len(e) - 1 /\ m[Len(e) - 1] = "\\"
        /\ \A k \in 1..(Len(e) - 2) : m[k] = e[k]
    <3>1. m \in Seq(T) /\ Len(m) = Len(d) + 1 /\ m[Len(d) + 1] = "\\" /\ \A k \in 1..Len(d) : m[k] = d[k]
      BY <1>4, <2>2
    <3>2. Len(d) + 1 = Len(e) - 1
      BY <2>1, <2>2
    <3> HIDE DEF m
    <3> QED
      BY <2>2, <3>1, <3>2
  <2> HIDE DEF m
  <2> DEFINE n == Append(m, "b")
  <2>4. /\ n \in Seq(T) /\ Len(n) = Len(e) /\ n[Len(e)] = "b"
        /\ \A k \in 1..(Len(e) - 1) : n[k] = m[k]
    <3>1. n \in Seq(T) /\ Len(n) = Len(m) + 1 /\ n[Len(m) + 1] = "b" /\ \A k \in 1..Len(m) : n[k] = m[k]
      BY <1>4, <2>3
    <3>2. Len(m) + 1 = Len(e)
      BY <2>1, <2>3
    <3> HIDE DEF n
    <3> QED
      BY <2>3, <3>1, <3>2
  <2> HIDE DEF n
  <2>5. \A k \in 1..Len(e) : n[k] = e[k]
    <3> SUFFICES ASSUME NEW k \in 1..Len(e) PROVE n[k] = e[k]
      OBVIOUS
    <3>1. k \in 1..(Len(e) - 2) \/ k = Len(e) - 1 \/ k = Len(e)
      BY <2>1
    <3>2. k # Len(e) => k \in 1..(Len(e) - 1)
      BY <2>1
    <3> QED
      BY <1>5, <2>3, <2>4, <3>1, <3>2
  <2>6. n = e
    BY <1>3, <2>4, <2>5, SeqEqual
  <2> QED
    BY <2>2, <2>3, <2>6 DEF n
<1> HIDE DEF d, m
<1>8. Reading(e) = Unescape(Reading(m), "b") /\ Reading(m) \in Readings(T)
  BY <1>4, <1>7, ReadingAppend
<1>9. Reading(m) = Unescape(r, "\\") /\ r \in Readings(T)
  <2>1. Reading(Append(d, "\\")) = Unescape(Reading(d), "\\") /\ Reading(d) \in Readings(T)
    BY <1>4, <1>7, ReadingAppend
  <2> QED
    BY <2>1 DEF m
<1> HIDE DEF r
<1>10. r.slash
  <2> SUFFICES ASSUME ~r.slash PROVE FALSE
    OBVIOUS
  <2>1. Reading(m).slash
    BY <1>9 DEF Unescape, Readings
  <2>2. ~Escaped("b")
    BY DEF Escaped, Escapable
  <2>3. ~Reading(e).ok
    <3>1. \A q, c : q.slash => (Unescape(q, c).ok <=> q.ok /\ Escaped(c))
      BY DEF Unescape
    <3> QED
      BY <1>8, <2>1, <2>2, <3>1
  <2> QED
    BY <1>1, <2>3 DEF e
<1>11. UnescapeLiteral(d) = None
  BY <1>10 DEF UnescapeLiteral, r
<1> QED
  BY <1>6, <1>7, <1>11 DEF e

\* The number of three digits.
LEMMA NumberOfThree ==
  ASSUME NEW s, Len(s) = 3, \A k \in 1..3 : DigitValue[s[k]] \in Int
  PROVE  NumberOf(s) = 100 * DigitValue[s[1]] + 10 * DigitValue[s[2]] + DigitValue[s[3]]
<1> DEFINE P(v) == v = [k \in 0..Len(s) |-> IF k = 0 THEN 0 ELSE 10 * v[k - 1] + DigitValue[s[k]]]
           u == CHOOSE v : P(v)
           v1 == DigitValue[s[1]]
           v2 == 10 * v1 + DigitValue[s[2]]
           v3 == 10 * v2 + DigitValue[s[3]]
           w == [k \in 0..3 |-> IF k = 0 THEN 0 ELSE IF k = 1 THEN v1 ELSE IF k = 2 THEN v2 ELSE v3]
<1>0. 1 \in 1..3 /\ 2 \in 1..3 /\ 3 \in 1..3
  OBVIOUS
<1>1. P(w)
  <2>1. v1 = 10 * 0 + DigitValue[s[1]]
    BY <1>0
  <2> HIDE DEF v1, v2, v3
  <2>2. v2 = 10 * v1 + DigitValue[s[2]] /\ v3 = 10 * v2 + DigitValue[s[3]]
    BY DEF v2, v3
  <2> QED
    BY <2>1, <2>2
<1>2. P(u)
  <2>1. \E v : P(v)
    BY <1>1
  <2> HIDE DEF P
  <2> QED
    BY <2>1
<1>3. NumberOf(s) = u[Len(s)]
  BY DEF NumberOf
<1> HIDE DEF u
<1>4. /\ u[0] = 0 /\ u[1] = 10 * u[0] + DigitValue[s[1]] /\ u[2] = 10 * u[1] + DigitValue[s[2]]
      /\ u[3] = 10 * u[2] + DigitValue[s[3]]
  BY <1>2
<1> QED
  BY <1>0, <1>3, <1>4

\* The gap that the extension writes is of 300 characters.
LEMMA ThreeHundred ==
  /\ <<"3", "0", "0">> \in Seq(Digits) /\ NumberOf(<<"3", "0", "0">>) = 300
<1>1. DigitNames[4] = "3" /\ DigitNames[1] = "0"
  BY DEF DigitNames
<1>2. /\ DigitNames[3 + 1] \in Digits /\ DigitValue[DigitNames[3 + 1]] = 3
      /\ DigitNames[0 + 1] \in Digits /\ DigitValue[DigitNames[0 + 1]] = 0
  <2>1. 3 \in 0..9 /\ 0 \in 0..9
    OBVIOUS
  <2> QED
    BY <2>1, DigitIs
<1>3. "3" \in Digits /\ "0" \in Digits /\ DigitValue["3"] = 3 /\ DigitValue["0"] = 0
  <2>1. 3 + 1 = 4 /\ 0 + 1 = 1
    OBVIOUS
  <2> QED
    BY <1>1, <1>2, <2>1
<1> DEFINE s == <<"3", "0", "0">>
<1>4. s \in Seq(Digits) /\ Len(s) = 3 /\ s[1] = "3" /\ s[2] = "0" /\ s[3] = "0"
  BY <1>3
<1> HIDE DEF s
<1>5. \A k \in 1..3 : DigitValue[s[k]] \in Int
  <2>1. \A k \in 1..3 : k = 1 \/ k = 2 \/ k = 3
    OBVIOUS
  <2> QED
    BY <1>3, <1>4, <2>1
<1>6. NumberOf(s) = 100 * DigitValue[s[1]] + 10 * DigitValue[s[2]] + DigitValue[s[3]]
  BY <1>4, <1>5, NumberOfThree
<1>7. NumberOf(s) = 300
  BY <1>3, <1>4, <1>6
<1> QED
  BY <1>4, <1>7 DEF s

\* Three texts in a row, however they are joined.
LEMMA Threefold ==
  ASSUME NEW U
  PROVE  \A x \in Seq(U) : \A y \in Seq(U) : \A z \in Seq(U) :
           /\ (x \o y) \o z = x \o (y \o z) /\ x \o y \in Seq(U) /\ (x \o y) \o z \in Seq(U)
<1> SUFFICES ASSUME NEW x \in Seq(U), NEW y \in Seq(U), NEW z \in Seq(U)
             PROVE  (x \o y) \o z = x \o (y \o z) /\ x \o y \in Seq(U) /\ (x \o y) \o z \in Seq(U)
  OBVIOUS
<1>1. (x \o y) \o z = x \o (y \o z)
  BY ConcatAssociative
<1>2. x \o y \in Seq(U)
  BY ConcatProperties
<1>3. (x \o y) \o z \in Seq(U)
  BY <1>2, ConcatProperties
<1> QED
  BY <1>1, <1>2, <1>3

\* x, y and z in a row, however they are joined.
Joins(x, y, z) == (x \o y) \o z = x \o (y \o z)

LEMMA JoinsAll ==
  ASSUME NEW U, NEW x \in Seq(U), NEW y \in Seq(U), NEW z \in Seq(U)
  PROVE  Joins(x, y, z)
BY Threefold DEF Joins

\* A pattern is its parts, however they are joined.
Gap(digs) == <<GapPiece>> \o (digs \o <<Brace, "?">>)

IsPattern(U, lead, digs, cap) ==
  /\ (lead \o Gap(digs)) \o Group(cap) = Pattern(lead, digs, cap)
  /\ Gap(digs) \in Seq(U) /\ Pattern(lead, digs, cap) \in Seq(U)

LEMMA PatternIs ==
  ASSUME NEW U, Brackets \subseteq U, NEW lead \in Seq(U), NEW digs \in Seq(U), NEW cap \in Seq(U)
  PROVE  IsPattern(U, lead, digs, cap)
<1>0. \A c \in Brackets : <<c>> \in Seq(U)
  OBVIOUS
<1>1. PICK a \in Seq(U), b1 \in Seq(U), b2 \in Seq(U), c \in Seq(U), d \in Seq(U) :
        a = <<GapPiece>> /\ b1 = <<Brace>> /\ b2 = <<"?">> /\ c = <<"(">> /\ d = <<")">>
  BY <1>0 DEF Brackets
<1>2. PICK b \in Seq(U) : b = b1 \o b2
  <2>1. b1 \o b2 \in Seq(U)
    BY Threefold
  <2> QED
    BY <2>1
<1>3. b = <<Brace, "?">>
  <2>1. <<Brace, "?">> = <<Brace>> \o <<"?">>
    OBVIOUS
  <2> QED
    BY <1>1, <1>2, <2>1, Zenon
<1>4. PICK u \in Seq(U) : u = cap \o d
  <2>1. cap \o d \in Seq(U)
    BY Threefold
  <2> QED
    BY <2>1
<1>5. PICK group \in Seq(U) : group = c \o u
  <2>1. c \o u \in Seq(U)
    BY Threefold
  <2> QED
    BY <2>1
<1>6. Group(cap) = group
  <2>1. Group(cap) = (c \o cap) \o d
    BY <1>1 DEF Group
  <2>2. Joins(c, cap, d)
    BY JoinsAll
  <2> QED
    BY <1>4, <1>5, <2>1, <2>2 DEF Joins
<1>7. PICK v \in Seq(U) : v = b2 \o group
  <2>1. b2 \o group \in Seq(U)
    BY Threefold
  <2> QED
    BY <2>1
<1>8. PICK x \in Seq(U) : x = b \o group
  <2>1. b \o group \in Seq(U)
    BY Threefold
  <2> QED
    BY <2>1
<1>9. x = b1 \o v
  <2>1. Joins(b1, b2, group)
    BY JoinsAll
  <2> QED
    BY <1>2, <1>7, <1>8, <2>1 DEF Joins
<1>10. PICK y \in Seq(U) : y = digs \o b
  <2>1. digs \o b \in Seq(U)
    BY Threefold
  <2> QED
    BY <2>1
<1>11. PICK z \in Seq(U) : z = digs \o x
  <2>1. digs \o x \in Seq(U)
    BY Threefold
  <2> QED
    BY <2>1
<1>12. y \o group = z
  <2>1. Joins(digs, b, group)
    BY JoinsAll
  <2> QED
    BY <1>8, <1>10, <1>11, <2>1 DEF Joins
<1>13. PICK gap \in Seq(U) : gap = a \o y
  <2>1. a \o y \in Seq(U)
    BY Threefold
  <2> QED
    BY <2>1
<1>14. gap = <<GapPiece>> \o (digs \o <<Brace, "?">>)
  BY <1>1, <1>3, <1>10, <1>13
<1>15. gap \o group = a \o z
  <2>1. Joins(a, y, group)
    BY JoinsAll
  <2> QED
    BY <1>12, <1>13, <2>1 DEF Joins
<1>16. (lead \o gap) \o group \in Seq(U) /\ (lead \o gap) \o group = lead \o (a \o z)
  <2>1. Joins(lead, gap, group)
    BY JoinsAll
  <2>2. (lead \o gap) \o group = lead \o (a \o z)
    BY <1>15, <2>1 DEF Joins
  <2>3. (lead \o gap) \o group \in Seq(U)
    BY Threefold
  <2> QED
    BY <2>2, <2>3
<1>17. Pattern(lead, digs, cap) = lead \o (a \o z)
  <2>1. Pattern(lead, digs, cap) = lead \o (a \o (digs \o (b1 \o (b2 \o (c \o (cap \o d))))))
    BY <1>1 DEF Pattern
  <2> QED
    BY <1>4, <1>5, <1>7, <1>9, <1>11, <2>1
<1>18. Gap(digs) = gap
  BY <1>14 DEF Gap
<1> QED
  BY <1>6, <1>16, <1>17, <1>18 DEF IsPattern

LEMMA ContextIs ==
  ASSUME NEW U, Brackets \subseteq U, Digits \subseteq U, NEW label, EscapeRegex(label) \in Seq(U),
         NEW cap \in Seq(U)
  PROVE  /\ ContextRegex(label, cap) = Pattern(EscapeRegex(label), <<"3", "0", "0">>, cap)
         /\ ContextRegex(label, cap) \in Seq(U)
<1> DEFINE lead == EscapeRegex(label)
           digs == <<"3", "0", "0">>
           line == <<GapPiece, "3", "0", "0", Brace, "?">>
<1>1. ContextRegex(label, cap) = (lead \o line) \o Group(cap)
  BY Zenon DEF ContextRegex, GapPiece, Brace
<1>2. line = Gap(digs)
  BY DEF Gap
<1>3. digs \in Seq(U)
  BY ThreeHundred
<1> HIDE DEF lead, digs, line
<1>4. lead \in Seq(U)
  BY DEF lead
<1>5. IsPattern(U, lead, digs, cap)
  BY <1>3, <1>4, PatternIs
<1> QED
  BY <1>1, <1>2, <1>5 DEF lead, digs, IsPattern

\* Where v begins, after u.
Meets(u, v) == (u \o v)[1] = u[1] /\ (u \o v)[Len(u) + 1] = v[1]

LEMMA EndsMeet ==
  ASSUME NEW U, NEW u \in Seq(U), NEW v \in Seq(U), Len(u) >= 1, Len(v) >= 1
  PROVE  Meets(u, v)
<1>1. 1 \in 1..(Len(u) + Len(v)) /\ Len(u) + 1 \in 1..(Len(u) + Len(v))
      /\ ~(Len(u) + 1 <= Len(u)) /\ Len(u) + 1 - Len(u) = 1
  OBVIOUS
<1> QED
  BY <1>1, ConcatProperties DEF Meets

\* parse_field_spec takes what the popup joined apart again.
LEMMA FieldParsed ==
  ASSUME NEW U, NEW P \in Seq(U), P # <<>>, P[1] # "regex:", \A k \in 1..Len(P) : P[k] # "|||",
         NEW label \in Seq(U), label # <<>>
  PROVE  ParseFieldSpec(LabelledField(P, label)) =
           [rule |-> RegexToAnchored(P), label |-> LabelText(label)]
<1> DEFINE W == U \cup {"regex:", "|||", " "}
           lt == LabelText(label)
           tail == <<"|||">> \o lt
           rest == P \o tail
           front == <<"regex:">>
           spec == front \o rest
<1>1. lt \in Seq(W) /\ lt # <<>>
  <2>1. DOMAIN label = 1..Len(label) /\ Len(label) \in Nat /\ Len(label) # 0
        /\ \A k \in 1..Len(label) : label[k] \in U
    BY LenProperties, ElementOfSeq, EmptySeq
  <2>2. lt = [k \in 1..Len(label) |-> IF label[k] = "|" THEN " " ELSE label[k]]
    BY <2>1 DEF LabelText
  <2>3. \A k \in 1..Len(label) : (IF label[k] = "|" THEN " " ELSE label[k]) \in W
    BY <2>1
  <2>4. lt \in Seq(W) /\ Len(lt) = Len(label)
    <3> DEFINE n == Len(label)
               f == [k \in 1..n |-> IF label[k] = "|" THEN " " ELSE label[k]]
    <3>1. n \in Nat /\ \A k \in 1..n : f[k] \in W
      BY <2>1, <2>3
    <3>2. f \in [1..n -> W]
      BY <2>3
    <3>3. lt = f
      BY <2>2
    <3> HIDE DEF lt, W, f, n
    <3>4. lt \in Seq(W) /\ Len(lt) = n
      BY <3>1, <3>2, <3>3
    <3> QED
      BY <3>4 DEF n
  <2> HIDE DEF lt
  <2> QED
    BY <2>1, <2>4
<1>2. P \in Seq(W) /\ front \in Seq(W) /\ <<"|||">> \in Seq(W) /\ Len(front) = 1 /\ front[1] = "regex:"
  <2>1. P \in Seq(W)
    <3>1. U \subseteq W
      OBVIOUS
    <3> HIDE DEF W
    <3> QED
      BY <3>1
  <2>2. front \in Seq(W)
    OBVIOUS
  <2>3. <<"|||">> \in Seq(W)
    OBVIOUS
  <2>4. Len(front) = 1 /\ front[1] = "regex:"
    OBVIOUS
  <2> QED
    BY <2>1, <2>2, <2>3, <2>4
<1>3. LabelledField(P, label) = spec
  <2>1. LabelledField(P, label) = (front \o P) \o tail
    BY <1>1 DEF LabelledField
  <2>2. tail \in Seq(W)
    BY <1>1, <1>2, ConcatProperties
  <2> HIDE DEF tail, W, front
  <2>3. \A x \in Seq(W) : \A y \in Seq(W) : \A z \in Seq(W) : (x \o y) \o z = x \o (y \o z)
    BY Threefold
  <2> QED
    BY <1>2, <2>1, <2>2, <2>3
<1> HIDE DEF lt, W
<1>4. tail \in Seq(W) /\ tail # <<>> /\ tail[1] = "|||" /\ rest \in Seq(W)
  <2>1. tail \in Seq(W) /\ tail # <<>> /\ tail[1] = "|||"
    BY <1>1, <1>2
  <2> HIDE DEF tail
  <2> QED
    BY <1>2, <2>1, ConcatProperties
<1>5. Find(rest, "|||") = Len(P) + 1 /\ SubSeq(rest, 1, Len(P)) = P
  <2> HIDE DEF tail
  <2> QED
    BY <1>2, <1>4, FoundAfter, Halves
<1>6. From(rest, Len(P) + 1 + 1) = lt
  <2> DEFINE a == P \o <<"|||">>
             bar == <<"|||">>
  <2>1. a \in Seq(W) /\ Len(a) = Len(P) + 1
    BY <1>2
  <2>2. a \o lt = rest
    <3>1. \A x \in Seq(W) : \A y \in Seq(W) : \A z \in Seq(W) : (x \o y) \o z = x \o (y \o z)
      BY Threefold
    <3> HIDE DEF bar
    <3>2. bar \in Seq(W)
      BY <1>2 DEF bar
    <3>3. (P \o bar) \o lt = P \o (bar \o lt)
      BY <1>1, <1>2, <3>1, <3>2
    <3> QED
      BY <3>3 DEF bar
  <2> HIDE DEF a, rest
  <2>3. From(a \o lt, Len(a) + 1) = lt
    BY <1>1, <2>1, Halves
  <2> QED
    BY <2>1, <2>2, <2>3
<1>7. rest[1] # "regex:" /\ Len(rest) >= 1 /\ Len(rest) \in Nat
  <2> HIDE DEF tail
  <2> QED
    BY <1>2, <1>4
<1> HIDE DEF rest
<1>8. spec \in Seq(W) /\ Len(spec) = 1 + Len(rest) /\ spec[1] = "regex:" /\ spec[2] # "regex:"
      /\ From(spec, 2) = rest
  <2>1. spec \in Seq(W) /\ Len(spec) = 1 + Len(rest) /\ spec[1] = "regex:" /\ spec[2] = rest[1]
    <3>0. Len(front) \in Nat /\ front # <<>>
      OBVIOUS
    <3> HIDE DEF front
    <3>1. /\ spec \in Seq(W) /\ Len(spec) = Len(front) + Len(rest)
          /\ spec[1] = front[1] /\ spec[Len(front) + 1] = rest[1]
      <4>1. spec \in Seq(W) /\ Len(spec) = Len(front) + Len(rest)
        BY <1>2, <1>4, ConcatProperties
      <4>0. front \in Seq(W) /\ rest \in Seq(W) /\ Len(front) >= 1 /\ Len(rest) >= 1
        BY <1>2, <1>4, <1>7
      <4>2. Meets(front, rest)
        <5> HIDE DEF rest
        <5> QED
          BY <4>0, EndsMeet
      <4>3. spec[1] = front[1] /\ spec[Len(front) + 1] = rest[1]
        BY <4>2 DEF Meets
      <4> QED
        BY <4>1, <4>3
    <3>2. Len(front) + 1 = 2
      BY <1>2
    <3> QED
      BY <1>2, <3>1, <3>2
  <2>2. From(front \o rest, Len(front) + 1) = rest
    <3> HIDE DEF front
    <3> QED
      BY <1>2, <1>4, Halves
  <2>3. Len(front) + 1 = 2
    OBVIOUS
  <2> HIDE DEF front
  <2> QED
    BY <1>7, <2>1, <2>2, <2>3
<1> HIDE DEF spec
<1>9. Has(spec, 1, {"regex:"}) /\ ~Has(spec, 2, {"regex:"})
  <2>1. DOMAIN spec = 1..Len(spec) /\ 1 \in 1..Len(spec)
    BY <1>7, <1>8
  <2> QED
    BY <1>8, <2>1 DEF Has
<1>10. Stripped(spec) = rest
  <2> DEFINE Q(k) == ~Has(spec, k, {"regex:"}) /\ \A j \in 1..(k - 1) : spec[j] = "regex:"
             i == CHOOSE k \in 1..(Len(spec) + 1) : Q(k)
  <2>1. 2 \in 1..(Len(spec) + 1) /\ Q(2)
    <3>1. 2 \in 1..(Len(spec) + 1) /\ \A j \in 1..(2 - 1) : j = 1
      BY <1>7, <1>8
    <3> QED
      BY <1>8, <1>9, <3>1
  <2>2. i \in 1..(Len(spec) + 1) /\ Q(i)
    <3> HIDE DEF Q
    <3> QED
      BY <2>1
  <2> HIDE DEF i
  <2>3. i # 1
    BY <1>9, <2>2
  <2>4. ~(i > 2)
    <3> SUFFICES ASSUME i > 2 PROVE FALSE
      OBVIOUS
    <3>1. 2 \in 1..(i - 1)
      BY <2>2
    <3> QED
      BY <1>8, <2>2, <3>1
  <2>5. i = 2
    BY <1>7, <1>8, <2>2, <2>3, <2>4
  <2>6. Stripped(spec) = From(spec, i)
    BY DEF Stripped, i
  <2> QED
    BY <1>8, <2>5, <2>6
<1>11. Len(P) + 1 # 0 /\ Len(P) + 1 - 1 = Len(P)
  <2>1. Len(P) \in Nat
    OBVIOUS
  <2> QED
    BY <2>1
<1>12. ParseFieldSpec(spec) =
         [rule |-> RegexToAnchored(SubSeq(rest, 1, Len(P) + 1 - 1)), label |-> From(rest, Len(P) + 1 + 1)]
  <2> DEFINE bar == Len(P) + 1
  <2>1. Find(rest, "|||") = bar /\ bar # 0
    BY <1>5, <1>11
  <2> HIDE DEF bar
  <2>2. ParseFieldSpec(spec) = [rule |-> RegexToAnchored(SubSeq(rest, 1, bar - 1)), label |-> From(rest, bar + 1)]
    BY <1>9, <1>10, <2>1 DEF ParseFieldSpec
  <2> QED
    BY <2>2 DEF bar
<1> QED
  BY <1>3, <1>5, <1>6, <1>11, <1>12 DEF lt

-----------------------------------------------------------------------------
(* What the extension emits *)

\* The pieces, and what is none of them.
LEMMA PiecesAre ==
  /\ "(?s)" \in Pieces /\ GapPiece \in Pieces /\ "|||" \in Pieces
  /\ DOMAIN NumberKind \subseteq Pieces /\ DateShapes \subseteq Pieces
  /\ DOMAIN NumberKind \cap DateShapes = {}
  /\ "|||" \notin DOMAIN NumberKind /\ "|||" \notin DateShapes /\ "|||" \notin Brackets
  /\ "\\" \notin Pieces /\ "l" \notin Pieces
<1>1. DOMAIN NumberKind =
        {"[+-]?[0-9]+(\\.[0-9]+)?", "[+-]?[0-9]{1,3}(\\.[0-9]{3})+(,[0-9]+)?",
         "[+-]?[0-9]+,[0-9]+", "[+-]?[0-9]{1,3}(,[0-9]{3})+(\\.[0-9]+)?"}
  BY Zenon DEF NumberKind
<1>2. "(?s)" \in Pieces /\ GapPiece \in Pieces /\ "|||" \in Pieces
  BY Zenon DEF Pieces, GapPiece
<1>3. DOMAIN NumberKind \subseteq Pieces /\ DateShapes \subseteq Pieces
  BY Zenon DEF Pieces
<1>4. DOMAIN NumberKind \cap DateShapes = {}
  BY <1>1, Zenon DEF DateShapes
<1>5. "|||" \notin DOMAIN NumberKind /\ "\\" \notin DOMAIN NumberKind /\ "l" \notin DOMAIN NumberKind
  BY <1>1, Zenon
<1>6. "|||" \notin DateShapes /\ "\\" \notin DateShapes /\ "l" \notin DateShapes
  BY Zenon DEF DateShapes
<1>7. "|||" \notin Brackets
  BY Zenon DEF Brackets, GapPiece, Brace
<1>8. "\\" \notin Pieces /\ "l" \notin Pieces
  BY <1>5, <1>6, Zenon DEF Pieces
<1> QED
  BY <1>2, <1>3, <1>4, <1>5, <1>6, <1>7, <1>8

\* What holds no piece is a literal.
LEMMA LiteralKind ==
  ASSUME NEW S, S \cap Pieces = {}, NEW s \in Seq(S)
  PROVE  KindOf(s) = [is |-> "literal", text |-> UnescapeLiteral(s)]
<1>1. Len(s) = 1 => s[1] \notin DateShapes /\ s[1] \notin DOMAIN NumberKind
  <2>1. Len(s) = 1 => s[1] \in S
    OBVIOUS
  <2>2. \A c \in S : c \notin DateShapes /\ c \notin DOMAIN NumberKind
    BY PiecesAre
  <2> QED
    BY <2>1, <2>2
<1> QED
  BY <1>1, Zenon DEF KindOf

\* A text of one character has no word boundary.
LEMMA OneUncut ==
  ASSUME NEW S, NEW s \in Seq(S), Len(s) = 1
  PROVE  DropSuffix(DropPrefix(s, WordBoundary), WordBoundary) = s
<1> DEFINE T == S \cup {"\\", "b"}
<1>1. s \in Seq(T) /\ WordBoundary \in Seq(T) /\ "\\" \in T /\ "b" \in T /\ Len(WordBoundary) = 2
  BY DEF WordBoundary
<1> HIDE DEF T
<1>2. IsPrefix(WordBoundary, s) => Len(WordBoundary) <= Len(s)
  BY <1>1, PrefixIs
<1>3. IsSuffix(<<"\\", "b">>, s) => Len(s) >= 2
  BY <1>1, SuffixIs
<1>4. ~IsPrefix(WordBoundary, s) /\ ~IsSuffix(WordBoundary, s)
  BY <1>1, <1>2, <1>3 DEF WordBoundary
<1> QED
  BY <1>4 DEF DropPrefix, DropSuffix

\* A pattern of a number names its convention.
LEMMA ShapeKind ==
  ASSUME NEW shape \in DOMAIN NumberKind
  PROVE  KindOf(DropSuffix(DropPrefix(<<shape>>, WordBoundary), WordBoundary))
           = [is |-> "number", format |-> NumberKind[shape]]
<1> DEFINE s == <<shape>>
<1>1. s \in Seq({shape}) /\ Len(s) = 1 /\ s[1] = shape
  OBVIOUS
<1> HIDE DEF s
<1>2. DropSuffix(DropPrefix(s, WordBoundary), WordBoundary) = s
  BY <1>1, OneUncut
<1>3. KindOf(s) = [is |-> "number", format |-> NumberKind[shape]]
  <2>1. shape \notin DateShapes
    BY PiecesAre
  <2> QED
    BY <1>1, <2>1, Zenon DEF KindOf
<1> QED
  BY <1>2, <1>3 DEF s

\* The label l is its own escape.
LEMMA LabelEscaped ==
  /\ EscapeRegex(<<"l">>) = <<"l">> /\ UnescapeLiteral(<<"l">>) = <<"l">>
  /\ LabelText(<<"l">>) = <<"l">>
<1>1. <<"l">> \in Seq({"l"}) /\ <<>> \in Seq({"l"}) /\ Append(<<>>, "l") = <<"l">>
  OBVIOUS
<1>2. EscapeRegex(<<"l">>) = <<"l">>
  <2>1. EscapeRegex(Append(<<>>, "l")) = EscapeRegex(<<>>) \o Esc("l")
    BY <1>1, EscapeAppend
  <2>2. Esc("l") = <<"l">>
    BY DEF Esc, Escapable
  <2> QED
    BY <1>1, <2>1, <2>2, EscapeEmpty, ConcatEmptySeq
<1>3. UnescapeLiteral(<<"l">>) = <<"l">>
  <2>1. {"l"} \cap Pieces = {}
    BY PiecesAre
  <2>2. UnescapeLiteral(EscapeRegex(<<"l">>)) = <<"l">>
    BY <1>1, <2>1, Unescaped
  <2> QED
    BY <1>2, <2>2
<1>4. LabelText(<<"l">>) = <<"l">>
  <2>1. DOMAIN <<"l">> = {1} /\ <<"l">>[1] = "l"
    OBVIOUS
  <2>2. LabelText(<<"l">>) = [k \in {1} |-> "l"]
    BY <2>1 DEF LabelText
  <2>3. <<"l">> = [k \in {1} |-> "l"]
    OBVIOUS
  <2> QED
    BY <2>2, <2>3
<1> QED
  BY <1>2, <1>3, <1>4


\* How a text begins that something follows.
Heads(u, v) == (u \o v)[1] = u[1]

LEMMA FirstKept ==
  ASSUME NEW U, NEW u \in Seq(U), NEW v \in Seq(U), Len(u) >= 1
  PROVE  Heads(u, v) /\ u \o v \in Seq(U) /\ Len(u \o v) >= 1
<1>1. 1 \in 1..(Len(u) + Len(v)) /\ 1 <= Len(u) /\ Len(u) + Len(v) >= 1
  OBVIOUS
<1>2. u \o v \in Seq(U) /\ Len(u \o v) >= 1
  BY <1>1, ConcatProperties
<1> QED
  BY <1>1, <1>2, ConcatProperties DEF Heads

\* A pattern begins with its label.
LEMMA PatternBegins ==
  ASSUME NEW U, Brackets \subseteq U, NEW lead \in Seq(U), lead # <<>>, NEW digs \in Seq(U),
         NEW cap \in Seq(U)
  PROVE  Pattern(lead, digs, cap) # <<>> /\ Pattern(lead, digs, cap)[1] = lead[1]
<1>1. IsPattern(U, lead, digs, cap)
  BY PatternIs
<1>2. PICK gap \in Seq(U) : gap = Gap(digs)
  BY <1>1 DEF IsPattern
<1>3. PICK group \in Seq(U) : group = Group(cap)
  <2>1. <<"(">> \in Seq(U) /\ <<")">> \in Seq(U)
    BY DEF Brackets
  <2>2. <<"(">> \o cap \in Seq(U)
    BY <2>1, ConcatProperties
  <2>3. (<<"(">> \o cap) \o <<")">> \in Seq(U)
    BY <2>1, <2>2, ConcatProperties
  <2> QED
    BY <2>3 DEF Group
<1>4. PICK x \in Seq(U) : x = lead \o gap /\ x[1] = lead[1] /\ Len(x) >= 1
  <2>1. Len(lead) >= 1
    BY EmptySeq, LenProperties
  <2>2. Heads(lead, gap) /\ lead \o gap \in Seq(U) /\ Len(lead \o gap) >= 1
    BY <2>1, FirstKept
  <2> QED
    BY <2>2 DEF Heads
<1>5. PICK y \in Seq(U) : y = x \o group /\ y[1] = x[1] /\ Len(y) >= 1
  <2>1. Heads(x, group) /\ x \o group \in Seq(U) /\ Len(x \o group) >= 1
    BY <1>4, FirstKept
  <2> QED
    BY <2>1 DEF Heads
<1>6. y = Pattern(lead, digs, cap)
  BY <1>1, <1>2, <1>3, <1>4, <1>5 DEF IsPattern
<1>7. y # <<>>
  BY <1>5, EmptySeq
<1> QED
  BY <1>4, <1>5, <1>6, <1>7

\* The rule of what the extension writes for a label and a capture.
LEMMA Emitted ==
  ASSUME NEW S, S \cap Pieces = {}, NEW s \in Seq(S), s # <<>>, s[1] # "regex:",
         NEW U, "|||" \notin U, NEW cap \in Seq(U),
         NEW kind, kind = KindOf(DropSuffix(DropPrefix(cap, WordBoundary), WordBoundary))
  PROVE  ParseFieldSpec(LabelledField(ContextRegex(s, cap), s)) =
           [rule |-> IF kind # [is |-> "literal", text |-> None]
                     THEN Anchored(s, 300, kind) ELSE Regex(ContextRegex(s, cap)),
            label |-> LabelText(s)]
<1> DEFINE V == Slashed(S) \cup Brackets \cup Digits \cup U
           lead == EscapeRegex(s)
           three == <<"3", "0", "0">>
           P == ContextRegex(s, cap)
<1>1. \A c \in Slashed(S) : c # GapPiece /\ c # "(?s)" /\ c # "|||"
  BY PiecesAre DEF Slashed
<1>2. "|||" \notin V
  BY <1>1, PiecesAre, NoBraces
<1>3. Slashed(S) \subseteq V /\ Brackets \subseteq V /\ Digits \subseteq V /\ U \subseteq V
  OBVIOUS
<1> HIDE DEF V
<1>4. lead \in Seq(Slashed(S)) /\ lead # <<>> /\ lead[1] \in {s[1], "\\"}
  <2>1. BeginsAs(lead, s, S)
    BY EscapeBegins
  <2> HIDE DEF lead
  <2> QED
    BY <2>1 DEF BeginsAs
<1>5. UnescapeLiteral(lead) = s /\ UnescapeLiteral(lead) # None
  BY Unescaped DEF None
<1> HIDE DEF lead
<1>6. /\ lead \in Seq(V) /\ cap \in Seq(V) /\ s \in Seq(V \cup S) /\ lead[1] # "(?s)"
      /\ \A k \in 1..Len(lead) : lead[k] # GapPiece
  <2>1. \A k \in 1..Len(lead) : lead[k] \in Slashed(S)
    BY <1>4
  <2>2. Len(lead) \in Nat /\ 1 \in 1..Len(lead)
    BY <1>4
  <2> QED
    BY <1>1, <1>3, <1>4, <2>1, <2>2
<1>7. three \in Seq(Digits) /\ three # <<>> /\ NumberOf(three) = 300 /\ three \in Seq(V)
  BY <1>3, ThreeHundred
<1>8. P = Pattern(lead, three, cap) /\ P \in Seq(V)
  BY <1>3, <1>6, ContextIs DEF lead
<1> HIDE DEF three
<1>9. P # <<>> /\ P[1] = lead[1]
  BY <1>3, <1>4, <1>6, <1>7, <1>8, PatternBegins, SMTT(20)
<1> HIDE DEF P
<1>10. P[1] # "regex:"
  BY <1>4, <1>9
<1>11. \A k \in 1..Len(P) : P[k] # "|||"
  BY <1>2, <1>8
<1>12. RegexToAnchored(P) =
         IF kind # [is |-> "literal", text |-> None] THEN Anchored(s, 300, kind) ELSE Regex(P)
  <2>1. RegexToAnchored(P) =
          IF kind # [is |-> "literal", text |-> None]
          THEN Anchored(UnescapeLiteral(lead), NumberOf(three), kind) ELSE Regex(P)
    <3>1. /\ Brackets \subseteq V /\ Digits \subseteq V /\ lead \in Seq(V) /\ lead # <<>>
          /\ lead[1] # "(?s)" /\ (\A k \in 1..Len(lead) : lead[k] # GapPiece)
          /\ UnescapeLiteral(lead) # None /\ three \in Seq(Digits) /\ three # <<>> /\ cap \in Seq(V)
      BY <1>3, <1>4, <1>5, <1>6, <1>7
    <3>2. LoweredTo(P, lead, three, kind)
      BY <1>8, <3>1, PatternLowered
    <3> QED
      BY <3>2 DEF LoweredTo
  <2> QED
    BY <1>5, <1>7, <2>1, Zenon
<1>13. ParseFieldSpec(LabelledField(P, s)) = [rule |-> RegexToAnchored(P), label |-> LabelText(s)]
  <2> DEFINE W == V \cup S
  <2>1. P \in Seq(W) /\ s \in Seq(W)
    BY <1>6, <1>8
  <2> HIDE DEF W
  <2> QED
    BY <1>9, <1>10, <1>11, <2>1, FieldParsed
<1> QED
  BY <1>12, <1>13, Zenon DEF P

\* A literal behind the label l keeps its text, or its pattern where it ends in what
\* looks like a word boundary.
LEMMA LiteralLowered ==
  ASSUME NEW S, S \cap Pieces = {}, NEW s \in Seq(S), s # <<>>
  PROVE  ParseFieldSpec(LabelledField(ContextRegex(<<"l">>, EscapeRegex(s)), <<"l">>)) =
           [rule |-> IF EndsInBoundary(s) THEN Regex(ContextRegex(<<"l">>, EscapeRegex(s)))
                     ELSE Anchored(<<"l">>, 300, [is |-> "literal", text |-> s]),
            label |-> <<"l">>]
<1> DEFINE cap == EscapeRegex(s)
           cut == DropSuffix(DropPrefix(cap, WordBoundary), WordBoundary)
           kind == KindOf(cut)
           P == ContextRegex(<<"l">>, cap)
<1>1. BeginsAs(cap, s, S) /\ UnescapeLiteral(cap) = s
  BY EscapeBegins, Unescaped
<1>2. Slashed(S) \cap Pieces = {} /\ "|||" \notin Slashed(S)
  BY PiecesAre DEF Slashed
<1>3. IsSuffix(WordBoundary, cap) =>
        DropSuffix(cap, WordBoundary) \in Seq(Slashed(S))
        /\ UnescapeLiteral(DropSuffix(cap, WordBoundary)) = None
  BY CutBoundary
<1>4. EndsInBoundary(s) <=> IsSuffix(WordBoundary, cap)
  BY DEF EndsInBoundary
<1> HIDE DEF cap
<1>5. cap \in Seq(Slashed(S))
  BY <1>1 DEF BeginsAs
<1>6. ~IsPrefix(WordBoundary, cap)
  <2> SUFFICES ASSUME IsPrefix(WordBoundary, cap) PROVE FALSE
    OBVIOUS
  <2> DEFINE T == Slashed(S) \cup {"b"}
  <2>1. cap \in Seq(T) /\ WordBoundary \in Seq(T) /\ Len(WordBoundary) = 2
        /\ WordBoundary[1] = "\\" /\ WordBoundary[2] = "b" /\ 1 \in 1..2 /\ 2 \in 1..2
    BY <1>5 DEF WordBoundary, Slashed
  <2> HIDE DEF T
  <2>2. cap[1] = "\\" /\ cap[2] = "b"
    <3>1. \A k \in 1..Len(WordBoundary) : cap[k] = WordBoundary[k]
      BY <2>1, PrefixIs
    <3> QED
      BY <2>1, <3>1
  <2>3. "b" \notin Escapable
    BY DEF Escapable
  <2> QED
    BY <1>1, <2>2, <2>3 DEF BeginsAs
<1>7. cut = IF EndsInBoundary(s) THEN DropSuffix(cap, WordBoundary) ELSE cap
  BY <1>4, <1>6 DEF DropPrefix, DropSuffix
<1>8. cut \in Seq(Slashed(S))
  BY <1>3, <1>4, <1>5, <1>7
<1>9. kind = [is |-> "literal", text |-> UnescapeLiteral(cut)]
  <2> HIDE DEF cut
  <2> QED
    BY <1>2, <1>8, LiteralKind
<1>10. UnescapeLiteral(cut) = IF EndsInBoundary(s) THEN None ELSE s
  BY <1>1, <1>3, <1>4, <1>7
<1> HIDE DEF cut
<1>11. kind = [is |-> "literal", text |-> IF EndsInBoundary(s) THEN None ELSE s]
  BY <1>9, <1>10
<1>12. kind # [is |-> "literal", text |-> None] <=> ~EndsInBoundary(s)
  <2>1. \A a, b : [is |-> "literal", text |-> a] = [is |-> "literal", text |-> b] => a = b
    OBVIOUS
  <2>2. s # None
    BY DEF None
  <2> HIDE DEF kind
  <2> QED
    BY <1>11, <2>1, <2>2
<1> HIDE DEF kind
<1>13. ParseFieldSpec(LabelledField(P, <<"l">>)) =
         [rule |-> IF kind # [is |-> "literal", text |-> None]
                   THEN Anchored(<<"l">>, 300, kind) ELSE Regex(P),
          label |-> LabelText(<<"l">>)]
  <2>1. {"l"} \cap Pieces = {} /\ <<"l">> \in Seq({"l"}) /\ <<"l">> # <<>> /\ <<"l">>[1] # "regex:"
    BY PiecesAre
  <2>2. kind = KindOf(DropSuffix(DropPrefix(cap, WordBoundary), WordBoundary))
    BY DEF kind, cut
  <2> QED
    <3>1. PICK l \in Seq({"l"}) : l = <<"l">>
      BY <2>1
    <3>2. l # <<>> /\ l[1] # "regex:"
      BY <2>1, <3>1
    <3>3. ParseFieldSpec(LabelledField(ContextRegex(l, cap), l)) =
            [rule |-> IF kind # [is |-> "literal", text |-> None]
                      THEN Anchored(l, 300, kind) ELSE Regex(ContextRegex(l, cap)),
             label |-> LabelText(l)]
      BY <1>2, <1>5, <2>1, <2>2, <3>2, Emitted
    <3> QED
      BY <3>1, <3>3, Zenon DEF P
<1>14. ParseFieldSpec(LabelledField(P, <<"l">>)) =
         [rule |-> IF EndsInBoundary(s) THEN Regex(P)
                   ELSE Anchored(<<"l">>, 300, [is |-> "literal", text |-> s]),
          label |-> <<"l">>]
  <2> HIDE DEF P
  <2>1. CASE EndsInBoundary(s)
    BY <1>12, <1>13, <2>1, LabelEscaped, Zenon
  <2>2. CASE ~EndsInBoundary(s)
    <3>1. kind = [is |-> "literal", text |-> s]
      BY <1>11, <2>2
    <3> QED
      BY <1>12, <1>13, <2>2, <3>1, LabelEscaped, Zenon
  <2> QED
    BY <2>1, <2>2
<1> QED
  BY <1>14 DEF P, cap

\* A literal is written from its letters.
LiteralInv == literal \in Seq(Letters)

LEMMA LiteralStep == LiteralInv /\ [RulesNext]_all => LiteralInv'
<1> SUFFICES ASSUME LiteralInv, [RulesNext]_all PROVE LiteralInv'
  OBVIOUS
<1>1. CASE UNCHANGED literal
  BY <1>1 DEF LiteralInv
<1>2. ASSUME NEW c \in Letters, WriteLiteral(c) PROVE LiteralInv'
  BY <1>2, AppendProperties DEF LiteralInv, WriteLiteral
<1> QED
  BY <1>1, <1>2 DEF RulesNext, WritePredicate, WriteSalt, all, texts

LEMMA LiteralsSurviveHere == ASSUME LiteralInv PROVE LiteralsSurvive
<1>1. literal \in Seq(Letters) /\ Letters \cap Pieces = {}
  BY RulesAssumption DEF LiteralInv
<1>2. UnescapeInverts
  BY <1>1, Unescaped DEF UnescapeInverts
<1>3. EmittedIsLowered
  <2> SUFFICES ASSUME Shown PROVE EmittedIsLowered
    BY DEF EmittedIsLowered
  <2>1. literal # <<>> /\ literal[1] # "regex:"
    BY DEF Shown, None
  <2>2. ASSUME NEW shape \in DOMAIN NumberKind
        PROVE  ParseFieldSpec(LabelledField(ContextRegex(literal, <<shape>>), literal)) =
                 [rule |-> Anchored(literal, 300, [is |-> "number", format |-> NumberKind[shape]]),
                  label |-> LabelText(literal)]
    <3> DEFINE cap == <<shape>>
               kind == [is |-> "number", format |-> NumberKind[shape]]
    <3>1. cap \in Seq({shape}) /\ "|||" \notin {shape}
      BY PiecesAre
    <3>2. kind = KindOf(DropSuffix(DropPrefix(cap, WordBoundary), WordBoundary))
      BY ShapeKind
    <3>3. kind # [is |-> "literal", text |-> None]
      OBVIOUS
    <3> HIDE DEF cap, kind
    <3>4. ParseFieldSpec(LabelledField(ContextRegex(literal, cap), literal)) =
            [rule |-> IF kind # [is |-> "literal", text |-> None]
                      THEN Anchored(literal, 300, kind) ELSE Regex(ContextRegex(literal, cap)),
             label |-> LabelText(literal)]
      BY <1>1, <2>1, <3>1, <3>2, Emitted
    <3> QED
      BY <3>3, <3>4, Zenon DEF cap, kind
  <2>3. ParseFieldSpec(LabelledField(ContextRegex(<<"l">>, EscapeRegex(literal)), <<"l">>)) =
          [rule |-> IF EndsInBoundary(literal) THEN Regex(ContextRegex(<<"l">>, EscapeRegex(literal)))
                    ELSE Anchored(<<"l">>, 300, [is |-> "literal", text |-> literal]),
           label |-> <<"l">>]
    BY <1>1, <2>1, LiteralLowered
  <2> QED
    BY <2>2, <2>3, Zenon DEF EmittedIsLowered
<1> QED
  BY <1>2, <1>3 DEF LiteralsSurvive

\* Whatever the letters, a literal survives from the page to the rule: unescape_literal
\* undoes escapeRegex and nothing else (main.rs 473-492), and what the extension writes
\* for a label and a number or a text is lowered to them by regex_to_anchored and
\* parse_field_spec (main.rs 504-569), but for a text that ends in "\b".
THEOREM LiteralsAlwaysSurvive == RulesSpec => []LiteralsSurvive
<1>1. RulesInit => LiteralInv
  BY DEF RulesInit, LiteralInv
<1>2. LiteralInv /\ [RulesNext]_all => LiteralInv'
  BY LiteralStep
<1>3. LiteralInv => LiteralsSurvive
  BY LiteralsSurviveHere
<1> QED
  BY <1>1, <1>2, <1>3, PTL DEF RulesSpec

-----------------------------------------------------------------------------
(* Lowered dates *)

\* Where the pattern of a date has its separators.
SeparatorOf(shape) ==
  CASE shape \in {"[0-9]{4}-[0-9]{2}-[0-9]{2}", "[0-9]{2}-[0-9]{2}-[0-9]{4}"} -> "-"
    [] shape \in {"[0-9]{4}/[0-9]{2}/[0-9]{2}", "[0-9]{2}/[0-9]{2}/[0-9]{4}"} -> "/"
    [] OTHER -> "."
PlacesOf(shape) ==
  IF shape \in {"[0-9]{4}-[0-9]{2}-[0-9]{2}", "[0-9]{4}/[0-9]{2}/[0-9]{2}"} THEN {5, 8} ELSE {3, 6}

\* A pattern of a date names the format that is written as it matches.
LEMMA DateNamed ==
  ASSUME NEW shape \in DateShapes
  PROVE  /\ DateKind[shape] \in DateFormats \ {"MdySlash"}
         /\ SeparatorOf(shape) = DateSeparator(DateKind[shape])
         /\ PlacesOf(shape) = IF YearFirst(DateKind[shape]) THEN {5, 8} ELSE {3, 6}
<1> DEFINE Named(f, c, P) == DateKind[shape] = f /\ SeparatorOf(shape) = c /\ PlacesOf(shape) = P
<1>1. CASE shape = "[0-9]{4}-[0-9]{2}-[0-9]{2}"
  <2>1. Named("Iso", "-", {5, 8})
    BY <1>1, Zenon DEF DateKind, DateShapes, SeparatorOf, PlacesOf
  <2> QED
    BY <2>1, Zenon DEF DateFormats, DateSeparator, YearFirst
<1>2. CASE shape = "[0-9]{4}/[0-9]{2}/[0-9]{2}"
  <2>1. Named("IsoSlash", "/", {5, 8})
    BY <1>2, Zenon DEF DateKind, DateShapes, SeparatorOf, PlacesOf
  <2> QED
    BY <2>1, Zenon DEF DateFormats, DateSeparator, YearFirst
<1>3. CASE shape = "[0-9]{2}/[0-9]{2}/[0-9]{4}"
  <2>1. Named("DmySlash", "/", {3, 6})
    BY <1>3, Zenon DEF DateKind, DateShapes, SeparatorOf, PlacesOf
  <2> QED
    BY <2>1, Zenon DEF DateFormats, DateSeparator, YearFirst
<1>4. CASE shape = "[0-9]{2}-[0-9]{2}-[0-9]{4}"
  <2>1. Named("DmyDash", "-", {3, 6})
    BY <1>4, Zenon DEF DateKind, DateShapes, SeparatorOf, PlacesOf
  <2> QED
    BY <2>1, Zenon DEF DateFormats, DateSeparator, YearFirst
<1>5. CASE shape = "[0-9]{2}\\.[0-9]{2}\\.[0-9]{4}"
  <2>1. Named("DmyDot", ".", {3, 6})
    BY <1>5, Zenon DEF DateKind, DateShapes, SeparatorOf, PlacesOf
  <2> QED
    BY <2>1, Zenon DEF DateFormats, DateSeparator, YearFirst
<1> QED
  BY <1>1, <1>2, <1>3, <1>4, <1>5, Zenon DEF DateShapes

LEMMA FitsDateIs ==
  ASSUME NEW s, NEW shape
  PROVE  FitsDate(s, shape) <=> {k \in DOMAIN s : s[k] = SeparatorOf(shape)} = PlacesOf(shape)
BY Zenon DEF FitsDate, SeparatorOf, PlacesOf

\* Only the pattern of its own format matches a date.
LEMMA DateFitsOne ==
  ASSUME NEW x, Spellable(x), NEW f \in DateFormats \ {"MdySlash"}, NEW shape \in DateShapes,
         FitsDate(Spelled(x, f), shape)
  PROVE  DateKind[shape] = f
<1>1. PICK g \in DateFormats \ {"MdySlash"} : g = DateKind[shape]
  BY DateNamed
<1>2. PICK s \in Seq(PageChars) : s = Spelled(x, f)
  BY SpelledIs
<1>3. {k \in DOMAIN s : s[k] = DateSeparator(g)} = IF YearFirst(g) THEN {5, 8} ELSE {3, 6}
  BY <1>1, <1>2, DateNamed, FitsDateIs, Zenon
<1>4. Laid(s, 1, f, x.y, x.m, x.d)
  BY <1>2, SpelledIs
<1>5. /\ YearFirst(f) => s[3] \in Digits /\ s[5] = DateSeparator(f)
      /\ ~YearFirst(f) => Two(s, 4, x.m) /\ s[3] = DateSeparator(f)
  <2>1. f # "MdySlash" /\ 1 + 3 = 4
    OBVIOUS
  <2> QED
    BY <1>4, <2>1, LaidShape DEF Laid
<1>6. ~YearFirst(f) => s[5] \in Digits
  BY <1>5 DEF Two, IsDigit, Has
<1>7. DateSeparator(g) \notin Digits
  BY SeparatorIs
<1>8. IF YearFirst(g) THEN s[5] = DateSeparator(g) ELSE s[3] = DateSeparator(g)
  BY <1>3
<1>9. (YearFirst(f) <=> YearFirst(g)) /\ DateSeparator(f) = DateSeparator(g)
  BY <1>5, <1>6, <1>7, <1>8
<1>10. f = g
  BY <1>9 DEF YearFirst, DateSeparator, DateFormats
<1> QED
  BY <1>1, <1>10

\* The anchor a is its own escape.
LEMMA AnchorRead == UnescapeLiteral(Anchor) = Anchor /\ Anchor \in Seq({"a"})
<1>1. <<"a">> \in Seq({"a"}) /\ <<>> \in Seq({"a"}) /\ Append(<<>>, "a") = <<"a">>
  OBVIOUS
<1>2. Reading(Append(<<>>, "a")) = Unescape(Reading(<<>>), "a")
  BY <1>1, ReadingAppend
<1>3. "a" \notin Escapable \cup Pieces
  <2>1. "a" \notin DOMAIN NumberKind
    BY Zenon DEF NumberKind
  <2>2. "a" \notin DateShapes
    BY Zenon DEF DateShapes
  <2>3. "a" \notin Escapable
    BY Zenon DEF Escapable
  <2> QED
    BY <2>1, <2>2, <2>3, Zenon DEF Pieces
<1>4. "a" # "\\"
  OBVIOUS
<1>5. Unescape(Fresh, "a") = [text |-> <<"a">>, slash |-> FALSE, ok |-> TRUE]
  BY <1>1, <1>3, <1>4 DEF Unescape, Fresh
<1>6. Reading(<<"a">>) = [text |-> <<"a">>, slash |-> FALSE, ok |-> TRUE]
  BY <1>1, <1>2, <1>5, ReadingEmpty
<1> QED
  BY <1>1, <1>6 DEF UnescapeLiteral, Anchor

\* The rule of an anchor, a gap and one piece.
LEMMA PieceLowered ==
  ASSUME NEW shape, shape \in DOMAIN NumberKind \/ shape \in DateShapes,
         NEW digs \in Seq(Digits), digs # <<>>
  PROVE  RegexToAnchored(Pattern(Anchor, digs, <<shape>>)) =
           Anchored(Anchor, NumberOf(digs), KindOf(<<shape>>))
<1> DEFINE U == Brackets \cup Digits \cup {"a", shape}
           s == <<shape>>
<1>1. /\ Brackets \subseteq U /\ Digits \subseteq U /\ Anchor \in Seq(U) /\ s \in Seq(U)
      /\ "a" \in U /\ shape \in U
  BY DEF Anchor
<1> HIDE DEF U
<1>2. Anchor # <<>> /\ Anchor[1] # "(?s)" /\ \A k \in 1..Len(Anchor) : Anchor[k] # GapPiece
  <2>1. Anchor[1] = "a" /\ Len(Anchor) = 1 /\ Anchor # <<>>
    BY DEF Anchor
  <2>2. "a" # GapPiece /\ "a" # "(?s)"
    BY Zenon DEF GapPiece
  <2>3. \A k \in 1..1 : k = 1
    OBVIOUS
  <2> QED
    BY <2>1, <2>2, <2>3
<1>3. UnescapeLiteral(Anchor) # None
  BY <1>2, AnchorRead DEF None
<1>4. s \in Seq({shape}) /\ Len(s) = 1 /\ s[1] = shape
  OBVIOUS
<1> HIDE DEF s
<1>5. DropSuffix(DropPrefix(s, WordBoundary), WordBoundary) = s
  BY <1>4, OneUncut
<1>6. KindOf(s) # [is |-> "literal", text |-> None]
  <2>1. KindOf(s).is \in {"date", "number"}
    BY <1>4, Zenon DEF KindOf
  <2> QED
    BY <2>1
<1>7. LoweredTo(Pattern(Anchor, digs, s), Anchor, digs, KindOf(s))
  <2>1. digs \in Seq(U)
    BY <1>1
  <2>2. PICK q : q = KindOf(DropSuffix(DropPrefix(s, WordBoundary), WordBoundary))
    OBVIOUS
  <2>3. PICK P : P = Pattern(Anchor, digs, s)
    OBVIOUS
  <2>4. LoweredTo(P, Anchor, digs, q)
    BY <1>1, <1>2, <1>3, <2>2, <2>3, PatternLowered
  <2> QED
    BY <1>5, <2>2, <2>3, <2>4
<1>8. RegexToAnchored(Pattern(Anchor, digs, s)) = Anchored(Anchor, NumberOf(digs), KindOf(s))
  BY <1>6, <1>7, AnchorRead, Zenon DEF LoweredTo
<1> QED
  BY <1>8 DEF s


\* Nothing of a page is behind a window that holds it.
LEMMA WindowSuffices ==
  ASSUME NEW S, NEW page \in Seq(S), NEW w \in Nat, Len(page) <= w, NEW kind
  PROVE  ExtractAnchored(page, Anchor, w, kind) = ExtractAnchored(page, Anchor, Len(page), kind)
<1> DEFINE T == Occurrences(page, Anchor)
           p == Least(T)
<1>1. Len(page) \in Nat /\ Len(Anchor) = 1
  BY DEF Anchor
<1>2. CASE T = {}
  BY <1>2 DEF ExtractAnchored
<1>3. CASE T # {}
  <2>1. T \in SUBSET Nat /\ \A y \in T : y >= 1
    BY <1>1 DEF Occurrences
  <2> HIDE DEF T
  <2>2. p \in Nat /\ p >= 1
    BY <1>3, <2>1, LeastIs
  <2> HIDE DEF p
  <2>3. ASSUME NEW v \in Nat, Len(page) <= v
        PROVE  (IF (p + 1) + v - 1 <= Len(page) THEN (p + 1) + v - 1 ELSE Len(page)) = Len(page)
    BY <1>1, <2>2, <2>3
  <2>4. ASSUME NEW v \in Nat, Len(page) <= v
        PROVE  Region(page, Anchor, v) = SubSeq(page, p + 1, Len(page))
    BY <1>1, <2>3, <2>4 DEF Region, p, T
  <2>5. Region(page, Anchor, w) = Region(page, Anchor, Len(page))
    <3>1. Region(page, Anchor, w) = SubSeq(page, p + 1, Len(page))
      BY <2>4
    <3>2. Len(page) \in Nat /\ Len(page) <= Len(page)
      BY <1>1
    <3>3. Region(page, Anchor, Len(page)) = SubSeq(page, p + 1, Len(page))
      BY <2>4, <3>2
    <3> QED
      BY <3>1, <3>3
  <2> QED
    BY <1>3, <2>5 DEF ExtractAnchored, T
<1> QED
  BY <1>2, <1>3

\* The date pattern that is lowered.
LEMMA DatePattern ==
  ASSUME NEW shape \in DateShapes
  PROVE  RegexToAnchored(Anchor \o <<".{0,", "9", "}", "?">> \o Group(<<shape>>))
           = Anchored(Anchor, NumberOf(<<"9">>), [is |-> "date", format |-> DateKind[shape]])
<1> DEFINE U == Brackets \cup Digits \cup {"a", shape}
           digs == <<"9">>
           s == <<shape>>
           line == <<GapPiece, "9", Brace, "?">>
<1>1. /\ Brackets \subseteq U /\ Digits \subseteq U /\ Anchor \in Seq(U) /\ s \in Seq(U)
  BY DEF Anchor
<1> HIDE DEF U
<1>2. digs \in Seq(Digits) /\ digs # <<>> /\ digs \in Seq(U)
  <2>1. "9" \in Digits
    <3>1. DigitNames[9 + 1] \in Digits
      BY DigitIs
    <3>2. DigitNames[10] = "9" /\ 9 + 1 = 10
      BY DEF DigitNames
    <3> QED
      BY <3>1, <3>2
  <2> QED
    BY <1>1, <2>1
<1>3. line = Gap(digs)
  BY DEF Gap
<1>4. Anchor \o <<".{0,", "9", "}", "?">> \o Group(s) = (Anchor \o line) \o Group(s)
  BY Zenon DEF GapPiece, Brace
<1>5. IsPattern(U, Anchor, digs, s)
  BY <1>1, <1>2, PatternIs
<1>6. Anchor \o <<".{0,", "9", "}", "?">> \o Group(s) = Pattern(Anchor, digs, s)
  BY <1>3, <1>4, <1>5, Zenon DEF IsPattern
<1>7. RegexToAnchored(Pattern(Anchor, digs, s)) = Anchored(Anchor, NumberOf(digs), KindOf(s))
  BY <1>2, PieceLowered
<1>8. s \in Seq({shape}) /\ Len(s) = 1 /\ s[1] = shape
  OBVIOUS
<1> HIDE DEF s
<1>9. KindOf(s) = [is |-> "date", format |-> DateKind[shape]]
  BY <1>8, Zenon DEF KindOf
<1> QED
  BY <1>6, <1>7, <1>9, Zenon DEF s, digs

\* A date is read as the page says by the rule that its own pattern is lowered to.
LEMMA DatesReadLowered == ASSUME DayInv PROVE LoweredDate
<1> SUFFICES ASSUME day \in Sampled PROVE LoweredDate
  BY Zenon DEF LoweredDate
<1>1. Spellable(date) /\ ValidYmd(date.y, date.m, date.d)
  <2>1. date \in Dates /\ DayNumber(date) <= LastSpelled.day
    BY ExtractionAssumption DEF DayInv
  <2> QED
    BY <2>1, FourDigitYears
<1>2. ASSUME NEW f \in DateFormats \ {"MdySlash"}, NEW shape \in DateShapes,
             FitsDate(Spelled(date, f), shape),
             NEW rule, rule = RegexToAnchored(Anchor \o <<".{0,", "9", "}", "?">> \o Group(<<shape>>))
      PROVE  ExtractAnchored(Page(date, f), rule.anchor, 20, rule.kind) = Spelled(date, "Iso")
  <2> DEFINE page == Page(date, f)
             named == [is |-> "date", format |-> f]
  <2>1. DateKind[shape] = f
    BY <1>1, <1>2, DateFitsOne
  <2>2. rule.anchor = Anchor /\ rule.kind = named
    <3>1. rule = Anchored(Anchor, NumberOf(<<"9">>), named)
      BY <1>2, <2>1, DatePattern, Zenon
    <3> HIDE DEF named
    <3> QED
      BY <3>1 DEF Anchored
  <2>3. ReadAs(page, f) = Spelled(date, "Iso")
    BY <1>1, DeclaredRead DEF Understood
  <2>4. page \in Seq(PageChars) /\ Len(page) = 12
    <3>1. "a" \in PageChars /\ "x" \in PageChars
      BY DEF PageChars
    <3>2. PICK s \in Seq(PageChars) : s = Spelled(date, f) /\ Len(s) = 10
      BY <1>1, SpelledIs
    <3> HIDE DEF PageChars
    <3>3. <<"a">> \o s \in Seq(PageChars) /\ Len(<<"a">> \o s) = 11
      <4>1. Len(s) + 1 = 11
        BY <3>2
      <4> QED
        BY <3>1, <4>1, OneMore
    <3>4. PICK u \in Seq(PageChars) : u = <<"a">> \o s /\ Len(u) = 11
      BY <3>3
    <3>5. u \o <<"x">> \in Seq(PageChars) /\ Len(u \o <<"x">>) = 12
      <4>1. Len(u) + 1 = 12
        BY <3>4
      <4> QED
        BY <3>1, <4>1, OneMore
    <3> QED
      BY <3>2, <3>4, <3>5 DEF Page, Anchor
  <2> HIDE DEF page, named
  <2>5. ExtractAnchored(page, Anchor, 20, named) = ExtractAnchored(page, Anchor, Len(page), named)
    <3>1. 20 \in Nat /\ Len(page) <= 20
      BY <2>4
    <3> QED
      BY <2>4, <3>1, WindowSuffices
  <2> QED
    BY <2>2, <2>3, <2>5 DEF ReadAs, named, page
<1>3. LoweredDate <=>
        (day \in Sampled =>
           \A f \in DateFormats \ {"MdySlash"}, shape \in DateShapes :
             FitsDate(Spelled(date, f), shape) =>
               ExtractAnchored(Page(date, f),
                 RegexToAnchored(Anchor \o <<".{0,", "9", "}", "?">> \o Group(<<shape>>)).anchor, 20,
                 RegexToAnchored(Anchor \o <<".{0,", "9", "}", "?">> \o Group(<<shape>>)).kind)
                 = Spelled(date, "Iso"))
  BY Zenon DEF LoweredDate
<1> QED
  BY <1>2, <1>3, Zenon


-----------------------------------------------------------------------------
(* Lowered numbers *)

\* A numeral is a sign, if any, and a number to the end of the text.
LEMMA NumeralIsNumber ==
  ASSUME NEW S, NEW s \in Seq(S), NEW fmt \in NumberFormats, Numeral(s, fmt)
  PROVE  /\ IsDigit(s, IntStart(s, 1)) /\ IntStart(s, 1) \in 1..Len(s)
         /\ \A k \in IntStart(s, 1)..Len(s) : PartOf(s, k)
<1> DEFINE i == IntStart(s, 1)
<1>1. Len(s) \in Nat /\ i \in 1..(Len(s) + 1) /\ i \in Nat
  BY StartIs
<1>2. TakenWhole(s, fmt)
  BY Conforms
<1>3. RunEnd(s, i) > i /\ TokenEnd(s, i, fmt) = Len(s) + 1
  BY <1>2 DEF TakenWhole
<1> HIDE DEF i
<1>4. IsDigit(s, i)
  <2>1. \A k \in i..(RunEnd(s, i) - 1) : IsDigit(s, k)
    BY <1>1, RunEnds
  <2>2. RunEnd(s, i) \in i..(Len(s) + 1)
    BY <1>1, RunEnds
  <2> QED
    BY <1>1, <1>3, <2>1, <2>2
<1>5. NumberTo(s, i, Len(s) + 1)
  BY <1>1, <1>3, <1>4, TokenIsNumber
<1>6. \A k \in i..Len(s) : PartOf(s, k)
  <2>1. (Len(s) + 1) - 1 = Len(s)
    BY <1>1
  <2> QED
    BY <1>5, <2>1 DEF NumberTo
<1>7. i \in 1..Len(s)
  BY <1>1, <1>4, Positions
<1> QED
  BY <1>4, <1>6, <1>7 DEF i

\* A numeral that is a part of a text begins where a number may, with parts of a
\* number to its end.
LEMMA NumeralWithin ==
  ASSUME NEW S, NEW s \in Seq(S), NEW p \in Nat, NEW e \in Nat, Cut(s, p, e),
         NEW fmt \in NumberFormats, Numeral(Part(s, p, e), fmt)
  PROVE  /\ p \in Starts(s) /\ IntStart(s, p) \in p..(e - 1)
         /\ \A k \in IntStart(s, p)..(e - 1) : PartOf(s, k)
<1> DEFINE t == Part(s, p, e)
           i == IntStart(s, p)
           j == IntStart(t, 1)
<1>1. IsPart(t, S, s, p, e)
  BY PartIsPart
<1>2. Numeral(t, fmt)
  OBVIOUS
<1> HIDE DEF t
<1>3. /\ t \in Seq(S) /\ Len(s) \in Nat /\ p >= 1 /\ p <= e /\ e <= Len(s) + 1 /\ Len(t) = e - p
      /\ DOMAIN t = 1..Len(t) /\ DOMAIN s = 1..Len(s)
      /\ \A k \in Nat : k >= 1 /\ k <= e - p => t[k] = s[p + k - 1]
  <2>1. t \in Seq(S)
    BY <1>1 DEF IsPart
  <2>2. Len(s) \in Nat /\ DOMAIN t = 1..Len(t) /\ DOMAIN s = 1..Len(s)
    BY <2>1
  <2> QED
    BY <1>1, <2>1, <2>2 DEF IsPart
<1>4. IsDigit(t, j) /\ j \in 1..Len(t) /\ \A k \in j..Len(t) : PartOf(t, k)
  BY <1>2, <1>3, NumeralIsNumber
<1>5. ASSUME NEW k \in Int, NEW cs, Has(t, k, cs) PROVE Has(s, p + k - 1, cs)
  <2>1. k \in 1..Len(t) /\ t[k] \in cs
    BY <1>3, <1>5 DEF Has
  <2>2. t[k] = s[p + k - 1] /\ p + k - 1 \in 1..Len(s)
    BY <1>3, <2>1
  <2> QED
    BY <1>3, <2>1, <2>2 DEF Has
<1>6. ASSUME NEW k \in Int, PartOf(t, k) PROVE PartOf(s, p + k - 1)
  <2>1. CASE IsDigit(t, k)
    BY <1>5, <2>1 DEF PartOf, IsDigit
  <2>2. CASE Has(t, k, Separators) /\ IsDigit(t, k - 1) /\ IsDigit(t, k + 1)
    <3>1. Has(s, p + k - 1, Separators)
      BY <1>5, <2>2
    <3>2. Has(s, p + (k - 1) - 1, Digits) /\ Has(s, p + (k + 1) - 1, Digits)
      BY <1>5, <2>2 DEF IsDigit
    <3>3. p + (k - 1) - 1 = (p + k - 1) - 1 /\ p + (k + 1) - 1 = (p + k - 1) + 1
      OBVIOUS
    <3> QED
      BY <3>1, <3>2, <3>3 DEF PartOf, IsDigit
  <2> QED
    BY <1>6, <2>1, <2>2 DEF PartOf
<1>7. Has(t, 1, Signs) <=> Has(s, p, Signs)
  <2>1. Len(t) >= 1 /\ p + 1 - 1 = p /\ 1 <= e - p /\ 1 \in Nat
    BY <1>3, <1>4
  <2>2. t[1] = s[p] /\ 1 \in DOMAIN t /\ p \in DOMAIN s
    BY <1>3, <2>1
  <2> QED
    BY <2>2 DEF Has
<1>8. i = p + j - 1 /\ j \in Nat
  BY <1>3, <1>4, <1>7 DEF IntStart
<1> HIDE DEF i, j
<1>9. i \in p..(e - 1) /\ IsDigit(s, i)
  <2>1. i \in p..(e - 1)
    BY <1>3, <1>4, <1>8
  <2>2. IsDigit(s, p + j - 1)
    BY <1>4, <1>5, <1>8 DEF IsDigit
  <2> QED
    BY <1>8, <2>1, <2>2
<1>10. ASSUME NEW k \in i..(e - 1) PROVE PartOf(s, k)
  <2>1. (k - p + 1) \in j..Len(t) /\ p + (k - p + 1) - 1 = k /\ k - p + 1 \in Int
    BY <1>3, <1>4, <1>8, <1>9
  <2>2. PartOf(s, p + (k - p + 1) - 1)
    BY <1>4, <1>6, <2>1
  <2> QED
    BY <2>1, <2>2
<1>11. p \in Starts(s)
  <2>1. p \in DOMAIN s
    BY <1>3, <1>9
  <2> QED
    BY <1>9, <2>1 DEF Starts, i
<1> QED
  BY <1>9, <1>10, <1>11 DEF i

\* No numeral stands before the first number of a text, and none goes beyond it.
LEMMA FirstNumeral ==
  ASSUME NEW S, NEW s \in Seq(S), NEW p \in Nat, NEW e \in Nat, Cut(s, p, e),
         NEW fmt \in NumberFormats, Numeral(Part(s, p, e), fmt)
  PROVE  /\ Starts(s) # {} /\ Least(Starts(s)) <= p
         /\ p = Least(Starts(s)) => e <= PrintedEnd(s, IntStart(s, p))
<1> DEFINE i == IntStart(s, p)
           r == PrintedEnd(s, i)
<1>1. /\ p \in Starts(s) /\ i \in p..(e - 1) /\ \A k \in i..(e - 1) : PartOf(s, k)
  BY NumeralWithin
<1>2. Starts(s) \in SUBSET Nat
  BY DEF Starts
<1>3. Least(Starts(s)) <= p
  BY <1>1, <1>2, LeastIs
<1>4. Len(s) \in Nat /\ e <= Len(s) + 1 /\ p >= 1
  BY DEF Cut
<1> HIDE DEF i
<1>5. r \in i..(Len(s) + 1) /\ ~PartOf(s, r)
  <2>1. i \in 1..(Len(s) + 1)
    BY <1>1, <1>4
  <2> QED
    BY <2>1, PartsEnd
<1> HIDE DEF r
<1>6. e <= r
  BY <1>1, <1>4, <1>5
<1> QED
  BY <1>1, <1>3, <1>6 DEF r, i


\* Four digits spell the window of a pattern; what the extension writes has three, 300.
WindowSpelled == Window \in Nat /\ Window <= 9999

LEMMA WindowDigits ==
  ASSUME WindowSpelled
  PROVE  /\ Padded(Window, 4) \in Seq(Digits) /\ Padded(Window, 4) # <<>>
         /\ NumberOf(Padded(Window, 4)) = Window
<1>1. PICK s : s = Padded(Window, 4)
  OBVIOUS
<1>2. s \in Seq(Digits) /\ Len(s) = 4 /\ Four(s, 1, Window)
  BY <1>1, PaddedFour DEF WindowSpelled
<1>3. /\ \A k \in 1..(1 + 3) : IsDigit(s, k)
      /\ Window = 1000 * DigitValue[s[1]] + 100 * DigitValue[s[1 + 1]] + 10 * DigitValue[s[1 + 2]]
                  + DigitValue[s[1 + 3]]
  BY <1>2, Zenon DEF Four
<1>4. \A k \in 1..4 : DigitValue[s[k]] \in Int
  <2>1. ASSUME NEW k \in 1..4 PROVE DigitValue[s[k]] \in Int
    <3>1. s[k] \in Digits
      BY <1>2
    <3>2. DigitValue[s[k]] \in 0..9
      BY <3>1, ValueIs
    <3> QED
      BY <3>2
  <2> QED
    BY <2>1
<1>5. NumberOf(s) = 1000 * DigitValue[s[1]] + 100 * DigitValue[s[2]] + 10 * DigitValue[s[3]]
                    + DigitValue[s[4]]
  BY <1>2, <1>4, NumberOfFour, Zenon
<1>6. NumberOf(s) = Window
  <2>1. 1 + 1 = 2 /\ 1 + 2 = 3 /\ 1 + 3 = 4
    OBVIOUS
  <2> QED
    BY <1>3, <1>5, <2>1
<1> QED
  BY <1>1, <1>2, <1>6

\* What the pattern of a number is lowered to.
LEMMA RuleIs ==
  ASSUME WindowSpelled, NEW shape \in DOMAIN NumberKind
  PROVE  LoweredRule[shape] = Anchored(Anchor, Window, [is |-> "number", format |-> NumberKind[shape]])
<1> DEFINE U == Brackets \cup Digits \cup {"a", shape}
           s == <<shape>>
<1>1. PICK digs : digs = Padded(Window, 4)
  OBVIOUS
<1>2. /\ Brackets \subseteq U /\ Digits \subseteq U /\ Anchor \in Seq(U) /\ s \in Seq(U)
      /\ <<GapPiece>> \in Seq(U) /\ <<Brace, "?">> \in Seq(U)
  BY DEF Anchor, Brackets
<1> HIDE DEF U
<1>3. digs \in Seq(Digits) /\ digs # <<>> /\ NumberOf(digs) = Window /\ digs \in Seq(U)
  BY <1>1, <1>2, WindowDigits
<1>4. PICK g \in Seq(U), b \in Seq(U), a \in Seq(U) :
        g = <<GapPiece>> /\ b = <<Brace, "?">> /\ a = Anchor
  BY <1>2
<1>5. ((a \o g) \o digs) \o b = a \o (g \o (digs \o b))
  <2>1. PICK x \in Seq(U) : x = a \o g
    <3>1. a \o g \in Seq(U)
      BY ConcatProperties
    <3> QED
      BY <3>1
  <2>2. PICK y \in Seq(U) : y = digs \o b
    <3>1. digs \o b \in Seq(U)
      BY <1>3, ConcatProperties
    <3> QED
      BY <3>1
  <2>3. Joins(x, digs, b)
    BY <1>3, JoinsAll
  <2>4. Joins(a, g, y)
    BY JoinsAll
  <2>5. (x \o digs) \o b = x \o y
    BY <2>2, <2>3 DEF Joins
  <2>6. (a \o g) \o y = a \o (g \o y)
    BY <2>4 DEF Joins
  <2> QED
    BY <2>1, <2>2, <2>5, <2>6, Zenon
<1>6. (((a \o g) \o digs) \o b) \o Group(s) = Pattern(Anchor, digs, s)
  <2>1. IsPattern(U, Anchor, digs, s)
    BY <1>2, <1>3, PatternIs
  <2> QED
    BY <1>4, <1>5, <2>1, Zenon DEF IsPattern, Gap
<1>7. LoweredRule[shape] = RegexToAnchored((((a \o g) \o digs) \o b) \o Group(s))
  BY <1>1, <1>4, Zenon DEF LoweredRule, GapPiece, Brace
<1>8. RegexToAnchored(Pattern(Anchor, digs, s)) = Anchored(Anchor, NumberOf(digs), KindOf(s))
  BY <1>3, PieceLowered
<1>9. s \in Seq({shape}) /\ Len(s) = 1 /\ s[1] = shape
  OBVIOUS
<1> HIDE DEF s
<1>10. KindOf(s) = [is |-> "number", format |-> NumberKind[shape]]
  <2>1. shape \notin DateShapes
    BY PiecesAre
  <2> QED
    BY <1>9, <2>1, Zenon DEF KindOf
<1> QED
  BY <1>3, <1>6, <1>7, <1>8, <1>10, Zenon

LEMMA LoweredIs ==
  ASSUME WindowSpelled, NEW shape \in DOMAIN NumberKind
  PROVE  Lowered(shape) = Extracted(NumberKind[shape])
<1>1. PICK kind : kind = [is |-> "number", format |-> NumberKind[shape]]
  OBVIOUS
<1>2. PICK rule : rule = LoweredRule[shape]
  OBVIOUS
<1>3. rule.anchor = Anchor /\ rule.window = Window /\ rule.kind = kind
  <2>1. rule = Anchored(Anchor, Window, kind)
    BY <1>1, <1>2, RuleIs, Zenon
  <2> QED
    BY <2>1 DEF Anchored
<1>4. Lowered(shape) = ExtractAnchored(body, rule.anchor, rule.window, rule.kind)
  BY <1>2, Zenon DEF Lowered
<1>5. Extracted(NumberKind[shape]) = ExtractAnchored(body, Anchor, Window, kind)
  BY <1>1, Zenon DEF Extracted
<1> QED
  BY <1>3, <1>4, <1>5, Zenon

\* A pattern matches what its convention writes.
LEMMA FitsNumeral ==
  ASSUME NEW shape \in DOMAIN NumberKind, NEW s, Fits(s, shape)
  PROVE  NumberKind[shape] \in NumberFormats /\ Numeral(s, NumberKind[shape])
<1> DEFINE plain == "[+-]?[0-9]+(\\.[0-9]+)?"
           eu    == "[+-]?[0-9]{1,3}(\\.[0-9]{3})+(,[0-9]+)?"
           comma == "[+-]?[0-9]+,[0-9]+"
           us    == "[+-]?[0-9]{1,3}(,[0-9]{3})+(\\.[0-9]+)?"
<1>1. DOMAIN NumberKind = {plain, eu, comma, us}
  BY Zenon DEF NumberKind
<1>2. /\ NumberKind[plain] = "Plain" /\ NumberKind[eu] = "EuGrouped"
      /\ NumberKind[comma] = "EuGrouped" /\ NumberKind[us] = "UsGrouped"
  <2>1. NumberKind[plain] = "Plain"
    BY Zenon DEF NumberKind
  <2>2. NumberKind[eu] = "EuGrouped"
    BY Zenon DEF NumberKind
  <2>3. NumberKind[comma] = "EuGrouped"
    BY Zenon DEF NumberKind
  <2>4. NumberKind[us] = "UsGrouped"
    BY Zenon DEF NumberKind
  <2> QED
    BY <2>1, <2>2, <2>3, <2>4, Zenon
<1>3. CASE shape = plain
  <2>1. Numeral(s, "Plain")
    BY <1>3, Zenon DEF Fits
  <2> QED
    BY <1>2, <1>3, <2>1, Zenon DEF NumberFormats
<1>4. CASE shape = eu
  <2>1. Numeral(s, "EuGrouped")
    BY <1>4, Zenon DEF Fits
  <2> QED
    BY <1>2, <1>4, <2>1, Zenon DEF NumberFormats
<1>5. CASE shape = comma
  <2>1. Numeral(s, "EuGrouped")
    BY <1>5, Zenon DEF Fits
  <2> QED
    BY <1>2, <1>5, <2>1, Zenon DEF NumberFormats
<1>6. CASE shape = us
  <2>1. Numeral(s, "UsGrouped")
    BY <1>6, Zenon DEF Fits
  <2> QED
    BY <1>2, <1>6, <2>1, Zenon DEF NumberFormats
<1> QED
  BY <1>1, <1>3, <1>4, <1>5, <1>6, Zenon


-----------------------------------------------------------------------------
(* What a pattern captures *)

\* Every set of naturals with a bound that is not empty has a greatest one.
LEMMA GreatestNatural ==
  ASSUME NEW T \in SUBSET Nat, T # {}, NEW n \in Nat, \A m \in T : m <= n
  PROVE  \E g \in T : \A m \in T : m <= g
<1> DEFINE R == {k \in Nat : n - k \in T}
<1>1. ASSUME NEW m \in T PROVE n - m \in R
  <2>1. m \in Nat /\ m <= n
    OBVIOUS
  <2>2. n - m \in Nat /\ n - (n - m) = m
    BY <2>1
  <2> QED
    BY <2>2
<1>2. R \in SUBSET Nat /\ R # {}
  BY <1>1
<1>3. PICK k \in R : \A m \in R : k <= m
  BY <1>2, LeastNatural
<1>4. n - k \in T /\ k \in Nat
  BY <1>3
<1>5. ASSUME NEW m \in T PROVE m <= n - k
  <2>1. k <= n - m
    BY <1>1, <1>3
  <2>2. m \in Nat
    OBVIOUS
  <2> QED
    BY <1>4, <2>1, <2>2
<1> QED
  BY <1>4, <1>5

\* Where the matches of a pattern end that begin at p, where those begin that follow
\* an anchor at a, and the anchors that lead to one.
EndsOf(shape, p) == {q \in p..Len(body) : Fits(SubSeq(body, p, q), shape)}

BeginsOf(shape, a) == {p \in (a + 1)..Len(body) : p <= a + 1 + Window /\ EndsOf(shape, p) # {}}

AnchorsOf(shape) == {a \in Occurrences(body, Anchor) : BeginsOf(shape, a) # {}}

LEMMA CapturedIs ==
  ASSUME NEW shape
  PROVE  LET p == Least(BeginsOf(shape, Least(AnchorsOf(shape))))
         IN Captured(shape) =
              IF AnchorsOf(shape) = {} THEN None
              ELSE SubSeq(body, p, CHOOSE q \in EndsOf(shape, p) : \A r \in EndsOf(shape, p) : r <= q)
  BY Zenon DEF Captured, EndsOf, BeginsOf, AnchorsOf

\* The anchor of a labelled body stands first.
LEMMA LabelFirst ==
  ASSUME BodyInv, Labelled
  PROVE  /\ Len(body) \in Nat /\ Len(body) >= 1
         /\ Occurrences(body, Anchor) \in SUBSET (1..Len(body))
         /\ 1 \in Occurrences(body, Anchor) /\ Least(Occurrences(body, Anchor)) = 1
<1>1. /\ body \in Seq(Alphabet) /\ Len(body) \in Nat /\ DOMAIN body = 1..Len(body)
      /\ Len(Anchor) = 1 /\ Range(Anchor) = {"a"}
  <2>1. Anchor = <<"a">>
    BY DEF Anchor
  <2>2. Range(Anchor) = {"a"}
    BY <2>1 DEF Range
  <2> QED
    BY <2>1, <2>2 DEF BodyInv
<1>2. body[1] = "a" /\ Len(body) >= 1
  BY <1>1 DEF Labelled, Has
<1>3. Occurrences(body, Anchor) \in SUBSET (1..Len(body))
  BY <1>1 DEF Occurrences
<1>4. SubSeq(body, 1, 1) = Anchor
  <2>1. SubSeq(body, 1, 1) = <<body[1]>>
    <3>1. PICK s : s = Part(body, 1, 2)
      OBVIOUS
    <3>2. Cut(body, 1, 2) /\ 1 \in Nat /\ 2 \in Nat
      BY <1>1, <1>2 DEF Cut
    <3>3. IsPart(s, Alphabet, body, 1, 2)
      BY <1>1, <3>1, <3>2, PartIsPart
    <3>4. s \in Seq(Alphabet) /\ Len(s) = 1 /\ s[1] = body[1]
      <4>1. 2 - 1 = 1 /\ 1 + 1 - 1 = 1
        OBVIOUS
      <4> QED
        BY <3>3, <4>1 DEF IsPart
    <3>5. s = SubSeq(body, 1, 1)
      <4>1. 2 - 1 = 1
        OBVIOUS
      <4> QED
        BY <3>1, <4>1, Zenon DEF Part
    <3>6. s = <<body[1]>>
      BY <3>4
    <3> QED
      BY <3>5, <3>6
  <2> QED
    BY <1>2, <2>1 DEF Anchor
<1>5. 1 \in Occurrences(body, Anchor)
  <2>1. 1 \in 1..(Len(body) - Len(Anchor) + 1) /\ 1 + Len(Anchor) - 1 = 1
    BY <1>1, <1>2
  <2> QED
    BY <1>4, <2>1 DEF Occurrences
<1>6. Least(Occurrences(body, Anchor)) = 1
  <2>1. Occurrences(body, Anchor) \in SUBSET Nat
    BY <1>1, <1>3
  <2>2. /\ Least(Occurrences(body, Anchor)) \in Occurrences(body, Anchor)
        /\ Least(Occurrences(body, Anchor)) <= 1
    BY <1>5, <2>1, LeastIs
  <2>3. Least(Occurrences(body, Anchor)) \in 1..Len(body)
    BY <1>3, <2>2
  <2> QED
    BY <1>1, <2>2, <2>3
<1> QED
  BY <1>1, <1>2, <1>3, <1>5, <1>6

\* A capture is a match behind the anchor.
LEMMA CaptureMatches ==
  ASSUME BodyInv, Labelled, Window \in Nat, NEW shape, Captured(shape) # None
  PROVE  \E p \in 2..Len(body) : \E q \in p..Len(body) :
           Fits(SubSeq(body, p, q), shape) /\ Captured(shape) = SubSeq(body, p, q)
<1> DEFINE a == Least(AnchorsOf(shape))
           p == Least(BeginsOf(shape, a))
           q == CHOOSE x \in EndsOf(shape, p) : \A r \in EndsOf(shape, p) : r <= x
<1>1. AnchorsOf(shape) # {} /\ Captured(shape) = SubSeq(body, p, q)
  BY CapturedIs, Zenon
<1>2. Len(body) \in Nat /\ Occurrences(body, Anchor) \in SUBSET (1..Len(body))
  BY LabelFirst
<1>3. a \in 1..Len(body) /\ BeginsOf(shape, a) # {}
  <2>1. AnchorsOf(shape) \in SUBSET (1..Len(body)) /\ AnchorsOf(shape) \in SUBSET Nat
    BY <1>2 DEF AnchorsOf
  <2>2. a \in AnchorsOf(shape)
    BY <1>1, <2>1, LeastIs
  <2> QED
    BY <2>1, <2>2 DEF AnchorsOf
<1> HIDE DEF a
<1>4. p \in (a + 1)..Len(body) /\ EndsOf(shape, p) # {}
  <2>1. BeginsOf(shape, a) \in SUBSET Nat
    BY <1>2, <1>3 DEF BeginsOf
  <2>2. p \in BeginsOf(shape, a)
    BY <1>3, <2>1, LeastIs
  <2> QED
    BY <2>2 DEF BeginsOf
<1> HIDE DEF p
<1>5. p \in 2..Len(body)
  BY <1>2, <1>3, <1>4
<1>6. q \in EndsOf(shape, p)
  <2>1. EndsOf(shape, p) \in SUBSET Nat /\ \A m \in EndsOf(shape, p) : m <= Len(body)
    BY <1>2, <1>5 DEF EndsOf
  <2>2. \E g \in EndsOf(shape, p) : \A m \in EndsOf(shape, p) : m <= g
    BY <1>2, <1>4, <2>1, GreatestNatural
  <2> QED
    BY <2>2
<1> HIDE DEF q
<1>7. q \in p..Len(body) /\ Fits(SubSeq(body, p, q), shape)
  BY <1>6 DEF EndsOf
<1> QED
  BY <1>1, <1>5, <1>7

\* A match behind the anchor that none precedes and none outlasts is what is captured.
LEMMA MatchCaptured ==
  ASSUME BodyInv, Labelled, Window \in Nat, Len(body) <= Window, NEW shape,
         NEW p \in 2..Len(body), NEW q \in EndsOf(shape, p),
         \A x \in 2..Len(body) : EndsOf(shape, x) # {} => p <= x,
         \A x \in EndsOf(shape, p) : x <= q
  PROVE  Captured(shape) = SubSeq(body, p, q)
<1>1. /\ Len(body) \in Nat /\ Occurrences(body, Anchor) \in SUBSET (1..Len(body))
      /\ 1 \in Occurrences(body, Anchor)
  BY LabelFirst
<1>2. p \in BeginsOf(shape, 1) /\ \A x \in BeginsOf(shape, 1) : p <= x
  <2>1. 1 + 1 = 2 /\ p <= 1 + 1 + Window
    BY <1>1
  <2> QED
    BY <2>1 DEF BeginsOf
<1>3. Least(AnchorsOf(shape)) = 1
  <2>1. AnchorsOf(shape) \in SUBSET (1..Len(body)) /\ AnchorsOf(shape) \in SUBSET Nat
    BY <1>1 DEF AnchorsOf
  <2>2. 1 \in AnchorsOf(shape)
    BY <1>1, <1>2 DEF AnchorsOf
  <2>3. Least(AnchorsOf(shape)) \in AnchorsOf(shape) /\ Least(AnchorsOf(shape)) <= 1
    BY <2>1, <2>2, LeastIs
  <2>4. Least(AnchorsOf(shape)) \in 1..Len(body)
    BY <2>1, <2>3
  <2> QED
    BY <1>1, <2>3, <2>4
<1>4. AnchorsOf(shape) # {}
  BY <1>1, <1>2 DEF AnchorsOf
<1>5. Least(BeginsOf(shape, 1)) = p
  <2>1. BeginsOf(shape, 1) \in SUBSET Nat
    BY <1>1 DEF BeginsOf
  <2>2. /\ Least(BeginsOf(shape, 1)) \in BeginsOf(shape, 1) /\ Least(BeginsOf(shape, 1)) <= p
    BY <1>2, <2>1, LeastIs
  <2> QED
    BY <1>2, <2>1, <2>2
<1>6. (CHOOSE x \in EndsOf(shape, p) : \A r \in EndsOf(shape, p) : r <= x) = q
  <2> DEFINE g == CHOOSE x \in EndsOf(shape, p) : \A r \in EndsOf(shape, p) : r <= x
  <2>1. g \in EndsOf(shape, p) /\ \A r \in EndsOf(shape, p) : r <= g
    OBVIOUS
  <2>2. EndsOf(shape, p) \in SUBSET Nat
    BY <1>1 DEF EndsOf
  <2> HIDE DEF g
  <2>3. g = q
    BY <2>1, <2>2
  <2> QED
    BY <2>3 DEF g
<1> QED
  BY <1>3, <1>4, <1>5, <1>6, CapturedIs, Zenon


\* What stands behind the label, and what a match is of it.
LEMMA BehindIs ==
  ASSUME BodyInv, Labelled, Window \in Nat, Len(body) <= Window
  PROVE  /\ Behind \in Seq(Alphabet) /\ Len(Behind) = Len(body) - 1
         /\ \A p \in 2..Len(body) : \A q \in p..Len(body) :
              SubSeq(body, p, q) = Part(Behind, p - 1, q)
<1>1. /\ Len(body) \in Nat /\ Len(body) >= 1 /\ body \in Seq(Alphabet)
      /\ Least(Occurrences(body, Anchor)) = 1
  BY LabelFirst DEF BodyInv
<1>2. Behind = Part(body, 2, Len(body) + 1)
  <2>1. Len(Anchor) = 1
    BY DEF Anchor
  <2>2. 1 + Len(Anchor) = 2 /\ (Len(body) + 1) - 1 = Len(body)
    BY <1>1, <2>1
  <2>3. (IF 2 + Len(body) - 1 <= Len(body) THEN 2 + Len(body) - 1 ELSE Len(body)) = Len(body)
    BY <1>1
  <2> QED
    BY <1>1, <2>2, <2>3 DEF Behind, Region, Part
<1>3. Cut(body, 2, Len(body) + 1) /\ 2 \in Nat /\ Len(body) + 1 \in Nat
  BY <1>1 DEF Cut
<1>4. Behind \in Seq(Alphabet) /\ Len(Behind) = Len(body) - 1
  <2>1. IsPart(Behind, Alphabet, body, 2, Len(body) + 1)
    BY <1>1, <1>2, <1>3, PartIsPart
  <2>2. (Len(body) + 1) - 2 = Len(body) - 1
    BY <1>1
  <2> QED
    BY <2>1, <2>2 DEF IsPart
<1>5. ASSUME NEW p \in 2..Len(body), NEW q \in p..Len(body)
      PROVE  SubSeq(body, p, q) = Part(Behind, p - 1, q)
  <2>1. /\ p - 1 \in 1..((Len(body) + 1) - 2 + 1) /\ q \in (p - 1)..((Len(body) + 1) - 2 + 1)
        /\ p \in Nat /\ q + 1 \in Nat /\ p = 2 + (p - 1) - 1 /\ q + 1 = 2 + q - 1
        /\ (q + 1) - 1 = q
    BY <1>1
  <2>2. Part(Part(body, 2, Len(body) + 1), p - 1, q) = Part(body, p, q + 1)
    BY <1>1, <1>3, <2>1, PartOfPartIs
  <2> QED
    BY <1>2, <2>1, <2>2 DEF Part
<1> QED
  BY <1>4, <1>5

\* A match is a numeral behind the label: none begins before the first number there,
\* and none that begins with it goes beyond it.
LEMMA MatchIsFirst ==
  ASSUME BodyInv, Labelled, Window \in Nat, Len(body) <= Window,
         NEW shape \in DOMAIN NumberKind, NEW p \in 2..Len(body), NEW q \in p..Len(body),
         Fits(SubSeq(body, p, q), shape),
         NEW s, s = Least(Starts(Behind))
  PROVE  /\ Starts(Behind) # {} /\ s <= p - 1
         /\ p - 1 = s => q <= PrintedEnd(Behind, IntStart(Behind, s))
<1>1. /\ Behind \in Seq(Alphabet) /\ Len(Behind) = Len(body) - 1
      /\ SubSeq(body, p, q) = Part(Behind, p - 1, q) /\ Len(body) \in Nat
  BY BehindIs, LabelFirst
<1>2. PICK fmt \in NumberFormats : Numeral(Part(Behind, p - 1, q), fmt)
  BY <1>1, FitsNumeral
<1>3. p - 1 \in Nat /\ q \in Nat /\ Cut(Behind, p - 1, q)
  BY <1>1 DEF Cut
<1> QED
  BY <1>1, <1>2, <1>3, FirstNumeral

\* The first number behind the label, where it stands in the body.
LEMMA PrintedInBody ==
  ASSUME BodyInv, Labelled, Window \in Nat, Len(body) <= Window, Starts(Behind) # {},
         NEW s, s = Least(Starts(Behind)),
         NEW e, e = PrintedEnd(Behind, IntStart(Behind, s))
  PROVE  /\ s \in Nat /\ s + 1 \in 2..Len(body) /\ e \in (s + 1)..Len(body)
         /\ Printed(Behind) = SubSeq(body, s + 1, e)
<1>1. /\ Behind \in Seq(Alphabet) /\ Len(Behind) = Len(body) - 1 /\ Len(body) \in Nat
      /\ \A p \in 2..Len(body) : \A q \in p..Len(body) :
           SubSeq(body, p, q) = Part(Behind, p - 1, q)
  BY BehindIs, LabelFirst
<1>2. PICK i : i = IntStart(Behind, s)
  OBVIOUS
<1>3. s \in 1..Len(Behind) /\ i \in {s, s + 1} /\ IsDigit(Behind, i)
  BY <1>1, <1>2, FirstStart
<1>4. i \in 1..Len(Behind)
  BY <1>1, <1>3, Positions
<1>5. e \in i..(Len(Behind) + 1) /\ ~PartOf(Behind, e)
  <2>1. i \in 1..(Len(Behind) + 1)
    BY <1>1, <1>4
  <2> QED
    BY <1>1, <1>2, <2>1, PartsEnd
<1>6. e # i
  BY <1>3, <1>5 DEF PartOf
<1>7. s \in Nat /\ s + 1 \in 2..Len(body) /\ e \in (s + 1)..Len(body) /\ (s + 1) - 1 = s
  BY <1>1, <1>3, <1>4, <1>5, <1>6
<1>8. Printed(Behind) = Part(Behind, s, e)
  BY PrintedIs DEF Part
<1>9. SubSeq(body, s + 1, e) = Part(Behind, (s + 1) - 1, e)
  BY <1>1, <1>7
<1> QED
  BY <1>7, <1>8, <1>9

\* A number in the shape a pattern names is captured as it is read ...
LEMMA ReadIsCaptured ==
  ASSUME BodyInv, Labelled, WindowSpelled, Len(body) <= Window,
         NEW shape \in DOMAIN NumberKind, Fits(Lowered(shape), shape)
  PROVE  Captured(shape) = Lowered(shape)
<1>1. PICK x : x = Lowered(shape)
  OBVIOUS
<1>2. PICK fmt \in NumberFormats : Numeral(x, fmt) /\ x = Extracted(fmt)
  BY <1>1, FitsNumeral, LoweredIs
<1>3. Window \in Nat
  BY DEF WindowSpelled
<1>4. x # None
  <2>1. ASSUME x = <<>> PROVE FALSE
    <3>1. x \in Seq({}) /\ Len(x) = 0
      BY <2>1
    <3>2. IntStart(x, 1) \in 1..Len(x)
      BY <1>2, <3>1, NumeralIsNumber
    <3> QED
      BY <3>1, <3>2
  <2> QED
    BY <2>1 DEF None
<1>5. x = Printed(Behind)
  BY <1>2, <1>3, <1>4, NumbersReadHere DEF NumbersRead, WholeNumber
<1>6. Starts(Behind) # {}
  <2>1. Occurrences(body, Anchor) # {}
    BY LabelFirst
  <2>2. Region(body, Anchor, Window) = Behind
    BY <1>3, <2>1, RegionIs
  <2>3. Read(Behind, [is |-> "number", format |-> fmt]) = ReadNumber(Behind, fmt)
    BY DEF Read
  <2>4. x = ReadNumber(Behind, fmt)
    BY <1>2, <2>1, <2>2, <2>3 DEF Extracted, ExtractAnchored
  <2> QED
    BY <1>4, <2>4 DEF ReadNumber
<1>7. PICK s, e : s = Least(Starts(Behind)) /\ e = PrintedEnd(Behind, IntStart(Behind, s))
  OBVIOUS
<1>8. /\ s \in Nat /\ s + 1 \in 2..Len(body) /\ e \in (s + 1)..Len(body)
      /\ x = SubSeq(body, s + 1, e)
  BY <1>3, <1>5, <1>6, <1>7, PrintedInBody
<1>9. e \in EndsOf(shape, s + 1)
  BY <1>1, <1>8 DEF EndsOf
<1>10. Len(body) \in Nat
  BY LabelFirst
<1>11. ASSUME NEW p \in 2..Len(body), EndsOf(shape, p) # {} PROVE s + 1 <= p
  <2>1. PICK q \in p..Len(body) : Fits(SubSeq(body, p, q), shape)
    BY <1>11 DEF EndsOf
  <2>2. s <= p - 1
    BY <1>3, <1>7, <2>1, MatchIsFirst
  <2> QED
    BY <1>8, <1>10, <2>2
<1>12. ASSUME NEW q \in EndsOf(shape, s + 1) PROVE q <= e
  <2>1. q \in (s + 1)..Len(body) /\ Fits(SubSeq(body, s + 1, q), shape)
    BY DEF EndsOf
  <2>2. (s + 1) - 1 = s
    BY <1>8
  <2> QED
    BY <1>3, <1>7, <1>8, <2>1, <2>2, MatchIsFirst
<1>13. Captured(shape) = SubSeq(body, s + 1, e)
  BY <1>3, <1>8, <1>9, <1>11, <1>12, MatchCaptured
<1> QED
  BY <1>1, <1>8, <1>13

\* ... and a captured number that is the first behind the label is read.
LEMMA CapturedIsRead ==
  ASSUME BodyInv, Labelled, WindowSpelled, Len(body) <= Window,
         NEW shape \in DOMAIN NumberKind, Captured(shape) # None,
         Captured(shape) = Printed(Behind)
  PROVE  Lowered(shape) = Captured(shape)
<1>1. Window \in Nat
  BY DEF WindowSpelled
<1>2. PICK p \in 2..Len(body) : \E q \in p..Len(body) :
        Fits(SubSeq(body, p, q), shape) /\ Captured(shape) = SubSeq(body, p, q)
  BY <1>1, CaptureMatches
<1>3. PICK q \in p..Len(body) :
        Fits(SubSeq(body, p, q), shape) /\ Captured(shape) = SubSeq(body, p, q)
  BY <1>2
<1>4. Starts(Behind) # {}
  BY <1>1, <1>3, MatchIsFirst
<1>5. PICK fmt : fmt = NumberKind[shape]
  OBVIOUS
<1>6. fmt \in NumberFormats /\ Numeral(Printed(Behind), fmt)
  BY <1>3, <1>5, FitsNumeral
<1>7. Occurrences(body, Anchor) # {}
  BY LabelFirst
<1>8. Extracted(fmt) = Printed(Behind)
  BY <1>1, <1>4, <1>6, <1>7, NumbersReadHere DEF NumbersRead, ConformingIsRead
<1>9. Lowered(shape) = Extracted(fmt)
  BY <1>5, LoweredIs
<1> QED
  BY <1>8, <1>9

\* A number is read as its pattern captures it, and a date as its pattern names it
\* (main.rs 498 and 542-549), in bodies of any length that the window holds.
THEOREM LoweringAlwaysAgrees ==
  ASSUME WindowHolds, WindowSpelled
  PROVE  RulesSpec => []LoweringAgrees
<1>1. RulesInit => BodyInv /\ Len(body) <= MaxLen
  BY DEF RulesInit, Init, BodyInv, WindowHolds
<1>2. BodyInv /\ Len(body) <= MaxLen /\ [RulesNext]_all => (Len(body) <= MaxLen)'
  BY LengthStep
<1>3. BodyInv /\ Len(body) <= MaxLen => LoweredAgrees
  <2> SUFFICES ASSUME BodyInv, Len(body) <= MaxLen, Labelled, NEW shape \in DOMAIN NumberKind
               PROVE  /\ Fits(Lowered(shape), shape) => Captured(shape) = Lowered(shape)
                      /\ Captured(shape) # None /\ Captured(shape) = Printed(Behind) =>
                           Lowered(shape) = Captured(shape)
    BY DEF LoweredAgrees
  <2>1. Len(body) <= Window
    BY LabelFirst DEF WindowHolds
  <2> QED
    BY <2>1, ReadIsCaptured, CapturedIsRead
<1>4. DayInv => LoweredDate
  BY DatesReadLowered
<1> QED
  BY <1>1, <1>2, <1>3, <1>4, BodyStep, DaysCounted, PTL DEF RulesSpec, LoweringAgrees
=============================================================================
