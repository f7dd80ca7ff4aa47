--------------------------- MODULE SequenceLemmas ---------------------------
(***************************************************************************)
(* Naturals, and functions defined by recursion over them: what the        *)
(* theorems about sequences and folds of the other modules rest on.        *)
(*                                                                         *)
(* The library states induction with an operator for the predicate; here   *)
(* it is stated with a set, which first-order provers can instantiate.     *)
(***************************************************************************)
EXTENDS Integers, Sequences, SequenceTheorems, WellFoundedInduction, TLAPS

\* The naturals are well-founded.
LEMMA LessWellFounded == IsWellFoundedOn({ss \in Nat \X Nat : ss[1] < ss[2]}, Nat)
  BY NatLessThanWellFounded DEF OpToRel

\* Every set of naturals that is not empty has a least one ...
LEMMA LeastNatural ==
  ASSUME NEW T \in SUBSET Nat, T # {}
  PROVE  \E n \in T : \A m \in T : n <= m
<1> DEFINE R == {ss \in Nat \X Nat : ss[1] < ss[2]}
<1>1. \E x \in T : \A y \in T : <<y, x>> \notin R
  <2> HIDE DEF R
  <2> QED
    BY LessWellFounded, WFMin DEF R
<1>2. PICK x \in T : \A y \in T : <<y, x>> \notin R
  BY <1>1
<1>3. \A y \in T : ~(y < x)
  <2> TAKE y \in T
  <2>1. <<y, x>> \in Nat \X Nat /\ <<y, x>> \notin R
    BY <1>2
  <2> QED
    BY <2>1
<1> QED
  BY <1>3

\* ... so a set that holds 0, and with each natural the next, holds them all:
\* induction, over a set instead of a predicate.
LEMMA NatSetInduction ==
  ASSUME NEW A, 0 \in A, \A n \in Nat : n \in A => n + 1 \in A
  PROVE  Nat \subseteq A
<1> SUFFICES ASSUME Nat \ A # {} PROVE FALSE
  OBVIOUS
<1>1. PICK n \in Nat \ A : \A m \in Nat \ A : n <= m
  BY LeastNatural
<1>2. n - 1 \in Nat /\ n - 1 \in A
  BY <1>1
<1> QED
  BY <1>1, <1>2

\* f begins with c and goes from each value to the next by step.
Iterates(f, c, step, n) ==
  f[0] = c /\ \A i \in 1..n : f[i] = step[<<f[i - 1], i>>]

\* A function defined by recursion over 0..n exists.
LEMMA Iteration ==
  ASSUME NEW S, NEW c \in S, NEW step \in [S \X Nat -> S], NEW n \in Nat
  PROVE  \E f \in [0..n -> S] : Iterates(f, c, step, n)
<1> DEFINE A == {m \in Nat : \E f \in [0..m -> S] : Iterates(f, c, step, m)}
<1>1. 0 \in A
  <2>1. [i \in 0..0 |-> c] \in [0..0 -> S] /\ Iterates([i \in 0..0 |-> c], c, step, 0)
    BY DEF Iterates
  <2> QED
    BY <2>1
<1>2. ASSUME NEW m \in Nat, m \in A PROVE m + 1 \in A
  <2>1. PICK f \in [0..m -> S] : Iterates(f, c, step, m)
    BY <1>2
  <2> DEFINE g == [i \in 0..(m + 1) |-> IF i = m + 1 THEN step[<<f[m], m + 1>>] ELSE f[i]]
  <2>2. f[m] \in S /\ <<f[m], m + 1>> \in S \X Nat
    OBVIOUS
  <2>3. step[<<f[m], m + 1>>] \in S
    BY <2>2
  <2>4. g \in [0..(m + 1) -> S]
    BY <2>3
  <2>5. g[0] = c /\ \A i \in 1..m : g[i] = step[<<g[i - 1], i>>]
    <3>1. \A i \in 0..m : g[i] = f[i]
      OBVIOUS
    <3>2. \A i \in 1..m : i \in 0..m /\ i - 1 \in 0..m
      OBVIOUS
    <3> HIDE DEF g
    <3> QED
      BY <2>1, <3>1, <3>2 DEF Iterates
  <2>6. g[m + 1] = step[<<g[m], m + 1>>]
    OBVIOUS
  <2>7. Iterates(g, c, step, m + 1)
    <3> HIDE DEF g
    <3> QED
      BY <2>5, <2>6 DEF Iterates
  <2>8. m + 1 \in Nat
    OBVIOUS
  <2> HIDE DEF g
  <2> QED
    BY <2>4, <2>7, <2>8
<1>3. n \in A
  <2> HIDE DEF A
  <2> QED
    BY <1>1, <1>2, NatSetInduction
<1> QED
  BY <1>3
=============================================================================
