---------------------------- MODULE GuestProofs ----------------------------
(***************************************************************************)
(* Theorems about Guest: for all session files, registries and requests,   *)
(* and whatever extractors and predicates compute; then about Verifiers,   *)
(* for any image id of the guest and of another program.  The small inputs *)
(* of MCGuest are not used here, only what it says of verification.        *)
(***************************************************************************)
EXTENDS MCGuest, TLAPS

-----------------------------------------------------------------------------
(* Sequences *)

LEMMA SeqFacts ==
  ASSUME NEW s, IsSeq(s)
  PROVE  Len(s) \in Nat /\ DOMAIN s = 1..Len(s)
  BY DEF IsSeq

LEMMA OwnRange ==
  ASSUME NEW S, NEW t \in Seq(S)
  PROVE  IsSeq(t)
<1> DEFINE R == {t[k] : k \in DOMAIN t}
<1>1. Len(t) \in Nat /\ DOMAIN t = 1..Len(t) /\ t = [k \in 1..Len(t) |-> t[k]]
  OBVIOUS
<1>2. \A k \in 1..Len(t) : t[k] \in R
  BY <1>1
<1> HIDE DEF R
<1>3. [k \in 1..Len(t) |-> t[k]] \in Seq(R)
  BY <1>1, <1>2
<1>4. t \in Seq(R)
  BY <1>1, <1>3
<1> QED
  BY <1>4 DEF IsSeq, R

LEMMA AppendFacts ==
  ASSUME NEW s, IsSeq(s), NEW e
  PROVE  /\ IsSeq(Append(s, e))
         /\ Len(Append(s, e)) = Len(s) + 1
         /\ \A k \in 1..Len(s) : Append(s, e)[k] = s[k]
         /\ Append(s, e)[Len(s) + 1] = e
<1> DEFINE S == {s[k] : k \in DOMAIN s} \cup {e}
           t == Append(s, e)
<1>1. s \in Seq({s[k] : k \in DOMAIN s})
  BY DEF IsSeq
<1>2. s \in Seq(S)
  BY <1>1
<1>3. t \in Seq(S) /\ Len(t) = Len(s) + 1 /\ Len(s) \in Nat
  BY <1>2
<1>4. \A k \in 1..Len(s) : t[k] = s[k]
  BY <1>2
<1>5. t[Len(s) + 1] = e
  BY <1>2
<1>6. IsSeq(t)
  BY <1>3, OwnRange
<1> QED
  BY <1>3, <1>4, <1>5, <1>6

LEMMA FieldsFacts ==
  ASSUME request \in Requests
  PROVE  IsSeq(Fields) /\ Len(Fields) \in Nat /\ 1 <= Len(Fields)
<1> DEFINE single == [request.single EXCEPT !.path = NoPath, !.url = request.url, !.hint = NoHint]
<1>1. CASE request.fields # <<>>
  <2>1. Fields = request.fields
    BY <1>1 DEF Fields
  <2>2. request.fields \in Seq({request.fields[k] : k \in DOMAIN request.fields})
    BY GuestAssumption DEF IsSeq
  <2>3. Len(request.fields) \in Nat /\ Len(request.fields) # 0
    BY <1>1, <2>2
  <2> QED
    BY <2>1, <2>2, <2>3 DEF IsSeq
<1>2. CASE request.fields = <<>>
  <2>1. Fields = <<single>>
    BY <1>2 DEF Fields
  <2>2. IsSeq(<<single>>) /\ Len(<<single>>) = 1
    BY DEF IsSeq
  <2> QED
    BY <2>1, <2>2
<1> QED
  BY <1>1, <1>2

-----------------------------------------------------------------------------
(* The source of a field *)

\* The page a field is read from is determined by the page key alone: sessions of
\* one id have one prefix, and the first of them is taken.
LEMMA SourceUnique ==
  ASSUME sessions \in SessionLists,
         NEW n1, NEW m1, NEW f1, IsSource(n1, m1, f1),
         NEW n2, NEW m2, NEW f2, IsSource(n2, m2, f2),
         PageKey(n1, f1) = PageKey(n2, f2)
  PROVE  n1 = n2 /\ m1 = m2
<1>1. sessions[n1].id = sessions[n2].id /\ UrlOf(f1) = UrlOf(f2)
  BY DEF PageKey
<1>2. Len(sessions) \in Nat
  BY GuestAssumption, SeqFacts
<1>3. IsSessionOf(n1, f1) /\ IsSessionOf(n2, f2)
  BY DEF IsSource
<1>4. n1 \in 1..Len(sessions) /\ n2 \in 1..Len(sessions)
  BY <1>3 DEF IsSessionOf
<1>5. ~(n1 < n2)
  BY <1>1, <1>2, <1>3, <1>4 DEF IsSessionOf
<1>6. ~(n2 < n1)
  BY <1>1, <1>2, <1>3, <1>4 DEF IsSessionOf
<1>7. n1 = n2
  BY <1>2, <1>4, <1>5, <1>6
<1> DEFINE pages == sessions[n1].pages
<1>8. Len(pages) \in Nat
  BY <1>4, GuestAssumption, SeqFacts
<1>9. IsPageOf(m1, pages, UrlOf(f1)) /\ IsPageOf(m2, pages, UrlOf(f1))
  BY <1>1, <1>7 DEF IsSource
<1> HIDE DEF pages
<1>10. ASSUME NEW paths, First(m1, pages, paths), First(m2, pages, paths)
       PROVE  m1 = m2
  BY <1>8, <1>10 DEF First
<1>11. ASSUME NEW paths, NEW m, First(m, pages, {UrlOf(f1).path})
       PROVE  ~ \A k \in 1..Len(pages) : pages[k].path # UrlOf(f1).path
  BY <1>11 DEF First
<1>12. m1 = m2
  BY <1>9, <1>10, <1>11 DEF IsPageOf
<1> QED
  BY <1>7, <1>12

\* What is computed from the inputs does not change.
LEMMA Stable ==
  ASSUME UNCHANGED inputs
  PROVE  /\ Fields' = Fields
         /\ \A n, m, f : IsSource(n, m, f)' <=> IsSource(n, m, f)
         /\ \A n, f : PageKey(n, f)' = PageKey(n, f)
         /\ \A pg : Rooted(pg)' <=> Rooted(pg)
         /\ \A n, f, pg : Header(n, f, pg)' = Header(n, f, pg)
         /\ \A r, f : Attested(r, f)' <=> Attested(r, f)
<1> USE DEF inputs
<1>1. Fields' = Fields
  BY DEF Fields
<1>2. \A f : UrlOf(f)' = UrlOf(f)
  BY DEF UrlOf
<1>3. \A n, f : IsSessionOf(n, f)' <=> IsSessionOf(n, f)
  BY DEF IsSessionOf
<1>4. \A n, m, f : IsSource(n, m, f)' <=> IsSource(n, m, f)
  BY <1>2, <1>3 DEF IsSource
<1>5. \A n, f : PageKey(n, f)' = PageKey(n, f)
  BY <1>2 DEF PageKey
<1>6. \A pg : Rooted(pg)' <=> Rooted(pg)
  BY DEF Rooted
<1>7. \A n, f, pg : Result(n, f, pg)' = Result(n, f, pg)
  BY <1>2 DEF Result
<1>8. \A n, f, pg : Header(n, f, pg)' = Header(n, f, pg)
  BY <1>7 DEF Header
<1>9. \A r, f : Attested(r, f)' <=> Attested(r, f)
  BY <1>4, <1>6, <1>7 DEF Attested
<1> QED
  BY <1>1, <1>4, <1>5, <1>6, <1>8, <1>9

-----------------------------------------------------------------------------
(* The inductive invariant *)

InputsInv == sessions \in SessionLists /\ request \in Requests

ProgressInv ==
  /\ TypeOK
  /\ IsSeq(results)
  /\ stage = "salt" => i = 1

Page(n, m) == sessions[n].pages[m]

\* A trusted leaf is one that the root vouched for under its keyid.
TrustedInv ==
  \A id \in DOMAIN trusted :
    \E k \in 1..Len(registry) :
      /\ registry[k].rootSigned
      /\ registry[k].keyid = id
      /\ registry[k].leaf = trusted[id]

\* A verified page key names a page whose signature holds.
VerifiedInv ==
  \A n \in 1..Len(sessions) : \A m \in 1..Len(sessions[n].pages) : \A f :
    IsSource(n, m, f) /\ PageKey(n, f) \in verified => Rooted(Page(n, m))

\* What the checks passed so far say of the page the current field is read from.
Passed(pg) ==
  /\ stage # "digest" => DigestHolds(pg)
  /\ stage = "signature" => pg.keyid \in DOMAIN trusted
  /\ stage \in {"extract", "predicate"} => Rooted(pg)
  /\ stage = "predicate" => Bound(Fields[i], pg)

PassedInv ==
  stage \notin {"salt", "locate", "commit"} =>
    \A n \in 1..Len(sessions) : \A m \in 1..Len(sessions[n].pages) :
      IsSource(n, m, Fields[i]) => Passed(Page(n, m))

\* The journal is empty until it is committed, from the results and a header taken
\* from the source of the first field.
JournalInv ==
  IF status = "committed"
  THEN /\ stage = "commit"
       /\ \E n \in 1..Len(sessions) : \E m \in 1..Len(sessions[n].pages) :
            /\ IsSource(n, m, Fields[1])
            /\ journal = [header |-> <<Header(n, Fields[1], Page(n, m))>>, results |-> results]
  ELSE journal = NoJournal

IInv ==
  /\ InputsInv
  /\ ProgressInv
  /\ TrustedInv
  /\ VerifiedInv
  /\ PassedInv
  /\ JournalSound
  /\ JournalInv

LEMMA InitInv ==
  ASSUME Init
  PROVE  IInv
<1> USE DEF Init
<1>1. InputsInv
  BY DEF InputsInv
<1>2. ProgressInv
  <2>1. Len(Fields) \in Nat /\ 1 <= Len(Fields)
    BY FieldsFacts
  <2>2. TypeOK
    BY <2>1 DEF TypeOK, Stages
  <2> QED
    BY <2>2 DEF ProgressInv, IsSeq
<1>3. TrustedInv
  BY DEF TrustedInv
<1>4. VerifiedInv
  BY DEF VerifiedInv
<1>5. PassedInv
  BY DEF PassedInv
<1>6. JournalSound
  BY DEF JournalSound
<1>7. JournalInv
  BY DEF JournalInv
<1> QED
  BY <1>1, <1>2, <1>3, <1>4, <1>5, <1>6, <1>7 DEF IInv

-----------------------------------------------------------------------------
(* Steps that leave parts of the state alone *)

LEMMA InputsKept ==
  ASSUME InputsInv, UNCHANGED inputs
  PROVE  InputsInv'
  BY DEF InputsInv, inputs

LEMMA CachesKept ==
  ASSUME TrustedInv, VerifiedInv, UNCHANGED inputs, UNCHANGED caches
  PROVE  TrustedInv' /\ VerifiedInv'
<1>1. TrustedInv'
  BY DEF TrustedInv, inputs, caches
<1>2. VerifiedInv'
  BY Stable DEF VerifiedInv, Page, inputs, caches
<1> QED
  BY <1>1, <1>2

LEMMA ResultsKept ==
  ASSUME JournalSound, UNCHANGED inputs, UNCHANGED results
  PROVE  JournalSound'
  BY Stable DEF JournalSound, inputs

\* Only the last step publishes anything.
LEMMA NothingPublished ==
  ASSUME JournalInv, status = "running", status' # "committed", UNCHANGED journal
  PROVE  JournalInv'
  BY DEF JournalInv

LEMMA PanicStep ==
  ASSUME IInv, status = "running", Panic
  PROVE  IInv'
<1> USE DEF Panic
<1>1. UNCHANGED inputs /\ UNCHANGED caches /\ UNCHANGED results
  OBVIOUS
<1>2. InputsInv'
  BY <1>1, InputsKept DEF IInv
<1>3. ProgressInv'
  BY Stable DEF IInv, ProgressInv, TypeOK
<1>4. TrustedInv' /\ VerifiedInv'
  BY <1>1, CachesKept DEF IInv
<1>5. PassedInv'
  <2>1. \A pg : Passed(pg) => Passed(pg)'
    BY Stable DEF Passed, caches
  <2> QED
    BY <2>1, Stable DEF IInv, PassedInv, Page, inputs
<1>6. JournalSound'
  BY <1>1, ResultsKept DEF IInv
<1>7. JournalInv'
  BY NothingPublished DEF IInv
<1> QED
  BY <1>2, <1>3, <1>4, <1>5, <1>6, <1>7 DEF IInv

-----------------------------------------------------------------------------
(* Steps of the run *)

\* A check that passes changes the stage only, and with it what PassedInv says.
LEMMA PassStep ==
  ASSUME IInv, status = "running", UNCHANGED <<inputs, status, journal>>,
         UNCHANGED <<i, caches, results>>,
         stage' \in Stages \ {"salt", "commit"},
         i <= Len(Fields),
         PassedInv'
  PROVE  IInv'
<1>1. UNCHANGED inputs /\ UNCHANGED caches /\ UNCHANGED results
  OBVIOUS
<1>2. InputsInv'
  BY <1>1, InputsKept DEF IInv
<1>3. ProgressInv'
  BY Stable DEF IInv, ProgressInv, TypeOK, Stages
<1>4. TrustedInv' /\ VerifiedInv'
  BY <1>1, CachesKept DEF IInv
<1>5. JournalSound'
  BY <1>1, ResultsKept DEF IInv
<1>6. JournalInv'
  BY NothingPublished DEF IInv
<1> QED
  BY <1>2, <1>3, <1>4, <1>5, <1>6 DEF IInv

LEMMA ReadSaltStep ==
  ASSUME IInv, status = "running", ReadSalt
  PROVE  IInv'
<1>1. CASE Panic
  BY <1>1, PanicStep
<1>2. CASE stage = "salt" /\ Goto("locate") /\ UNCHANGED <<i, caches, results>>
  <2>1. stage' = "locate"
    BY <1>2 DEF Goto
  <2>2. i <= Len(Fields)
    BY <1>2, FieldsFacts DEF IInv, ProgressInv, InputsInv
  <2>3. PassedInv'
    BY <2>1 DEF PassedInv
  <2> QED
    BY <1>2, <2>1, <2>2, <2>3, PassStep DEF Goto, Stages
<1> QED
  BY <1>1, <1>2 DEF ReadSalt

LEMMA LocateStep ==
  ASSUME IInv, status = "running", Locate
  PROVE  IInv'
<1>1. CASE Panic
  BY <1>1, PanicStep
<1>2. CASE stage = "locate" /\ Goto("digest") /\ UNCHANGED <<i, caches, results>>
  <2>1. stage' = "digest"
    BY <1>2 DEF Goto
  <2>2. i <= Len(Fields)
    BY <1>2 DEF IInv, ProgressInv, TypeOK
  <2>3. PassedInv'
    BY <2>1 DEF PassedInv, Passed
  <2> QED
    BY <1>2, <2>1, <2>2, <2>3, PassStep DEF Goto, Stages
<1> QED
  BY <1>1, <1>2 DEF Locate

\* A field is read from one page: the guest and the header agree on it.
LEMMA SameSource ==
  ASSUME InputsInv,
         NEW f, NEW n, NEW m, IsSource(n, m, f), NEW n1, NEW m1, IsSource(n1, m1, f)
  PROVE  n1 = n /\ m1 = m
<1>1. IsSessionOf(n, f) /\ IsSessionOf(n1, f)
  BY DEF IsSource
<1>2. n1 \in 1..Len(sessions) /\ n \in 1..Len(sessions) /\ Len(sessions) \in Nat
  BY <1>1, GuestAssumption, SeqFacts DEF IsSessionOf, InputsInv
<1>3. n1 = n
  BY <1>1, <1>2 DEF IsSessionOf
<1>4. PageKey(n1, f) = PageKey(n, f)
  BY <1>3
<1> QED
  BY <1>4, SourceUnique DEF InputsInv

\* The step of a check reads the one page its field is read from.
LEMMA OnePage ==
  ASSUME InputsInv, UNCHANGED inputs, UNCHANGED i,
         NEW n, NEW m, IsSource(n, m, Fields[i]),
         Passed(Page(n, m))'
  PROVE  PassedInv'
<1>1. \A n1, m1 : IsSource(n1, m1, Fields[i]) => n1 = n /\ m1 = m
  BY SameSource
<1>2. \A n1, m1 : IsSource(n1, m1, Fields[i])' <=> IsSource(n1, m1, Fields[i])
  BY Stable
<1> QED
  BY <1>1, <1>2 DEF PassedInv

LEMMA CheckDigestStep ==
  ASSUME IInv, status = "running", NEW n \in 1..Len(sessions),
         NEW m \in 1..Len(sessions[n].pages), i \in 1..Len(Fields),
         IsSource(n, m, Fields[i]), CheckDigest(Page(n, m))
  PROVE  IInv'
<1>1. CASE Panic
  BY <1>1, PanicStep
<1>2. CASE /\ DigestHolds(Page(n, m)) /\ Goto("key")
           /\ UNCHANGED <<i, caches, results>>
  <2>1. UNCHANGED inputs /\ stage' = "key" /\ Page(n, m)' = Page(n, m)
    BY <1>2 DEF Goto, Page, inputs
  <2>2. Passed(Page(n, m))'
    BY <1>2, <2>1 DEF Passed, DigestHolds
  <2>3. PassedInv'
    BY <1>2, <2>1, <2>2, OnePage DEF IInv
  <2> QED
    BY <1>2, <2>1, <2>3, FieldsFacts, PassStep DEF Goto, Stages, IInv, InputsInv
<1> QED
  BY <1>1, <1>2 DEF CheckDigest

\* The first entry the root signed for a keyid gives the leaf its pages are checked under.
LEMMA ResolveKeyStep ==
  ASSUME IInv, status = "running", NEW n \in 1..Len(sessions),
         NEW m \in 1..Len(sessions[n].pages), i \in 1..Len(Fields),
         IsSource(n, m, Fields[i]), ResolveKey(Page(n, m))
  PROVE  IInv'
<1> DEFINE pg == Page(n, m)
<1>1. CASE Panic
  BY <1>1, PanicStep
<1>2. CASE /\ stage = "key" /\ pg.keyid \in DOMAIN trusted
           /\ Goto("signature") /\ UNCHANGED <<i, caches, results>>
  <2>1. UNCHANGED inputs /\ stage' = "signature" /\ UNCHANGED trusted /\ pg' = pg
    BY <1>2 DEF Goto, Page, inputs, caches
  <2>2. DigestHolds(pg)
    BY <1>2 DEF IInv, PassedInv, Passed
  <2>3. Passed(pg)'
    BY <1>2, <2>1, <2>2 DEF Passed, DigestHolds
  <2>4. PassedInv'
    BY <1>2, <2>1, <2>3, OnePage DEF IInv
  <2> QED
    BY <1>2, <2>1, <2>4, FieldsFacts, PassStep DEF Goto, Stages, IInv, InputsInv
<1>3. CASE /\ stage = "key" /\ pg.keyid \notin DOMAIN trusted
           /\ \E k \in 1..Len(registry) :
                /\ IsEntryOf(registry[k], pg)
                /\ Vouches(registry[k], pg)
                /\ trusted' = [id \in DOMAIN trusted \cup {pg.keyid} |->
                                 IF id = pg.keyid THEN registry[k].leaf ELSE trusted[id]]
           /\ Goto("signature") /\ UNCHANGED <<i, verified, results>>
  <2>1. UNCHANGED inputs /\ stage' = "signature" /\ pg' = pg
    BY <1>3 DEF Goto, Page, inputs
  <2>2. PICK k \in 1..Len(registry) :
          /\ IsEntryOf(registry[k], pg)
          /\ Vouches(registry[k], pg)
          /\ trusted' = [id \in DOMAIN trusted \cup {pg.keyid} |->
                           IF id = pg.keyid THEN registry[k].leaf ELSE trusted[id]]
    BY <1>3
  <2>3. registry[k].keyid = pg.keyid /\ registry[k].rootSigned
    BY <2>2 DEF IsEntryOf, Vouches
  <2>4. TrustedInv'
    BY <2>1, <2>2, <2>3 DEF IInv, TrustedInv, inputs
  <2>5. VerifiedInv'
    BY <1>3, <2>1, Stable DEF IInv, VerifiedInv, Page, inputs
  <2>6. DigestHolds(pg)
    BY <1>3 DEF IInv, PassedInv, Passed
  <2>7. Passed(pg)'
    BY <2>1, <2>2, <2>6 DEF Passed, DigestHolds
  <2>8. PassedInv'
    BY <1>3, <2>1, <2>7, OnePage DEF IInv
  <2>9. ProgressInv'
    BY <1>3, <2>1, Stable, FieldsFacts DEF IInv, InputsInv, ProgressInv, TypeOK, Stages, Goto
  <2>10. InputsInv'
    BY <2>1, InputsKept DEF IInv
  <2>11. JournalSound'
    BY <1>3, <2>1, ResultsKept DEF IInv
  <2>12. JournalInv'
    BY <1>3, NothingPublished DEF IInv, Goto
  <2> QED
    BY <2>4, <2>5, <2>8, <2>9, <2>10, <2>11, <2>12 DEF IInv
<1> QED
  BY <1>1, <1>2, <1>3 DEF ResolveKey

\* A signature holds under a leaf of the cache, which the root vouched for.
LEMMA RootedByCache ==
  ASSUME TrustedInv, NEW pg, pg.keyid \in DOMAIN trusted,
         SignatureHolds(trusted[pg.keyid], pg)
  PROVE  Rooted(pg)
  BY DEF TrustedInv, Rooted

LEMMA CheckSignatureStep ==
  ASSUME IInv, status = "running", NEW n \in 1..Len(sessions),
         NEW m \in 1..Len(sessions[n].pages), i \in 1..Len(Fields),
         IsSource(n, m, Fields[i]), CheckSignature(n, Page(n, m))
  PROVE  IInv'
<1> DEFINE pg == Page(n, m)
           key == PageKey(n, Fields[i])
<1>1. CASE Panic
  BY <1>1, PanicStep
<1>2. CASE /\ stage = "signature"
           /\ key \in verified \/ SignatureHolds(trusted[pg.keyid], pg)
           /\ verified' = verified \cup {key}
           /\ Goto("extract")
           /\ UNCHANGED <<i, trusted, results>>
  <2>1. UNCHANGED inputs /\ stage' = "extract" /\ pg' = pg
    BY <1>2 DEF Goto, Page, inputs
  <2>2. DigestHolds(pg) /\ pg.keyid \in DOMAIN trusted
    BY <1>2 DEF IInv, PassedInv, Passed
  <2>3. Rooted(pg)
    BY <1>2, <2>2, RootedByCache DEF IInv, VerifiedInv
  <2>4. Passed(pg)'
    <3>1. Rooted(pg)'
      BY <2>1, <2>3, Stable
    <3> QED
      BY <2>1, <2>2, <3>1 DEF Passed, DigestHolds
  <2>5. PassedInv'
    BY <1>2, <2>1, <2>4, OnePage DEF IInv
  <2>6. VerifiedInv'
    <3>1. ASSUME NEW n1 \in 1..Len(sessions), NEW m1 \in 1..Len(sessions[n1].pages), NEW f1,
                 IsSource(n1, m1, f1), PageKey(n1, f1) \in verified \cup {key}
          PROVE  Rooted(Page(n1, m1))
      <4>1. CASE PageKey(n1, f1) \in verified
        BY <3>1, <4>1 DEF IInv, VerifiedInv
      <4>2. CASE PageKey(n1, f1) = key
        <5>1. n1 = n /\ m1 = m
          BY <3>1, <4>2, SourceUnique DEF IInv, InputsInv
        <5> QED
          BY <2>3, <5>1
      <4> QED
        BY <3>1, <4>1, <4>2
    <3> QED
      BY <1>2, <2>1, <3>1, Stable DEF VerifiedInv, Page, inputs
  <2>7. TrustedInv'
    BY <1>2, <2>1 DEF IInv, TrustedInv, inputs
  <2>8. ProgressInv'
    BY <1>2, <2>1, Stable, FieldsFacts DEF IInv, InputsInv, ProgressInv, TypeOK, Stages, Goto
  <2>9. InputsInv'
    BY <2>1, InputsKept DEF IInv
  <2>10. JournalSound'
    BY <1>2, <2>1, ResultsKept DEF IInv
  <2>11. JournalInv'
    BY <1>2, NothingPublished DEF IInv, Goto
  <2> QED
    BY <2>5, <2>6, <2>7, <2>8, <2>9, <2>10, <2>11 DEF IInv
<1> QED
  BY <1>1, <1>2 DEF CheckSignature

LEMMA ExtractFieldStep ==
  ASSUME IInv, status = "running", NEW n \in 1..Len(sessions),
         NEW m \in 1..Len(sessions[n].pages), i \in 1..Len(Fields),
         IsSource(n, m, Fields[i]), ExtractField(Page(n, m))
  PROVE  IInv'
<1> DEFINE pg == Page(n, m)
<1>1. CASE Panic
  BY <1>1, PanicStep
<1>2. CASE /\ stage = "extract"
           /\ Bound(Fields[i], pg) /\ Goto("predicate")
           /\ UNCHANGED <<i, caches, results>>
  <2>1. UNCHANGED inputs /\ UNCHANGED i /\ stage' = "predicate" /\ pg' = pg
    BY <1>2 DEF Goto, Page, inputs
  <2>2. DigestHolds(pg) /\ Rooted(pg)
    BY <1>2 DEF IInv, PassedInv, Passed
  <2>3. Passed(pg)'
    <3>1. Rooted(pg)' /\ Fields' = Fields
      BY <2>1, <2>2, Stable
    <3>2. Bound(Fields[i], pg)'
      BY <1>2, <2>1, <3>1 DEF Bound, Value
    <3>3. DigestHolds(pg)'
      BY <2>1, <2>2 DEF DigestHolds
    <3> QED
      BY <2>1, <3>1, <3>2, <3>3 DEF Passed
  <2>4. PassedInv'
    BY <1>2, <2>1, <2>3, OnePage DEF IInv
  <2> QED
    BY <1>2, <2>1, <2>4, FieldsFacts, PassStep DEF Goto, Stages, IInv, InputsInv
<1> QED
  BY <1>1, <1>2 DEF ExtractField

\* A true predicate completes the result of field i; everything it says was checked.
LEMMA EvaluatePredicateStep ==
  ASSUME IInv, status = "running", NEW n \in 1..Len(sessions),
         NEW m \in 1..Len(sessions[n].pages), i \in 1..Len(Fields),
         IsSource(n, m, Fields[i]), EvaluatePredicate(n, Page(n, m))
  PROVE  IInv'
<1> DEFINE pg == Page(n, m)
           r == Result(n, Fields[i], pg)
<1>1. CASE Panic
  BY <1>1, PanicStep
<1>2. CASE /\ stage = "predicate"
           /\ PredicateHolds(Fields[i], pg)
           /\ results' = Append(results, r)
           /\ i' = i + 1
           /\ Goto(AfterField)
           /\ UNCHANGED caches
  <2>1. UNCHANGED inputs /\ UNCHANGED caches /\ stage' = AfterField
    BY <1>2 DEF Goto, inputs
  <2>2. Len(Fields) \in Nat /\ Fields' = Fields
    BY <2>1, FieldsFacts, Stable DEF IInv, InputsInv
  <2>3. IsSeq(results) /\ Len(results) = i - 1
    BY DEF IInv, ProgressInv, TypeOK
  <2>4. /\ IsSeq(results') /\ Len(results') = i
        /\ \A k \in 1..Len(results) : results'[k] = results[k]
        /\ results'[i] = r
    <3> HIDE DEF r
    <3> QED
      BY <1>2, <2>2, <2>3, AppendFacts
  <2>5. InputsInv'
    BY <2>1, InputsKept DEF IInv
  <2>6. ProgressInv'
    BY <1>2, <2>1, <2>2, <2>4 DEF IInv, ProgressInv, TypeOK, Stages, Goto, AfterField
  <2>7. TrustedInv' /\ VerifiedInv'
    BY <2>1, CachesKept DEF IInv
  <2>8. PassedInv'
    BY <2>1 DEF PassedInv, AfterField
  <2>9. Attested(r, Fields[i])
    <3>1. DigestHolds(pg) /\ Rooted(pg) /\ Bound(Fields[i], pg)
      BY <1>2 DEF IInv, PassedInv, Passed
    <3> QED
      BY <1>2, <3>1 DEF Attested, Page
  <2>10. JournalSound'
    <3> HIDE DEF r
    <3>1. \A j \in 1..Len(results') : Attested(results'[j], Fields[j])
      <4>1. \A j \in 1..Len(results') : j \in 1..Len(results) \/ j = i
        BY <2>2, <2>3, <2>4
      <4> QED
        BY <2>4, <2>9, <4>1 DEF IInv, JournalSound
    <3> QED
      BY <2>1, <2>2, <3>1, Stable DEF JournalSound
  <2>11. JournalInv'
    BY <1>2, NothingPublished DEF IInv, Goto
  <2> QED
    BY <2>5, <2>6, <2>7, <2>8, <2>10, <2>11 DEF IInv
<1> QED
  BY <1>1, <1>2 DEF EvaluatePredicate

LEMMA CommitStep ==
  ASSUME IInv, status = "running", Commit
  PROVE  IInv'
<1> USE DEF Commit
<1>1. UNCHANGED inputs /\ UNCHANGED caches /\ UNCHANGED results
  OBVIOUS
<1>2. InputsInv'
  BY <1>1, InputsKept DEF IInv
<1>3. ProgressInv'
  BY <1>1, Stable DEF IInv, ProgressInv, TypeOK
<1>4. TrustedInv' /\ VerifiedInv'
  BY <1>1, CachesKept DEF IInv
<1>5. PassedInv'
  BY DEF PassedInv
<1>6. JournalSound'
  BY <1>1, ResultsKept DEF IInv
<1>7. JournalInv'
  <2>1. PICK n \in 1..Len(sessions) : \E m \in 1..Len(sessions[n].pages) :
          /\ IsSource(n, m, Fields[1])
          /\ journal' = [header |-> <<Header(n, Fields[1], Page(n, m))>>, results |-> results]
    BY DEF HeaderField, Page
  <2>2. PICK m \in 1..Len(sessions[n].pages) :
          /\ IsSource(n, m, Fields[1])
          /\ journal' = [header |-> <<Header(n, Fields[1], Page(n, m))>>, results |-> results]
    BY <2>1
  <2>3. Fields' = Fields /\ Page(n, m)' = Page(n, m) /\ sessions' = sessions
    BY <1>1, Stable DEF Page, inputs
  <2>4. IsSource(n, m, Fields[1])'
    BY <1>1, <2>2, <2>3, Stable
  <2>5. journal' = [header |-> <<Header(n, Fields[1], Page(n, m))'>>, results |-> results']
    BY <1>1, <2>2, <2>3, Stable
  <2> QED
    BY <2>3, <2>4, <2>5 DEF JournalInv
<1> QED
  BY <1>2, <1>3, <1>4, <1>5, <1>6, <1>7 DEF IInv

LEMMA FieldStepStep ==
  ASSUME IInv, status = "running", FieldStep
  PROVE  IInv'
<1>1. PICK n \in 1..Len(sessions) : \E m \in 1..Len(sessions[n].pages) :
        /\ i \in 1..Len(Fields)
        /\ IsSource(n, m, Fields[i])
        /\ \/ CheckDigest(Page(n, m))
           \/ ResolveKey(Page(n, m))
           \/ CheckSignature(n, Page(n, m))
           \/ ExtractField(Page(n, m))
           \/ EvaluatePredicate(n, Page(n, m))
  BY DEF FieldStep, Page
<1>2. PICK m \in 1..Len(sessions[n].pages) :
        /\ i \in 1..Len(Fields)
        /\ IsSource(n, m, Fields[i])
        /\ \/ CheckDigest(Page(n, m))
           \/ ResolveKey(Page(n, m))
           \/ CheckSignature(n, Page(n, m))
           \/ ExtractField(Page(n, m))
           \/ EvaluatePredicate(n, Page(n, m))
  BY <1>1
<1>3. CASE CheckDigest(Page(n, m))
  BY <1>2, <1>3, CheckDigestStep
<1>4. CASE ResolveKey(Page(n, m))
  BY <1>2, <1>4, ResolveKeyStep
<1>5. CASE CheckSignature(n, Page(n, m))
  BY <1>2, <1>5, CheckSignatureStep
<1>6. CASE ExtractField(Page(n, m))
  BY <1>2, <1>6, ExtractFieldStep
<1>7. CASE EvaluatePredicate(n, Page(n, m))
  BY <1>2, <1>7, EvaluatePredicateStep
<1> QED
  BY <1>2, <1>3, <1>4, <1>5, <1>6, <1>7

LEMMA StutterStep ==
  ASSUME IInv, UNCHANGED vars
  PROVE  IInv'
<1> USE DEF vars
<1>1. UNCHANGED inputs /\ UNCHANGED caches /\ UNCHANGED results
  OBVIOUS
<1>2. InputsInv'
  BY <1>1, InputsKept DEF IInv
<1>3. ProgressInv'
  BY <1>1, Stable DEF IInv, ProgressInv, TypeOK
<1>4. TrustedInv' /\ VerifiedInv'
  BY <1>1, CachesKept DEF IInv
<1>5. PassedInv'
  <2>1. \A pg : Passed(pg) => Passed(pg)'
    BY <1>1, Stable DEF Passed, caches
  <2> QED
    BY <1>1, <2>1, Stable DEF IInv, PassedInv, Page, inputs
<1>6. JournalSound'
  BY <1>1, ResultsKept DEF IInv
<1>7. JournalInv'
  <2>1. \A n, m : Page(n, m)' = Page(n, m) /\ sessions' = sessions
    BY DEF Page, inputs
  <2> QED
    BY <1>1, <2>1, Stable DEF IInv, JournalInv
<1> QED
  BY <1>2, <1>3, <1>4, <1>5, <1>6, <1>7 DEF IInv

LEMMA NextInv ==
  ASSUME IInv, [Next]_vars
  PROVE  IInv'
<1>1. CASE UNCHANGED vars
  BY <1>1, StutterStep
<1>2. CASE status = "running" /\ Step
  BY <1>2, ReadSaltStep, LocateStep, FieldStepStep, CommitStep DEF Step
<1> QED
  BY <1>1, <1>2 DEF Next

-----------------------------------------------------------------------------
(* Theorems *)

THEOREM Invariance == Spec => []IInv
<1>1. Init => IInv
  BY InitInv
<1>2. IInv /\ [Next]_vars => IInv'
  BY NextInv
<1> QED
  BY <1>1, <1>2, PTL DEF Spec

\* Type correctness for every number of sessions, pages, fields and entries: the
\* field loop never runs past the request (main.rs 52).
THEOREM TypeCorrect == Spec => []TypeOK
<1>1. IInv => TypeOK
  BY DEF IInv, ProgressInv
<1> QED
  BY <1>1, Invariance, PTL

\* Every result is attested by the page it was read from, although keys and
\* signatures are checked for the first field that meets them only (main.rs 120, 157).
THEOREM ResultsAttested == Spec => []JournalSound
<1>1. IInv => JournalSound
  BY DEF IInv
<1> QED
  BY <1>1, Invariance, PTL

\* What is committed is complete and its header is the first result's; an aborted run
\* publishes nothing (main.rs 230-272).
THEOREM CommitComplete == Spec => []AllOrNothing
<1>1. ASSUME IInv
      PROVE  AllOrNothing
  <2>1. CASE status # "committed"
    BY <1>1, <2>1 DEF IInv, JournalInv, AllOrNothing
  <2>2. CASE status = "committed"
    <3>1. PICK n \in 1..Len(sessions) : \E m \in 1..Len(sessions[n].pages) :
            /\ IsSource(n, m, Fields[1])
            /\ journal = [header |-> <<Header(n, Fields[1], Page(n, m))>>, results |-> results]
      BY <1>1, <2>2 DEF IInv, JournalInv
    <3>2. PICK m \in 1..Len(sessions[n].pages) :
            /\ IsSource(n, m, Fields[1])
            /\ journal = [header |-> <<Header(n, Fields[1], Page(n, m))>>, results |-> results]
      BY <3>1
    <3>3. Len(Fields) \in Nat /\ 1 <= Len(Fields)
      BY <1>1, FieldsFacts DEF IInv, InputsInv
    <3>4. stage = "commit"
      BY <1>1, <2>2 DEF IInv, JournalInv
    <3>5. Len(results) = Len(Fields)
      BY <1>1, <3>3, <3>4 DEF IInv, ProgressInv, TypeOK
    <3>6. \A j \in 1..Len(Fields) : Attested(results[j], Fields[j])
      BY <1>1, <3>5 DEF IInv, JournalSound
    <3>7. PICK n1 \in 1..Len(sessions) : \E m1 \in 1..Len(sessions[n1].pages) :
            /\ IsSource(n1, m1, Fields[1])
            /\ results[1] = Result(n1, Fields[1], Page(n1, m1))
      <4>1. 1 \in 1..Len(Fields)
        BY <3>3
      <4>2. Attested(results[1], Fields[1])
        BY <3>6, <4>1
      <4> QED
        BY <4>2 DEF Attested, Page
    <3>8. PICK m1 \in 1..Len(sessions[n1].pages) :
            /\ IsSource(n1, m1, Fields[1])
            /\ results[1] = Result(n1, Fields[1], Page(n1, m1))
      BY <3>7
    <3>9. n1 = n /\ m1 = m
      BY <1>1, <3>2, <3>8, SameSource DEF IInv
    <3>10. Header(n, Fields[1], Page(n, m)).result = results[1]
      BY <3>8, <3>9 DEF Header
    <3> QED
      BY <2>2, <3>2, <3>5, <3>6, <3>10 DEF AllOrNothing
  <2> QED
    BY <2>1, <2>2
<1> QED
  BY <1>1, Invariance, PTL

-----------------------------------------------------------------------------
(* The authority of the first use of a key *)

Reading == {"signature", "extract", "predicate"}

\* The pages field i is read from have a trusted leaf.
KeyKnown ==
  \A n \in 1..Len(sessions) : \A m \in 1..Len(sessions[n].pages) :
    IsSource(n, m, Fields[i]) => Page(n, m).keyid \in DOMAIN trusted

\* The entry that let a keyid in names the authority of the page that is being read.
Covers(id, pg) ==
  /\ pg.keyid = id
  /\ \E k \in 1..Len(registry) :
       registry[k].rootSigned /\ registry[k].keyid = id /\ registry[k].domain = pg.authority

Brought(id) ==
  \E n \in 1..Len(sessions) : \E m \in 1..Len(sessions[n].pages) :
    IsSource(n, m, Fields[i]) /\ Covers(id, Page(n, m))

\* A keyid in the cache has a result, or is that of the page being read.
CoverInv ==
  /\ FirstUseCovered
  /\ stage \in Reading => KeyKnown
  /\ \A id \in DOMAIN trusted :
       (\E j \in 1..Len(results) : results[j].anchor = id) \/ (stage \in Reading /\ Brought(id))

LEMMA StableReading ==
  ASSUME UNCHANGED inputs, UNCHANGED i
  PROVE  /\ UNCHANGED trusted => KeyKnown' = KeyKnown
         /\ \A id : Brought(id)' = Brought(id)
         /\ \A r, e : CoveredBy(e, r)' = CoveredBy(e, r)
<1>1. \A n, m, f : IsSource(n, m, f)' <=> IsSource(n, m, f)
  BY Stable
<1>2. Fields' = Fields /\ (\A n, m : Page(n, m)' = Page(n, m)) /\ sessions' = sessions
  BY Stable DEF Page, inputs
<1>3. \A id, pg : Covers(id, pg)' <=> Covers(id, pg)
  BY DEF Covers, inputs
<1>4. UNCHANGED trusted => KeyKnown' = KeyKnown
  BY <1>1, <1>2 DEF KeyKnown
<1>5. \A id : Brought(id)' = Brought(id)
  BY <1>1, <1>2, <1>3 DEF Brought
<1> QED
  BY <1>4, <1>5 DEF CoveredBy

\* A step that adds neither key nor result.
LEMMA CoverKept ==
  ASSUME CoverInv, UNCHANGED <<inputs, i, trusted, results>>,
         stage \in Reading => stage' \in Reading,
         stage' \in Reading => KeyKnown
  PROVE  CoverInv'
<1>1. FirstUseCovered'
  BY StableReading DEF CoverInv, FirstUseCovered, CoveredBy, inputs
<1>2. stage' \in Reading => KeyKnown'
  BY StableReading
<1>3. \A id : Brought(id) => Brought(id)'
  BY StableReading
<1> QED
  BY <1>1, <1>2, <1>3 DEF CoverInv

LEMMA KnownHere ==
  ASSUME InputsInv, NEW n, NEW m, IsSource(n, m, Fields[i]),
         Page(n, m).keyid \in DOMAIN trusted
  PROVE  KeyKnown
  BY SameSource DEF KeyKnown

LEMMA CoverResolve ==
  ASSUME IInv, CoverInv, NEW n \in 1..Len(sessions), NEW m \in 1..Len(sessions[n].pages),
         IsSource(n, m, Fields[i]), ResolveKey(Page(n, m))
  PROVE  CoverInv'
<1> DEFINE pg == Page(n, m)
<1>1. CASE Panic
  BY <1>1, CoverKept DEF Panic, CoverInv, caches
<1>2. CASE /\ stage = "key" /\ pg.keyid \in DOMAIN trusted
           /\ Goto("signature") /\ UNCHANGED <<i, caches, results>>
  BY <1>2, KnownHere, CoverKept DEF Goto, caches, Reading, IInv
<1>3. CASE /\ stage = "key" /\ pg.keyid \notin DOMAIN trusted
           /\ \E k \in 1..Len(registry) :
                /\ IsEntryOf(registry[k], pg)
                /\ Vouches(registry[k], pg)
                /\ trusted' = [id \in DOMAIN trusted \cup {pg.keyid} |->
                                 IF id = pg.keyid THEN registry[k].leaf ELSE trusted[id]]
           /\ Goto("signature") /\ UNCHANGED <<i, verified, results>>
  <2>1. UNCHANGED inputs /\ UNCHANGED i /\ stage' = "signature" /\ UNCHANGED results
    BY <1>3 DEF Goto
  <2> PICK key : key = pg.keyid
    OBVIOUS
  <2>2. DOMAIN trusted' = DOMAIN trusted \cup {key}
    BY <1>3
  <2>3. Brought(key)'
    <3>1. Covers(key, pg)
      BY <1>3 DEF Covers, IsEntryOf, Vouches
    <3>2. Brought(key)
      BY <3>1 DEF Brought
    <3> QED
      BY <2>1, <3>2, StableReading
  <2>4. FirstUseCovered'
    BY <2>1, StableReading DEF CoverInv, FirstUseCovered, CoveredBy, inputs
  <2>5. KeyKnown'
    <3>1. \A n1, m1 : IsSource(n1, m1, Fields[i])' => n1 = n /\ m1 = m
      BY <2>1, Stable, SameSource DEF IInv
    <3>2. Page(n, m)' = pg
      BY <2>1 DEF Page, inputs
    <3> QED
      BY <2>2, <3>1, <3>2 DEF KeyKnown
  <2>6. \A id \in DOMAIN trusted : \E j \in 1..Len(results) : results[j].anchor = id
    BY <1>3 DEF CoverInv, Reading
  <2> QED
    <3>1. \A id \in DOMAIN trusted :
            (\E j \in 1..Len(results) : results[j].anchor = id)'
      BY <2>1, <2>6
    <3> QED
      BY <2>1, <2>2, <2>3, <2>4, <2>5, <3>1 DEF CoverInv, Reading
<1> QED
  BY <1>1, <1>2, <1>3 DEF ResolveKey

LEMMA CoverEvaluate ==
  ASSUME IInv, CoverInv, NEW n \in 1..Len(sessions), NEW m \in 1..Len(sessions[n].pages),
         i \in 1..Len(Fields), IsSource(n, m, Fields[i]), EvaluatePredicate(n, Page(n, m))
  PROVE  CoverInv'
<1> DEFINE pg == Page(n, m)
           r == Result(n, Fields[i], pg)
<1>1. CASE Panic
  BY <1>1, CoverKept DEF Panic, CoverInv, caches
<1>2. CASE /\ stage = "predicate"
           /\ results' = Append(results, r)
           /\ Goto(AfterField)
           /\ UNCHANGED caches
  <2>1. UNCHANGED inputs /\ UNCHANGED trusted /\ stage' \notin Reading
    BY <1>2 DEF Goto, inputs, caches, AfterField, Reading
  <2>2. r.anchor = pg.keyid /\ r.domain = pg.authority
    BY DEF Result
  <2>3. IsSeq(results) /\ Len(results) \in Nat
    BY SeqFacts DEF IInv, ProgressInv
  <2>4. /\ Len(results') = Len(results) + 1
        /\ \A k \in 1..Len(results) : results'[k] = results[k]
        /\ results'[Len(results) + 1] = r
    <3> HIDE DEF r
    <3> QED
      BY <1>2, <2>3, AppendFacts
  <2> HIDE DEF r
  <2>5. pg.keyid \in DOMAIN trusted
    BY <1>2 DEF CoverInv, KeyKnown, Reading
  <2>6. \A id : Brought(id) => id = pg.keyid /\ Covers(id, pg)
    <3>1. \A n1, m1 : IsSource(n1, m1, Fields[i]) => n1 = n /\ m1 = m
      BY SameSource DEF IInv
    <3> QED
      BY <3>1 DEF Brought, Covers
  <2>7. \A id \in DOMAIN trusted' : \E j \in 1..Len(results') : results'[j].anchor = id
    <3>1. SUFFICES ASSUME NEW id \in DOMAIN trusted
          PROVE  \E j \in 1..Len(results') : results'[j].anchor = id
      BY <2>1
    <3>2. CASE Brought(id)
      BY <2>2, <2>3, <2>4, <2>6, <3>2
    <3>3. CASE \E j \in 1..Len(results) : results[j].anchor = id
      BY <2>3, <2>4, <3>3
    <3> QED
      BY <3>2, <3>3 DEF CoverInv
  <2>8. FirstUseCovered'
    <3>1. SUFFICES ASSUME NEW j \in 1..Len(results'),
                          \A k \in 1..(j - 1) : results'[k].anchor # results'[j].anchor
          PROVE  \E k \in 1..Len(registry) : CoveredBy(registry[k], results'[j])
      BY <2>1 DEF FirstUseCovered, CoveredBy, inputs
    <3>2. CASE j \in 1..Len(results)
      <4>1. \A k \in 1..(j - 1) : results[k].anchor # results[j].anchor
        BY <2>3, <2>4, <3>1, <3>2
      <4> QED
        BY <2>4, <3>2, <4>1 DEF CoverInv, FirstUseCovered
    <3>3. CASE j = Len(results) + 1
      <4>1. \A k \in 1..Len(results) : results[k].anchor # pg.keyid
        BY <2>2, <2>3, <2>4, <3>1, <3>3
      <4>2. Covers(pg.keyid, pg)
        BY <2>5, <2>6, <4>1 DEF CoverInv
      <4> QED
        BY <2>2, <2>4, <3>3, <4>2 DEF Covers, CoveredBy
    <3> QED
      BY <2>3, <2>4, <3>2, <3>3
  <2> QED
    BY <2>1, <2>7, <2>8 DEF CoverInv
<1> QED
  BY <1>1, <1>2 DEF EvaluatePredicate

LEMMA CoverNext ==
  ASSUME IInv, CoverInv, [Next]_vars
  PROVE  CoverInv'
<1>1. CASE UNCHANGED vars
  BY <1>1, CoverKept DEF vars, CoverInv, caches
<1>2. CASE ReadSalt
  BY <1>2, CoverKept DEF ReadSalt, Goto, Panic, CoverInv, caches, Reading
<1>3. CASE Locate
  BY <1>3, CoverKept DEF Locate, Goto, Panic, CoverInv, caches, Reading
<1>4. CASE Commit
  BY <1>4, CoverKept DEF Commit, CoverInv, caches
<1>5. CASE FieldStep
  <2>1. PICK n \in 1..Len(sessions) : \E m \in 1..Len(sessions[n].pages) :
          /\ i \in 1..Len(Fields) /\ IsSource(n, m, Fields[i])
          /\ \/ CheckDigest(Page(n, m)) \/ ResolveKey(Page(n, m)) \/ CheckSignature(n, Page(n, m))
             \/ ExtractField(Page(n, m)) \/ EvaluatePredicate(n, Page(n, m))
    BY <1>5 DEF FieldStep, Page
  <2>2. PICK m \in 1..Len(sessions[n].pages) :
          /\ i \in 1..Len(Fields) /\ IsSource(n, m, Fields[i])
          /\ \/ CheckDigest(Page(n, m)) \/ ResolveKey(Page(n, m)) \/ CheckSignature(n, Page(n, m))
             \/ ExtractField(Page(n, m)) \/ EvaluatePredicate(n, Page(n, m))
    BY <2>1
  <2>3. CASE CheckDigest(Page(n, m))
    BY <2>3, CoverKept DEF CheckDigest, Goto, Panic, CoverInv, caches, Reading
  <2>4. CASE CheckSignature(n, Page(n, m))
    BY <2>4, CoverKept DEF CheckSignature, Goto, Panic, CoverInv, caches, Reading
  <2>5. CASE ExtractField(Page(n, m))
    BY <2>5, CoverKept DEF ExtractField, Goto, Panic, CoverInv, caches, Reading
  <2> QED
    BY <2>2, <2>3, <2>4, <2>5, CoverResolve, CoverEvaluate
<1> QED
  BY <1>1, <1>2, <1>3, <1>4, <1>5 DEF Next, Step

\* Whatever pages, registries and requests: the first result under a keyid comes from
\* the authority its entry names (main.rs 147-152); later ones need not (120).
THEOREM FirstUseIsCovered == Spec => []FirstUseCovered
<1>1. Init => CoverInv
  BY DEF Init, CoverInv, FirstUseCovered, Reading
<1>2. IInv /\ CoverInv /\ [Next]_vars => CoverInv'
  BY CoverNext
<1>3. CoverInv => FirstUseCovered
  BY DEF CoverInv
<1> QED
  BY <1>1, <1>2, <1>3, Invariance, PTL DEF Spec

-----------------------------------------------------------------------------
(* Origins *)

\* Origins sign the URI of what they serve: never none, never the bare root that
\* stands for none in the guest's base (sign_page.lua 67-69).
UrisSigned ==
  \A ss \in SessionLists : \A n \in 1..Len(ss) : \A m \in 1..Len(ss[n].pages) :
    ss[n].pages[m].sig.over.uri \notin {NoUri, RootUri}

\* The provenance of a result is the signed one, if origins sign URIs: a page whose
\* header is missing fails its signature instead of lending its URL (main.rs 226-228).
THEOREM ProvenanceIsSigned == ASSUME UrisSigned PROVE Spec => []ProvenanceSigned
<1>1. ASSUME IInv
      PROVE  ProvenanceSigned
  <2>1. SUFFICES ASSUME NEW j \in 1..Len(results)
        PROVE  \E n \in 1..Len(sessions) : \E m \in 1..Len(sessions[n].pages) :
                 /\ IsSource(n, m, Fields[j])
                 /\ LET signed == sessions[n].pages[m].sig.over IN
                    /\ results[j].url = signed.uri
                    /\ results[j].domain = signed.authority
                    /\ results[j].anchor = signed.keyid
    BY DEF ProvenanceSigned
  <2>2. Attested(results[j], Fields[j])
    BY <1>1 DEF IInv, JournalSound
  <2>session. PICK n \in 1..Len(sessions) : \E m \in 1..Len(sessions[n].pages) :
          /\ IsSource(n, m, Fields[j])
          /\ Rooted(Page(n, m))
          /\ results[j] = Result(n, Fields[j], Page(n, m))
    BY <2>2 DEF Attested, Page
  <2>3. PICK m \in 1..Len(sessions[n].pages) :
          /\ IsSource(n, m, Fields[j])
          /\ Rooted(Page(n, m))
          /\ results[j] = Result(n, Fields[j], Page(n, m))
    BY <2>session
  <2> DEFINE pg == Page(n, m)
  <2>4. pg.sig.over = Base(pg)
    BY <2>3 DEF Rooted, SignatureHolds, Verify
  <2>5. pg.sig.over.uri \notin {NoUri, RootUri}
    BY <1>1, UrisSigned DEF UrisSigned, Page, IInv, InputsInv
  <2>6. pg.uri # NoUri /\ pg.sig.over.uri = pg.uri
    BY <2>4, <2>5 DEF Base
  <2>7. pg.sig.over.authority = pg.authority /\ pg.sig.over.keyid = pg.keyid
    BY <2>4 DEF Base
  <2>8. results[j].url = pg.uri /\ results[j].domain = pg.authority /\ results[j].anchor = pg.keyid
    BY <2>3, <2>6 DEF Result
  <2> QED
    BY <2>3, <2>6, <2>7, <2>8 DEF Page
<1> QED
  BY <1>1, Invariance, PTL

\* An abort at the digest or the signature has a page that failed the check.
AbortInv ==
  /\ status = "aborted" /\ stage = "digest" =>
       \E n \in 1..Len(sessions) : \E m \in 1..Len(sessions[n].pages) : ~DigestHolds(Page(n, m))
  /\ status = "aborted" /\ stage = "signature" =>
       \E n \in 1..Len(sessions) : \E m \in 1..Len(sessions[n].pages) :
         /\ Page(n, m).keyid \in DOMAIN trusted
         /\ ~SignatureHolds(trusted[Page(n, m).keyid], Page(n, m))

LEMMA AbortNext ==
  ASSUME IInv, AbortInv, [Next]_vars
  PROVE  AbortInv'
<1>1. CASE UNCHANGED vars
  BY <1>1 DEF vars, AbortInv, Page, inputs, caches
<1>2. CASE status' # "aborted"
  BY <1>2 DEF AbortInv
<1>3. CASE stage \notin {"digest", "signature"} /\ Panic
  BY <1>3 DEF Panic, AbortInv
<1>4. CASE status = "running" /\ FieldStep
  <2>1. PICK n \in 1..Len(sessions) : \E m \in 1..Len(sessions[n].pages) :
          /\ i \in 1..Len(Fields) /\ IsSource(n, m, Fields[i])
          /\ \/ CheckDigest(Page(n, m)) \/ ResolveKey(Page(n, m)) \/ CheckSignature(n, Page(n, m))
             \/ ExtractField(Page(n, m)) \/ EvaluatePredicate(n, Page(n, m))
    BY <1>4 DEF FieldStep, Page
  <2>2. PICK m \in 1..Len(sessions[n].pages) :
          /\ i \in 1..Len(Fields) /\ IsSource(n, m, Fields[i])
          /\ \/ CheckDigest(Page(n, m)) \/ ResolveKey(Page(n, m)) \/ CheckSignature(n, Page(n, m))
             \/ ExtractField(Page(n, m)) \/ EvaluatePredicate(n, Page(n, m))
    BY <2>1
  <2>3. CASE CheckDigest(Page(n, m))
    <3>1. CASE stage = "digest" /\ ~DigestHolds(Page(n, m)) /\ Panic
      BY <3>1 DEF Panic, AbortInv, Page, inputs
    <3> QED
      BY <1>2, <1>4, <2>3, <3>1 DEF CheckDigest, Goto
  <2>4. CASE CheckSignature(n, Page(n, m))
    <3>1. CASE /\ stage = "signature" /\ Panic
               /\ ~SignatureHolds(trusted[Page(n, m).keyid], Page(n, m))
      <4>1. Page(n, m).keyid \in DOMAIN trusted
        BY <2>2, <3>1 DEF IInv, PassedInv, Passed
      <4> QED
        BY <3>1, <4>1 DEF Panic, AbortInv, Page, inputs, caches
    <3> QED
      BY <1>2, <1>4, <2>4, <3>1 DEF CheckSignature, Goto
  <2>5. CASE ResolveKey(Page(n, m))
    BY <1>2, <1>3, <1>4, <2>5 DEF ResolveKey, Goto
  <2>6. CASE ExtractField(Page(n, m))
    BY <1>2, <1>3, <1>4, <2>6 DEF ExtractField, Goto
  <2>7. CASE EvaluatePredicate(n, Page(n, m))
    BY <1>2, <1>3, <1>4, <2>7 DEF EvaluatePredicate, Goto
  <2> QED
    BY <2>2, <2>3, <2>4, <2>5, <2>6, <2>7
<1>5. CASE status = "running" /\ ReadSalt
  BY <1>2, <1>3, <1>5 DEF ReadSalt, Goto
<1>6. CASE status = "running" /\ Locate
  BY <1>2, <1>3, <1>6 DEF Locate, Goto
<1>7. CASE status = "running" /\ Commit
  BY <1>2, <1>7 DEF Commit
<1> QED
  BY <1>1, <1>4, <1>5, <1>6, <1>7 DEF Next, Step

\* An honest capture passes the digest and the signature check, if origins sign URIs:
\* the leaf in the cache is the one entry's, and the guest's base is the origin's.
THEOREM HonestAccepted == ASSUME UrisSigned PROVE Spec => []HonestNotRejected
<1>1. Init => AbortInv
  BY DEF Init, AbortInv
<1>2. IInv /\ AbortInv /\ [Next]_vars => AbortInv'
  BY AbortNext
<1>3. ASSUME IInv, AbortInv
      PROVE  HonestNotRejected
  <2>1. SUFFICES ASSUME HonestInputs, status = "aborted", stage \in {"digest", "signature"}
        PROVE  FALSE
    BY DEF HonestNotRejected
  <2>2. CASE stage = "digest"
    BY <1>3, <2>1, <2>2 DEF AbortInv, HonestInputs, Page
  <2>3. CASE stage = "signature"
    <3>session. PICK n \in 1..Len(sessions) : \E m \in 1..Len(sessions[n].pages) :
             /\ Page(n, m).keyid \in DOMAIN trusted
             /\ ~SignatureHolds(trusted[Page(n, m).keyid], Page(n, m))
      BY <1>3, <2>1, <2>3 DEF AbortInv
    <3>1. PICK m \in 1..Len(sessions[n].pages) :
            /\ Page(n, m).keyid \in DOMAIN trusted
            /\ ~SignatureHolds(trusted[Page(n, m).keyid], Page(n, m))
      BY <3>session
    <3> DEFINE pg == Page(n, m)
    <3>2. PICK k \in 1..Len(registry) :
            registry[k].keyid = pg.keyid /\ Verify(registry[k].leaf, OriginBase(pg), pg.sig)
      BY <2>1 DEF HonestInputs, Page
    <3>3. pg.full
      BY <2>1 DEF HonestInputs, Page
    <3>4. PICK j \in 1..Len(registry) :
            registry[j].keyid = pg.keyid /\ registry[j].leaf = trusted[pg.keyid]
      BY <1>3, <3>1 DEF IInv, TrustedInv
    <3>5. \A a \in 1..Len(registry) : \A b \in 1..(a - 1) : registry[b].keyid # registry[a].keyid
      BY <2>1 DEF HonestInputs
    <3>6. j = k
      BY <3>2, <3>4, <3>5
    <3>7. pg.sig.over.uri \notin {NoUri, RootUri}
      BY <1>3, UrisSigned DEF UrisSigned, Page, IInv, InputsInv
    <3>8. pg.sig.over = OriginBase(pg) /\ pg.sig.over.uri = pg.uri
      BY <3>2 DEF Verify, OriginBase
    <3>9. Base(pg) = OriginBase(pg)
      BY <3>3, <3>7, <3>8 DEF Base, OriginBase
    <3> QED
      BY <3>1, <3>2, <3>3, <3>4, <3>6, <3>9 DEF SignatureHolds
  <2> QED
    BY <2>1, <2>2, <2>3
<1> QED
  BY <1>1, <1>2, <1>3, Invariance, PTL DEF Spec

-----------------------------------------------------------------------------
(* Verification *)

Words == 0..255

\* A hexadecimal digit has the value of its place among the digits.
LEMMA HexDigit ==
  ASSUME NEW d \in 0..15
  PROVE  HexNames[d + 1] \in DOMAIN HexValue /\ HexValue[HexNames[d + 1]] = d
<1>1. \A n \in 0..15 : HexNames[n + 1] = HexNames[d + 1] => n = d
  BY SMTT(60) DEF HexNames
<1>2. d + 1 \in 1..16 /\ HexNames[d + 1] \in {HexNames[k] : k \in 1..16}
  OBVIOUS
<1> HIDE DEF HexNames
<1>3. HexValue[HexNames[d + 1]] = CHOOSE n \in 0..15 : HexNames[n + 1] = HexNames[d + 1]
  BY <1>2 DEF HexValue
<1>4. (CHOOSE n \in 0..15 : HexNames[n + 1] = HexNames[d + 1]) = d
  BY <1>1
<1> QED
  BY <1>2, <1>3, <1>4 DEF HexValue

\* A word is read back from its two digits.
LEMMA WordReadBack ==
  ASSUME NEW w \in Words
  PROVE  16 * HexValue[HexNames[(w \div 16) + 1]] + HexValue[HexNames[(w % 16) + 1]] = w
<1>1. w \div 16 \in 0..15 /\ w % 16 \in 0..15 /\ w = 16 * (w \div 16) + (w % 16)
  BY DEF Words
<1> QED
  BY <1>1, HexDigit

\* The image id that a file or the service names is the one risc0-verifier reads.
LEMMA ImageReadBack ==
  ASSUME NEW id \in Seq(Words), Len(id) = Len(GuestId)
  PROVE  HexToImageId(ImageHex(id)) = id
<1> DEFINE hex == ImageHex(id)
<1>1. Len(id) \in Nat /\ DOMAIN id = 1..Len(id) /\ \A n \in 1..Len(id) : id[n] \in Words
  OBVIOUS
<1>2. DOMAIN hex = 1..(2 * Len(id)) /\ Len(hex) = 2 * Len(id)
  BY <1>1 DEF ImageHex
<1>3. ASSUME NEW n \in 1..Len(id)
      PROVE  /\ hex[2 * n - 1] = HexNames[(id[n] \div 16) + 1]
             /\ hex[2 * n] = HexNames[(id[n] % 16) + 1]
  <2>1. 2 * n - 1 \in 1..(2 * Len(id)) /\ 2 * n \in 1..(2 * Len(id))
    BY <1>1
  <2>2. /\ ((2 * n - 1) + 1) \div 2 = n /\ (2 * n - 1) % 2 = 1
        /\ (2 * n + 1) \div 2 = n /\ (2 * n) % 2 # 1
    BY <1>1
  <2> QED
    BY <2>1, <2>2 DEF ImageHex
<1>4. \A n \in 1..Len(id) : 16 * HexValue[hex[2 * n - 1]] + HexValue[hex[2 * n]] = id[n]
  BY <1>1, <1>3, WordReadBack
<1> HIDE DEF hex
<1>5. HexToImageId(hex) = [n \in 1..Len(id) |-> 16 * HexValue[hex[2 * n - 1]] + HexValue[hex[2 * n]]]
  BY <1>2 DEF HexToImageId
<1>6. HexToImageId(hex) = [n \in 1..Len(id) |-> id[n]]
  BY <1>4, <1>5
<1> QED
  BY <1>1, <1>6 DEF hex

\* The statements of a complete journal, one for each field.
LEMMA StatementsPerField ==
  ASSUME NEW j, IsSeq(j.results)
  PROVE  Len(Statements(j)) = Len(j.results)
<1>1. DOMAIN j.results = 1..Len(j.results) /\ Len(j.results) \in Nat
  BY SeqFacts
<1> QED
  BY <1>1 DEF Statements

\* What gps-host answers to the file of a proof of the guest, and to its bare seal.
LEMMA HostAnswers ==
  ASSUME NEW j, NEW proving \in BOOLEAN, NEW verifying \in BOOLEAN,
         NEW file, file = BuildOutputJson(Proved(j, proving), proving)
  PROVE  /\ RunVerify(file, verifying) =
              IF proving => verifying
              THEN [valid |-> TRUE, statements |-> Statements(j), marked |-> proving]
              ELSE Refused
         /\ RunVerify(Bare(file), verifying).valid <=> RunVerify(file, verifying).valid
<1>1. file.seal = Proved(j, proving) /\ MarkOf(file) = proving
  BY DEF BuildOutputJson, MarkOf
<1>2. Verifies(Proved(j, proving), GuestId, verifying) <=> (proving => verifying)
  BY DEF Verifies, Proved
<1>3. Proved(j, proving).journal = j
  BY DEF Proved
<1>4. Bare(file).seal = file.seal
  BY DEF Bare
<1> QED
  BY <1>1, <1>2, <1>3, <1>4 DEF RunVerify, VerifyAgainst, Refused

\* risc0-verifier, asked for no program, for the guest by the name the service gives or
\* for the program the file names, answers what gps-host does.
LEMMA VerifierAnswers ==
  ASSUME NEW j, NEW proving \in BOOLEAN, NEW verifying \in BOOLEAN,
         NEW file, file = BuildOutputJson(Proved(j, proving), proving),
         NEW asked \in {NoId, ServiceId, file.image_id}
  PROVE  Risc0Verifier(file, asked, verifying) = RunVerify(file, verifying)
<1>1. "image_id" \in DOMAIN file /\ file.image_id = ImageHex(GuestId)
  BY DEF BuildOutputJson, Proved
<1>2. HexToImageId(ImageHex(GuestId)) = GuestId
  BY ImageReadBack, VerifiersAssumption DEF Words
<1>3. asked = NoId \/ asked = ImageHex(GuestId)
  BY <1>1 DEF ServiceId
<1> QED
  BY <1>1, <1>2, <1>3 DEF Risc0Verifier, RunVerify

\* The proof of another program is refused by gps-host, and accepted by
\* risc0-verifier when asked for that program.
LEMMA ForeignAnswers ==
  ASSUME NEW j, NEW proving \in BOOLEAN, NEW verifying \in BOOLEAN,
         NEW foreign,
         foreign = BuildOutputJson([Proved(j, proving) EXCEPT !.image = Another], proving)
  PROVE  /\ ~RunVerify(foreign, verifying).valid
         /\ Risc0Verifier(foreign, foreign.image_id, verifying) =
              IF proving => verifying
              THEN [valid |-> TRUE, statements |-> Statements(j), marked |-> proving]
              ELSE Refused
<1> DEFINE receipt == [Proved(j, proving) EXCEPT !.image = Another]
<1>1. /\ receipt.image = Another /\ receipt.journal = j
      /\ receipt.kind = "stark" <=> ~proving
  BY DEF Proved
<1> HIDE DEF receipt
<1>2. /\ foreign.seal = receipt /\ MarkOf(foreign) = proving
      /\ "image_id" \in DOMAIN foreign /\ foreign.image_id = ImageHex(Another)
  BY <1>1 DEF BuildOutputJson, MarkOf, receipt
<1>3. HexToImageId(ImageHex(Another)) = Another
  BY ImageReadBack, AnotherAssumption DEF Words
<1>4. ImageHex(Another) # NoId
  <2>1. Len(GuestId) \in Nat /\ Len(GuestId) # 0
    BY VerifiersAssumption
  <2>2. 1 \in DOMAIN ImageHex(Another)
    BY <2>1, AnotherAssumption DEF ImageHex
  <2> QED
    BY <2>2 DEF NoId
<1>5. ~RunVerify(foreign, verifying).valid
  BY <1>1, <1>2, AnotherAssumption DEF RunVerify, VerifyAgainst, Verifies, Refused
<1>6. Verifies(receipt, Another, verifying) <=> (proving => verifying)
  BY <1>1 DEF Verifies
<1>7. Risc0Verifier(foreign, foreign.image_id, verifying) = VerifyAgainst(foreign, Another, verifying)
  BY <1>2, <1>3, <1>4 DEF Risc0Verifier
<1> QED
  BY <1>1, <1>2, <1>5, <1>6, <1>7 DEF VerifyAgainst

\* The page calls a proof verified exactly when the service is there and says so.
LEMMA PageRepeats ==
  ASSUME NEW file, NEW reachable \in BOOLEAN, NEW answer, answer.valid \in BOOLEAN, NEW known
  PROVE  PageVerdict(file, reachable, answer, known) = "verified" <=> reachable /\ answer.valid
  BY DEF PageVerdict

\* Whatever was committed, all ways of verifying its proof without RISC0_DEV_MODE give
\* one answer, which refuses a proof made in dev mode.
THEOREM VerifiersNeverDiffer == Spec => []VerifiersAgree
<1>1. ASSUME IInv, AllOrNothing
      PROVE  VerifiersAgree
  <2> SUFFICES ASSUME status = "committed", NEW proving \in BOOLEAN
               PROVE  LET receipt == Proved(journal, proving)
                          file    == BuildOutputJson(receipt, proving)
                          foreign == BuildOutputJson([receipt EXCEPT !.image = Another], proving)
                          answer  == RunVerify(file, FALSE)
                      IN /\ answer.valid <=> ~proving
                         /\ answer.valid => /\ answer.statements = Statements(journal)
                                            /\ Len(answer.statements) = Len(Fields)
                                            /\ ~answer.marked
                         /\ VerifyServe(file, FALSE) = answer
                         /\ \A asked \in {NoId, ServiceId, file.image_id} :
                              Risc0Verifier(file, asked, FALSE) = answer
                         /\ RunVerify(Bare(file), FALSE).valid <=> answer.valid
                         /\ ~RunVerify(foreign, FALSE).valid
                         /\ Risc0Verifier(foreign, foreign.image_id, FALSE) = answer
                         /\ \A reachable \in BOOLEAN :
                              PageVerdict(file, reachable, answer, {ServiceId}) = "verified" <=>
                                reachable /\ answer.valid
    BY Zenon DEF VerifiersAgree
  <2> DEFINE receipt == Proved(journal, proving)
             file    == BuildOutputJson(receipt, proving)
             foreign == BuildOutputJson([receipt EXCEPT !.image = Another], proving)
             answer  == RunVerify(file, FALSE)
  <2>1. IsSeq(journal.results) /\ Len(journal.results) = Len(Fields)
    <3>1. PICK n \in 1..Len(sessions) : \E m \in 1..Len(sessions[n].pages) :
            journal = [header |-> <<Header(n, Fields[1], Page(n, m))>>, results |-> results]
      BY <1>1 DEF IInv, JournalInv
    <3>2. journal.results = results
      BY <3>1
    <3> QED
      BY <1>1, <3>2 DEF IInv, ProgressInv, AllOrNothing
  <2>2. Len(Statements(journal)) = Len(Fields)
    BY <2>1, StatementsPerField
  <2>3. /\ proving => answer = Refused
        /\ ~proving => answer =
             [valid |-> TRUE, statements |-> Statements(journal), marked |-> FALSE]
    BY HostAnswers
  <2> HIDE DEF answer
  <2>4. /\ answer.valid \in BOOLEAN /\ (answer.valid <=> ~proving)
        /\ answer.valid => answer.statements = Statements(journal)
        /\ answer.valid => ~answer.marked
    <3>1. proving => answer.valid = FALSE
      BY <2>3 DEF Refused
    <3>2. ~proving => answer.valid = TRUE
      BY <2>3
    <3>3. ~proving => answer.statements = Statements(journal)
      BY <2>3
    <3>4. ~proving => answer.marked = FALSE
      BY <2>3
    <3> QED
      BY <3>1, <3>2, <3>3, <3>4, Zenon
  <2> USE DEF answer
  <2>5. VerifyServe(file, FALSE) = answer
    BY DEF VerifyServe, RunVerify
  <2>6. \A asked \in {NoId, ServiceId, file.image_id} :
          Risc0Verifier(file, asked, FALSE) = answer
    BY VerifierAnswers
  <2>7. RunVerify(Bare(file), FALSE).valid <=> answer.valid
    BY HostAnswers
  <2>8. /\ ~RunVerify(foreign, FALSE).valid
        /\ Risc0Verifier(foreign, foreign.image_id, FALSE) = answer
    BY <2>3, ForeignAnswers
  <2>9. \A reachable \in BOOLEAN :
          PageVerdict(file, reachable, answer, {ServiceId}) = "verified" <=>
            reachable /\ answer.valid
    <3> HIDE DEF answer
    <3> QED
      BY <2>4, PageRepeats
  <2> HIDE DEF receipt, file, foreign, answer
  <2> QED
    BY <2>2, <2>4, <2>5, <2>6, <2>7, <2>8, <2>9 DEF receipt, file, foreign, answer
<1> QED
  BY <1>1, Invariance, CommitComplete, PTL
=============================================================================
