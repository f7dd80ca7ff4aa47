------------------------------ MODULE MCGuest ------------------------------
(***************************************************************************)
(* Small inputs for Guest: up to two sessions of up to two pages, up to    *)
(* two fields, two origins that share one signing key and one origin with  *)
(* a key of its own, and one kind of damage to a page at a time.  What a   *)
(* run commits is proved, written and verified (Verifiers).                *)
(***************************************************************************)
EXTENDS Guest, Verifiers, FiniteSets

CONSTANTS
  Damages,  \* the kinds of damage a captured page may show
  Another   \* the image id of a program that is not the guest

ASSUME AnotherAssumption ==
  Another \in Seq(0..255) /\ Len(Another) = Len(GuestId) /\ Another # GuestId

\* A session id is a pair <<prefix, rest>>.
MCPrefix(id) == id[1]

\* A body is <<field value or "none", tag>>; every rule reads the value.
MCExtract(body, rule) == IF body[1] = "none" THEN NoValue ELSE body[1]

\* A predicate is the set of values it is true of.
MCHolds(value, f, created) == value \in f.predicate

Signed(pg, leaf) == [pg EXCEPT !.sig = [key |-> leaf, over |-> OriginBase(pg)]]

Blank(path, authority, keyid, body) ==
  [path |-> path, method |-> "GET", authority |-> authority,
   uri |-> [host |-> authority, path |-> path], status |-> 200, digest |-> body,
   body |-> body, keyid |-> keyid, created |-> 5, full |-> TRUE, sig |-> "unsigned"]

Genuine == {
  Signed(Blank("/p", "a.org", "gps-nginx", <<"v", 1>>), "leafA"),
  Signed(Blank("/p", "b.org", "gps-nginx", <<"w", 2>>), "leafA"),
  Signed(Blank("/", "c.org", "key-c", <<"v", 3>>), "leafC"),
  Signed(Blank("", "a.org", "gps-nginx", <<"none", 4>>), "leafA")}

Damage(pg, kind) ==
  CASE kind = "none"      -> pg
    [] kind = "body"      -> [pg EXCEPT !.body = <<"v", 9>>]
    [] kind = "resealed"  -> [pg EXCEPT !.body = <<"v", 9>>, !.digest = <<"v", 9>>]
    [] kind = "wrong key" -> Signed(pg, "leafX")
    [] kind = "no uri"    -> [pg EXCEPT !.uri = NoUri]
    [] kind = "short base" -> [pg EXCEPT !.full = FALSE]
    [] kind = "undated"   -> Signed([pg EXCEPT !.created = NoTime], pg.sig.key)
    [] kind = "late"      -> Signed([pg EXCEPT !.created = 9], pg.sig.key)

PageSet == {Damage(pg, kind) : pg \in Genuine, kind \in Damages}

\* Two sessions: distinct, sharing a prefix, or the same id loaded twice; at most
\* one of their pages is damaged.
MCSessionLists ==
  LET S(id, pages) == [id |-> id, pages |-> pages]
      First1 == {<<p>> : p \in PageSet}
      First2 == {<<p, q>> : p \in Genuine, q \in PageSet}
      Damaged(ps) == {m \in DOMAIN ps : ps[m] \notin Genuine}
  IN {<<>>}
     \cup {<<S(<<"x", 1>>, pq[1]), S(id, pq[2])>> :
             pq \in {pq \in (First1 \cup First2) \X First1 :
                      Damaged(pq[1]) = {} \/ Damaged(pq[2]) = {}},
             id \in {<<"x", 1>>, <<"x", 2>>, <<"y", 1>>}}

EntryA == [keyid |-> "gps-nginx", domain |-> "a.org", leaf |-> "leafA",
           notAfter |-> 7, rootSigned |-> TRUE]
EntryC == [keyid |-> "key-c", domain |-> "c.org", leaf |-> "leafC",
           notAfter |-> 0, rootSigned |-> TRUE]
Unrooted == [EntryA EXCEPT !.rootSigned = FALSE]
EntryB == [EntryA EXCEPT !.domain = "b.org"]

MCRegistryLists == {<<EntryA, EntryC>>, <<EntryB, EntryA>>, <<Unrooted, EntryC>>}

Field(path, url, hint, predicate) ==
  [label |-> "l", rule |-> "r", path |-> path, url |-> url, hint |-> hint,
   predicate |-> predicate]

Url(path) == [path |-> path, query |-> "q"]

FieldSet == {
  Field(NoPath, NoUrl, NoHint, {"v", "w"}),
  Field({"x"}, Url("/p"), "v", {"v"}),
  Field({"y"}, Url("/p"), NoHint, {"v", "w"}),
  Field({"x", "y"}, Url("/"), NoHint, {"v"}),
  Field({"z"}, NoUrl, NoHint, {"v"})}

MCRequests ==
  {[fields |-> fs, single |-> Field(NoPath, NoUrl, NoHint, {"v"}), url |-> Url("/p"),
    salt |-> salt] :
     fs \in {<<>>} \cup {<<f>> : f \in FieldSet} \cup {<<f, g>> : f, g \in FieldSet},
     salt \in {"salted"}}
  \cup {[fields |-> <<>>, single |-> Field({"x"}, Url("/p"), "v", {"v"}), url |-> Url("/p"),
         salt |-> "malformed"]}

-----------------------------------------------------------------------------
(* Properties of verification *)

TheGuestId == <<18, 171>>
AnotherId  == <<171, 18>>

\* "Three equivalent ways" of verifying a proof (GUIDE.md 172), for who verifies
\* without RISC0_DEV_MODE: gps-host, its service and risc0-verifier give one answer,
\* which accepts what was proved, states what the guest committed and is unmarked, and
\* refuses a dev-mode proof (GUIDE.md 184); the id that a file or the service names in
\* hexadecimal is the id risc0-verifier reads, of a foreign program too.
VerifiersAgree ==
  status = "committed" =>
    \A proving \in BOOLEAN :
      LET receipt == Proved(journal, proving)
          file    == BuildOutputJson(receipt, proving)
          foreign == BuildOutputJson([receipt EXCEPT !.image = Another], proving)
          answer  == RunVerify(file, FALSE)
      IN /\ answer.valid <=> ~proving
         /\ answer.valid => /\ answer.statements = Statements(journal)
                            /\ Len(answer.statements) = Len(Fields)
                            /\ ~answer.marked
         /\ VerifyServe(file, FALSE) = answer
         /\ \A asked \in {NoId, ServiceId, file.image_id} :
              Risc0Verifier(file, asked, FALSE) = answer
         /\ RunVerify(Bare(file), FALSE).valid <=> answer.valid
         /\ ~RunVerify(foreign, FALSE).valid
         /\ Risc0Verifier(foreign, foreign.image_id, FALSE) = answer
         /\ \A reachable \in BOOLEAN :
              PageVerdict(file, reachable, answer, {ServiceId}) = "verified" <=>
                reachable /\ answer.valid

\* "A dev-mode proof is rejected here, dev receipts can never pass as real"
\* (GUIDE.md 184; risc0-verifier's main.rs 13 and verifier.html 468 say the same): in
\* whatever environment the verifier runs, none of the three calls it valid, its bare
\* seal neither, and the page never shows it as verified.
DevModeRejected ==
  status = "committed" =>
    LET file == BuildOutputJson(Proved(journal, TRUE), TRUE) IN
    \A verifying \in BOOLEAN :
      /\ ~RunVerify(file, verifying).valid
      /\ ~RunVerify(Bare(file), verifying).valid
      /\ ~Risc0Verifier(file, file.image_id, verifying).valid
      /\ \A reachable \in BOOLEAN :
           PageVerdict(file, reachable, VerifyServe(file, verifying), {ServiceId}) # "verified"
=============================================================================
