------------------------------- MODULE Guest -------------------------------
(***************************************************************************)
(* The zkVM guest (src/zkvm/methods/guest/src/main.rs): it reads the       *)
(* captured sessions, the proof request and the key registry, and either   *)
(* commits one journal or aborts.  A panic anywhere means no proof.        *)
(*                                                                         *)
(* The loop over the requested fields is a state machine: the stages below *)
(* follow the order of the checks in the source.  Two caches live across   *)
(* fields: trusted (a leaf key per keyid) and verified (pages whose        *)
(* signature was checked).                                                 *)
(*                                                                         *)
(* Cryptography is symbolic: a body is its own digest, and a signature is  *)
(* the pair of the key that made it and the base it was made over.         *)
(***************************************************************************)
EXTENDS Naturals, Sequences

CONSTANTS
  SessionLists,     \* the session files the host may pass, each a sequence
  RegistryLists,    \* the registries it may pass, each a sequence of entries
  Requests,         \* the proof requests it may pass
  RootPaths,        \* the spellings of the site root: "/" and ""
  RootUri,          \* "/", the @target-uri of a page without the header
  NoPath, NoUri, NoUrl, NoTime, NoHint, NoValue,  \* absent fields
  Prefix(_),        \* the first 8 characters of a session id
  Extract(_, _),    \* body, rule -> the value the extractor reads, or NoValue
  Holds(_, _, _)    \* value, field, created -> the predicate evaluates to true

IsSeq(s) == s \in Seq({s[k] : k \in DOMAIN s})

ASSUME GuestAssumption ==
  /\ \A ss \in SessionLists : IsSeq(ss) /\ \A n \in 1..Len(ss) : IsSeq(ss[n].pages)
  /\ \A r \in Requests : IsSeq(r.fields)

VARIABLES
  sessions, registry, request,  \* the inputs, read once
  stage,      \* the next check of the loop body
  i,          \* the field being proved
  trusted,    \* keyid -> leaf key the root vouched for
  verified,   \* page keys whose signature was verified
  results,    \* field_results so far
  status,     \* "running", "committed" or "aborted"
  journal     \* what env::commit publishes

inputs == <<sessions, registry, request>>
caches == <<trusted, verified>>
vars == <<inputs, stage, i, caches, results, status, journal>>

NoJournal == [header |-> <<>>, results |-> <<>>]

-----------------------------------------------------------------------------
(* The request *)

\* ProofRequest::all_fields: a request without a field list is one field that
\* names no session, no hint and no number format.
Fields ==
  IF request.fields # <<>> THEN request.fields
  ELSE <<[request.single EXCEPT !.path = NoPath, !.url = request.url, !.hint = NoHint]>>

\* A field without a URL of its own uses the request's.
UrlOf(f) == IF f.url # NoUrl THEN f.url ELSE request.url

\* n is the session field f is read from: the first whose id prefix occurs in
\* the session path, or the first of all when the field names none.
IsSessionOf(n, f) ==
  /\ n \in 1..Len(sessions)
  /\ IF f.path = NoPath THEN n = 1
     ELSE /\ Prefix(sessions[n].id) \in f.path
          /\ \A k \in 1..(n - 1) : Prefix(sessions[k].id) \notin f.path

First(m, pages, paths) ==
  /\ m \in 1..Len(pages)
  /\ pages[m].path \in paths
  /\ \A k \in 1..(m - 1) : pages[k].path \notin paths

\* m is the page find_target_page returns: the first whose path, without its
\* query, is the URL's, and for the root any spelling of it.
IsPageOf(m, pages, url) ==
  \/ First(m, pages, {url.path})
  \/ /\ url.path \in RootPaths
     /\ \A k \in 1..Len(pages) : pages[k].path # url.path
     /\ First(m, pages, RootPaths)

\* Field f is read from page m of session n.
IsSource(n, m, f) == IsSessionOf(n, f) /\ IsPageOf(m, sessions[n].pages, UrlOf(f))

\* Mutant: the page key is the URL alone.
PageKeyUrl(n, f) == UrlOf(f)

\* The page key of field f when session n is its source.
PageKey(n, f) == <<sessions[n].id, UrlOf(f)>>

-----------------------------------------------------------------------------
(* Cryptographic checks *)

\* Mutant: the target-URI header is not read.
BaseWithoutUri(pg) ==
  [method |-> pg.method, authority |-> pg.authority, uri |-> RootUri, status |-> pg.status,
   digest |-> pg.digest, keyid |-> pg.keyid, created |-> pg.created, full |-> pg.full]

\* build_full_signature_base: the signed components and the parameters.  The date
\* header, signed as well but read by nothing, is left out.
Base(pg) ==
  [method |-> pg.method, authority |-> pg.authority,
   uri |-> IF pg.uri # NoUri THEN pg.uri ELSE RootUri,
   status |-> pg.status, digest |-> pg.digest, keyid |-> pg.keyid, created |-> pg.created,
   full |-> pg.full]

Verify(key, base, sig) == sig = [key |-> key, over |-> base]

\* The Content-Digest header is the hash of the body.
DigestHolds(pg) == pg.digest = pg.body

\* Only the full base is accepted, under the given leaf key.
SignatureHolds(leaf, pg) == pg.full /\ Verify(leaf, Base(pg), pg.sig)

\* e is the first registry entry for the page's keyid.
IsEntryOf(e, pg) ==
  \E k \in 1..Len(registry) :
    /\ e = registry[k]
    /\ e.keyid = pg.keyid
    /\ \A j \in 1..(k - 1) : registry[j].keyid # pg.keyid

\* The entry's window is open when the page was signed; 0 means no expiry.
WindowOpen(e, pg) ==
  /\ pg.created # NoTime
  /\ e.notAfter > 0 => pg.created <= e.notAfter

\* Mutant: the expiry and authority of the entry are not compared with the page.
VouchesAnything(e, pg) == e.rootSigned

\* The root signed the entry, and it covers this page.
Vouches(e, pg) ==
  /\ e.rootSigned
  /\ WindowOpen(e, pg)
  /\ e.domain = pg.authority

-----------------------------------------------------------------------------
(* Field results *)

Value(f, pg) == Extract(pg.body, f.rule)

\* The predicate of field f is true of the extracted value, read at the signing time.
PredicateHolds(f, pg) == Holds(Value(f, pg), f, pg.created)

\* The extracted value exists and equals the host's hint, if the host gave one.
Bound(f, pg) ==
  /\ Value(f, pg) # NoValue
  /\ f.hint # NoHint => Value(f, pg) = f.hint

\* One FieldResult.  source_url is the signed target URI, or the requested URL
\* when the page carries no such header.
Result(n, f, pg) ==
  [label |-> f.label, rule |-> f.rule, predicate |-> f.predicate,
   domain |-> pg.authority,
   url |-> IF pg.uri # NoUri THEN pg.uri ELSE UrlOf(f),
   body |-> pg.body, scheme |-> request.salt, session |-> sessions[n].id,
   anchor |-> pg.keyid]

\* The single-field part of the journal, taken from the first field.
Header(n, f, pg) ==
  [result |-> Result(n, f, pg), timestamp |-> pg.created, method |-> pg.method]

-----------------------------------------------------------------------------
(* The run *)

\* A panic: no journal, and stage keeps the check that failed.
Panic ==
  /\ status' = "aborted"
  /\ UNCHANGED <<inputs, stage, i, caches, results, journal>>

Goto(next) ==
  /\ stage' = next
  /\ UNCHANGED <<inputs, status, journal>>

\* parse_salt: a malformed salt aborts before any field is read.
ReadSalt ==
  /\ stage = "salt"
  /\ \/ /\ request.salt # "malformed"
        /\ Goto("locate")
        /\ UNCHANGED <<i, caches, results>>
     \/ request.salt = "malformed" /\ Panic

\* Find the session and the page the field names.
Locate ==
  /\ stage = "locate"
  /\ \/ /\ \E n \in 1..Len(sessions) : \E m \in 1..Len(sessions[n].pages) :
             IsSource(n, m, Fields[i])
        /\ Goto("digest")
        /\ UNCHANGED <<i, caches, results>>
     \/ /\ ~ \E n \in 1..Len(sessions) : \E m \in 1..Len(sessions[n].pages) :
               IsSource(n, m, Fields[i])
        /\ Panic

\* Compare the body with its Content-Digest: for every field, cached page or not.
CheckDigest(pg) ==
  /\ stage = "digest"
  /\ \/ DigestHolds(pg) /\ Goto("key") /\ UNCHANGED <<i, caches, results>>
     \/ ~DigestHolds(pg) /\ Panic

\* Resolve the leaf key, once per keyid: a cached keyid is not looked at again.
ResolveKey(pg) ==
  /\ stage = "key"
  /\ \/ /\ pg.keyid \in DOMAIN trusted
        /\ Goto("signature")
        /\ UNCHANGED <<i, caches, results>>
     \/ /\ pg.keyid \notin DOMAIN trusted
        /\ \E k \in 1..Len(registry) :
             /\ IsEntryOf(registry[k], pg)
             /\ Vouches(registry[k], pg)
             /\ trusted' = [id \in DOMAIN trusted \cup {pg.keyid} |->
                              IF id = pg.keyid THEN registry[k].leaf ELSE trusted[id]]
        /\ Goto("signature")
        /\ UNCHANGED <<i, verified, results>>
     \/ /\ pg.keyid \notin DOMAIN trusted
        /\ ~ \E k \in 1..Len(registry) : IsEntryOf(registry[k], pg) /\ Vouches(registry[k], pg)
        /\ Panic

\* Verify the page's signature, once per page key.
CheckSignature(n, pg) ==
  /\ stage = "signature"
  /\ LET key == PageKey(n, Fields[i]) IN
     \/ /\ key \in verified \/ SignatureHolds(trusted[pg.keyid], pg)
        /\ verified' = verified \cup {key}
        /\ Goto("extract")
        /\ UNCHANGED <<i, trusted, results>>
     \/ /\ key \notin verified
        /\ ~SignatureHolds(trusted[pg.keyid], pg)
        /\ Panic

\* Require created, then run the extractor and compare its value with the hint.
ExtractField(pg) ==
  /\ stage = "extract"
  /\ \/ /\ pg.created # NoTime /\ Bound(Fields[i], pg)
        /\ Goto("predicate")
        /\ UNCHANGED <<i, caches, results>>
     \/ /\ pg.created = NoTime \/ ~Bound(Fields[i], pg)
        /\ Panic

\* Mutant: the loop bound is off by one.
AfterFieldInclusive == IF i <= Len(Fields) THEN "locate" ELSE "commit"

\* The stage after field i: the next field's, or the commit.
AfterField == IF i < Len(Fields) THEN "locate" ELSE "commit"

\* Evaluate the predicate; push the result of a true one and go on.
EvaluatePredicate(n, pg) ==
  /\ stage = "predicate"
  /\ LET f == Fields[i] IN
     \/ /\ PredicateHolds(f, pg)
        /\ results' = Append(results, Result(n, f, pg))
        /\ i' = i + 1
        /\ Goto(AfterField)
        /\ UNCHANGED caches
     \/ ~PredicateHolds(f, pg) /\ Panic

\* Mutant: every field overwrites the header, so the last one stays.
HeaderFieldLast == Fields[Len(Fields)]

\* The field the header is taken from: the first.
HeaderField == Fields[1]

\* env::commit: the header comes from the first field.
Commit ==
  /\ stage = "commit"
  /\ status' = "committed"
  /\ \E n \in 1..Len(sessions) : \E m \in 1..Len(sessions[n].pages) :
       /\ IsSource(n, m, HeaderField)
       /\ journal' = [header |-> <<Header(n, HeaderField, sessions[n].pages[m])>>,
                      results |-> results]
  /\ UNCHANGED <<inputs, stage, i, caches, results>>

\* The checks of the current field against the page it is read from.
FieldStep ==
  \E n \in 1..Len(sessions) : \E m \in 1..Len(sessions[n].pages) :
    /\ i \in 1..Len(Fields)
    /\ IsSource(n, m, Fields[i])
    /\ LET pg == sessions[n].pages[m] IN
       \/ CheckDigest(pg)
       \/ ResolveKey(pg)
       \/ CheckSignature(n, pg)
       \/ ExtractField(pg)
       \/ EvaluatePredicate(n, pg)

Init ==
  /\ sessions \in SessionLists
  /\ registry \in RegistryLists
  /\ request \in Requests
  /\ stage = "salt"
  /\ i = 1
  /\ trusted = [id \in {} |-> id]
  /\ verified = {}
  /\ results = <<>>
  /\ status = "running"
  /\ journal = NoJournal

\* One check of the program.
Step == ReadSalt \/ Locate \/ FieldStep \/ Commit

\* A run that committed or aborted is over; any other has a next step.
Next ==
  \/ status = "running" /\ Step
  \/ status # "running" /\ UNCHANGED vars

Spec == Init /\ [][Next]_vars

-----------------------------------------------------------------------------
(* Properties *)

Stages == {"salt", "locate", "digest", "key", "signature", "extract", "predicate", "commit"}

\* Every variable has its type, and the loop index stays within the fields.
TypeOK ==
  /\ stage \in Stages
  /\ i \in 1..(Len(Fields) + 1)
  /\ Len(results) = i - 1
  /\ status \in {"running", "committed", "aborted"}
  /\ stage \notin {"salt", "commit"} => i <= Len(Fields)
  /\ stage = "commit" => i = Len(Fields) + 1

\* Some root-signed entry holds the leaf key that signed the page.
Rooted(pg) ==
  \E k \in 1..Len(registry) :
    /\ registry[k].rootSigned
    /\ registry[k].keyid = pg.keyid
    /\ SignatureHolds(registry[k].leaf, pg)

\* Result r of field f states what the page it was read from, as signed, says.
Attested(r, f) ==
  \E n \in 1..Len(sessions) : \E m \in 1..Len(sessions[n].pages) :
    LET pg == sessions[n].pages[m] IN
    /\ IsSource(n, m, f)
    /\ DigestHolds(pg)
    /\ Rooted(pg)
    /\ Bound(f, pg)
    /\ PredicateHolds(f, pg)
    /\ r = Result(n, f, pg)

\* Each result was read from an unaltered page signed by a root-vouched leaf, and
\* its predicate holds of the value extracted there (GUIDE.md 95-101), although
\* keys and signatures are checked for the first field that meets them only
\* (main.rs 27, 52-55, 120, 157).
JournalSound == \A j \in 1..Len(results) : Attested(results[j], Fields[j])

\* A journal holds every requested field in order, under a header that repeats the
\* first; an aborted run publishes nothing (main.rs 203-206, 230-272).
AllOrNothing ==
  IF status = "committed"
  THEN /\ Len(journal.results) = Len(Fields)
       /\ \A j \in 1..Len(Fields) : Attested(journal.results[j], Fields[j])
       /\ journal.header[1].result = journal.results[1]
  ELSE journal = NoJournal

\* e is root-signed and names the keyid and the authority of result r.
CoveredBy(e, r) == e.rootSigned /\ e.keyid = r.anchor /\ e.domain = r.domain

\* The first result under each keyid comes from the authority the root named for
\* that key (main.rs 147-152).
FirstUseCovered ==
  \A j \in 1..Len(results) :
    (\A k \in 1..(j - 1) : results[k].anchor # results[j].anchor) =>
      \E k \in 1..Len(registry) : CoveredBy(registry[k], results[j])

\* GUIDE.md:97: every response was served "under a leaf key the pinned root
\* vouched for in a registry entry whose authority matches the page".
EveryUseCovered ==
  \A j \in 1..Len(results) : \E k \in 1..Len(registry) : CoveredBy(registry[k], results[j])

\* The provenance of a result is "cryptographically bound" to it (gps-core lib.rs
\* 638): URL, authority and keyid are those the page's signature covers, although the
\* guest falls back to the requested URL for a page without the header (main.rs 226-228)
\* and to "/" in the base (287-290).  No origin signs the bare "/" (sign_page.lua 67-69).
ProvenanceSigned ==
  \A j \in 1..Len(results) :
    \E n \in 1..Len(sessions) : \E m \in 1..Len(sessions[n].pages) :
      /\ IsSource(n, m, Fields[j])
      /\ LET signed == sessions[n].pages[m].sig.over IN
         /\ results[j].url = signed.uri
         /\ results[j].domain = signed.authority
         /\ results[j].anchor = signed.keyid

\* The base sign_page.lua signs: the same components and both parameters.
OriginBase(pg) ==
  [method |-> pg.method, authority |-> pg.authority, uri |-> pg.uri, status |-> pg.status,
   digest |-> pg.digest, keyid |-> pg.keyid, created |-> pg.created, full |-> TRUE]

\* Honest inputs: every page as its origin signed and sent it, every entry signed
\* by the root, one entry per keyid.
HonestInputs ==
  /\ \A k \in 1..Len(registry) :
       /\ registry[k].rootSigned
       /\ \A j \in 1..(k - 1) : registry[j].keyid # registry[k].keyid
  /\ \A n \in 1..Len(sessions) : \A m \in 1..Len(sessions[n].pages) :
       LET pg == sessions[n].pages[m] IN
       /\ DigestHolds(pg) /\ pg.full
       /\ \E k \in 1..Len(registry) :
            /\ registry[k].keyid = pg.keyid
            /\ Verify(registry[k].leaf, OriginBase(pg), pg.sig)

\* An honest capture never fails the digest or the signature check: the guest
\* rebuilds exactly the base the origin signed (main.rs 277-308, sign_page.lua).
HonestNotRejected ==
  HonestInputs /\ status = "aborted" => stage \notin {"digest", "signature"}
=============================================================================
