--------------------------- MODULE CaptureProofs ---------------------------
(***************************************************************************)
(* Theorems about Capture: for any paths, methods and number of requests,  *)
(* edits and refused saves.                                                *)
(***************************************************************************)
EXTENDS Capture, FiniteSetTheorems, SequenceTheorems, TLAPS

-----------------------------------------------------------------------------
(* Types *)

\* A request is pending or its page was created, so there are no more pages than
\* requests.
Counted ==
  /\ IsFiniteSet(DOMAIN pendingRequests)
  /\ captured + Cardinality(DOMAIN pendingRequests) <= requests

TypeInv == TypeOK /\ Counted

LEMMA TypeInit == Init => TypeInv
<1> SUFFICES ASSUME Init PROVE TypeInv
  OBVIOUS
<1>1. DOMAIN pendingRequests = {} /\ captured = 0 /\ requests = 0
  BY DEF Init
<1>2. Counted
  BY <1>1, FS_EmptySet DEF Counted
<1>3. /\ page \in [Captures -> Page] /\ pages \in Seq(Captures) /\ saving \in Seq(SUBSET Page)
      /\ batch \in [DOMAIN batch -> {"include", "omit"}] /\ DOMAIN batch = {}
      /\ pendingRequests \in [DOMAIN pendingRequests -> [path : Paths, method : Methods]]
  <2>1. \A S : <<>> \in Seq(S) /\ <<>> \in [1..0 -> S] /\ <<>> \in [DOMAIN <<>> -> S]
    OBVIOUS
  <2>2. Captures = 1..0
    BY <1>1 DEF Captures
  <2>3. page = <<>> /\ pages = <<>> /\ saving = <<>> /\ batch = <<>> /\ pendingRequests = <<>>
    BY DEF Init
  <2> HIDE DEF Page
  <2> QED
    BY <2>1, <2>2, <2>3
<1>4. /\ requests \in 0..MaxRequests /\ captured \in 0..requests /\ refused \in 0..MaxRefused
      /\ content \in [Paths -> 0..MaxEdits]
  BY CaptureAssumption DEF Init, CaptureAssumption
<1>5. TypeOK
  BY <1>1, <1>3, <1>4 DEF Init, TypeOK
<1> QED
  BY <1>2, <1>5 DEF TypeInv

\* What StartDrain leaves.
LEMMA DrainTypes ==
  ASSUME TypeOK, StartDrain, UNCHANGED <<captured, pages>>
  PROVE  /\ draining' \in BOOLEAN
         /\ DOMAIN batch' \subseteq Captures'
         /\ batch' \in [DOMAIN batch' -> {"include", "omit"}]
<1>1. CASE draining \/ Pending = {}
  BY <1>1 DEF StartDrain, TypeOK, Captures
<1>2. CASE ~(draining \/ Pending = {})
  <2>1. Pending \subseteq Captures
    BY DEF TypeOK, Pending, Held
  <2> QED
    BY <1>2, <2>1 DEF StartDrain, Captures
<1> QED
  BY <1>1, <1>2

LEMMA FinishTypes ==
  ASSUME TypeOK, NEW c, Finish(c)
  PROVE  /\ DOMAIN batch' \subseteq Captures
         /\ batch' \in [DOMAIN batch' -> {"include", "omit"}]
  BY DEF Finish, TypeOK

LEMMA PageUpdates ==
  ASSUME NEW p \in Page, NEW body \in Body, NEW mode \in {"include", "omit"}
  PROVE  /\ [p EXCEPT !.body = body, !.mode = mode, !.pending = FALSE] \in Page
         /\ [p EXCEPT !.pending = FALSE] \in Page
  BY DEF Page

\* A page object that a handler fills or gives up is still a page object.
LEMMA BodyType ==
  ASSUME TypeOK, NEW c \in Captures, NEW mode \in {"include", "omit"}
  PROVE  Fetched(page[c].path, mode) \in Body
<1>1. page[c].path \in Paths /\ content \in [Paths -> 0..MaxEdits] /\ MaxEdits \in Nat
  BY CaptureAssumption DEF TypeOK, Page, CaptureAssumption
<1> QED
  BY <1>1 DEF Fetched, Answered, Body

LEMMA NewPageType ==
  ASSUME TypeOK, NEW r \in DOMAIN pendingRequests, NEW signature \in BOOLEAN
  PROVE  NewPage(captured + 1, pendingRequests[r], signature) \in Page
<1> DEFINE req == pendingRequests[r]
<1>1. req \in [path : Paths, method : Methods] /\ req.path \in Paths /\ req.method \in Methods
  BY DEF TypeOK
<1>2. content[req.path] \in Nat /\ captured + 1 \in Nat
  BY <1>1, CaptureAssumption DEF TypeOK, CaptureAssumption
<1>3. req.method \in {"GET", "POST"}
  BY <1>1, CaptureAssumption DEF CaptureAssumption
<1>4. Answered(req.path, req.method) \in Body
  BY <1>1, <1>2, <1>3 DEF Answered, Body
<1> HIDE DEF req
<1> QED
  BY <1>1, <1>2, <1>4 DEF NewPage, Page, Body, req

LEMMA ForgetTypes ==
  ASSUME TypeInv, NEW r \in DOMAIN pendingRequests, Forget(r)
  PROVE  /\ DOMAIN pendingRequests' = DOMAIN pendingRequests \ {r}
         /\ pendingRequests' \in [DOMAIN pendingRequests' -> [path : Paths, method : Methods]]
         /\ IsFiniteSet(DOMAIN pendingRequests')
         /\ captured + 1 + Cardinality(DOMAIN pendingRequests') <= requests
         /\ captured + 1 <= requests
<1>1. DOMAIN pendingRequests' = DOMAIN pendingRequests \ {r}
  BY DEF Forget
<1>2. pendingRequests' \in [DOMAIN pendingRequests' -> [path : Paths, method : Methods]]
  BY <1>1 DEF Forget, TypeInv, TypeOK
<1>3. /\ IsFiniteSet(DOMAIN pendingRequests')
      /\ Cardinality(DOMAIN pendingRequests') = Cardinality(DOMAIN pendingRequests) - 1
  BY <1>1, FS_RemoveElement DEF TypeInv, Counted
<1>4. Cardinality(DOMAIN pendingRequests') \in Nat /\ Cardinality(DOMAIN pendingRequests) \in Nat
  BY <1>3, FS_CardinalityType DEF TypeInv, Counted
<1>5. captured \in Nat /\ requests \in Nat
  BY CaptureAssumption DEF TypeInv, TypeOK, CaptureAssumption
<1> QED
  BY <1>1, <1>2, <1>3, <1>4, <1>5 DEF TypeInv, Counted

\* The session after a response was recorded.
LEMMA RecordType ==
  ASSUME TypeOK, NEW path, captured \in Nat
  PROVE  Record(path, captured + 1) \in Seq(1..(captured + 1))
<1>1. pages \in Seq(1..(captured + 1)) /\ captured + 1 \in 1..(captured + 1)
  <2>1. pages \in Seq(1..captured)
    BY DEF TypeOK, Captures
  <2> QED
    BY <2>1
<1>2. ASSUME NEW k
      PROVE  [pages EXCEPT ![k] = captured + 1] \in Seq(1..(captured + 1))
  <2>1. Len(pages) \in Nat /\ pages \in [1..Len(pages) -> 1..(captured + 1)]
    BY <1>1
  <2>2. [pages EXCEPT ![k] = captured + 1] \in [1..Len(pages) -> 1..(captured + 1)]
    BY <1>1, <2>1
  <2> QED
    BY <2>1, <2>2, SeqDef
<1>3. Append(pages, captured + 1) \in Seq(1..(captured + 1))
  BY <1>1
<1> QED
  BY <1>2, <1>3 DEF Record

LEMMA TypeStep == TypeInv /\ [Next]_vars => TypeInv'
<1> SUFFICES ASSUME TypeInv, [Next]_vars PROVE TypeInv'
  OBVIOUS
<1> USE DEF session
<1>0. TypeOK /\ Counted /\ captured \in Nat /\ requests \in Nat
  BY CaptureAssumption DEF TypeInv, TypeOK, CaptureAssumption
<1>1. ASSUME NEW path \in Paths, NEW method \in Methods, OnBeforeSendHeaders(path, method)
      PROVE  TypeInv'
  <2>1. DOMAIN pendingRequests' = DOMAIN pendingRequests \cup {requests + 1}
    BY <1>1 DEF OnBeforeSendHeaders
  <2>2. requests + 1 \notin DOMAIN pendingRequests
    BY <1>0 DEF TypeOK
  <2>3. /\ IsFiniteSet(DOMAIN pendingRequests')
        /\ Cardinality(DOMAIN pendingRequests') = Cardinality(DOMAIN pendingRequests) + 1
    BY <2>1, <2>2, <1>0, FS_AddElement DEF Counted
  <2>4. Cardinality(DOMAIN pendingRequests) \in Nat
    BY <1>0, FS_CardinalityType DEF Counted
  <2>5. Counted'
    BY <2>3, <2>4, <1>0, <1>1 DEF Counted, OnBeforeSendHeaders
  <2>6. pendingRequests' \in [DOMAIN pendingRequests' -> [path : Paths, method : Methods]]
    BY <1>0, <1>1, <2>1 DEF OnBeforeSendHeaders, TypeOK
  <2>7. DOMAIN pendingRequests' \subseteq 1..requests' /\ requests' \in 0..MaxRequests
    BY <1>0, <1>1, <2>1, CaptureAssumption DEF OnBeforeSendHeaders, TypeOK, CaptureAssumption
  <2>8. captured' \in 0..requests'
    BY <1>0, <1>1 DEF OnBeforeSendHeaders, TypeOK
  <2>9. TypeOK'
    BY <1>0, <1>1, <2>6, <2>7, <2>8 DEF OnBeforeSendHeaders, TypeOK, Captures, Page, Body
  <2> QED
    BY <2>5, <2>9 DEF TypeInv
<1>2. ASSUME NEW r \in DOMAIN pendingRequests, OnPlainHeaders(r)
      PROVE  TypeInv'
  <2>1. Forget(r)
    BY <1>2 DEF OnPlainHeaders
  <2>2. Counted'
    <3>1. IsFiniteSet(DOMAIN pendingRequests')
      BY <2>1, <1>2, ForgetTypes
    <3>2. captured + 1 + Cardinality(DOMAIN pendingRequests') <= requests
      BY <2>1, <1>2, ForgetTypes
    <3>3. Cardinality(DOMAIN pendingRequests') \in Nat
      BY <3>1, FS_CardinalityType
    <3> QED
      BY <3>1, <3>2, <3>3, <1>0, <1>2 DEF Counted, OnPlainHeaders
  <2>3. /\ DOMAIN pendingRequests' \subseteq 1..requests
        /\ pendingRequests' \in [DOMAIN pendingRequests' -> [path : Paths, method : Methods]]
    BY <2>1, <1>0, <1>2, ForgetTypes DEF TypeOK
  <2>4. TypeOK'
    BY <1>0, <1>2, <2>3 DEF OnPlainHeaders, TypeOK, Captures, Page, Body
  <2> QED
    BY <2>2, <2>4 DEF TypeInv
<1>3. ASSUME NEW r \in DOMAIN pendingRequests, NEW signature \in BOOLEAN,
             OnSignedHeaders(r, signature)
      PROVE  TypeInv'
  <2> DEFINE new == NewPage(captured + 1, pendingRequests[r], signature)
  <2>1. Forget(r)
    BY <1>3 DEF OnSignedHeaders
  <2>2. /\ DOMAIN pendingRequests' = DOMAIN pendingRequests \ {r}
        /\ pendingRequests' \in [DOMAIN pendingRequests' -> [path : Paths, method : Methods]]
        /\ IsFiniteSet(DOMAIN pendingRequests')
        /\ captured + 1 + Cardinality(DOMAIN pendingRequests') <= requests
        /\ captured + 1 <= requests
    BY <2>1, <1>3, ForgetTypes
  <2>3. captured' = captured + 1 /\ requests' = requests
    BY <1>3 DEF OnSignedHeaders
  <2>4. Counted'
    BY <2>2, <2>3 DEF Counted
  <2>5. new \in Page
    BY <1>0, <1>3, NewPageType
  <2>6. page' \in [Captures' -> Page']
    <3>1. page' = [k \in 1..(captured + 1) |-> IF k = captured + 1 THEN new ELSE page[k]]
      BY <1>3 DEF OnSignedHeaders
    <3>2. Page' = Page /\ Captures' = 1..(captured + 1)
      BY <2>3 DEF Page, Body, Captures
    <3>3. \A k \in 1..(captured + 1) : k = captured + 1 \/ k \in Captures
      BY <1>0 DEF Captures
    <3>4. \A k \in Captures : page[k] \in Page
      BY <1>0 DEF TypeOK
    <3> HIDE DEF new
    <3> QED
      BY <3>1, <3>2, <3>3, <3>4, <2>5
  <2>7. pages' \in Seq(Captures')
    BY <1>0, <1>3, <2>3, RecordType DEF OnSignedHeaders, Captures
  <2>8. /\ DOMAIN batch' \subseteq Captures' /\ timers' \subseteq Captures'
        /\ batch' \in [DOMAIN batch' -> {"include", "omit"}] /\ draining' \in BOOLEAN
    BY <1>0, <1>3, <2>3 DEF OnSignedHeaders, TypeOK, Captures
  <2>9. /\ requests' \in 0..MaxRequests /\ captured' \in 0..requests'
        /\ DOMAIN pendingRequests' \subseteq 1..requests'
    BY <1>0, <2>2, <2>3 DEF TypeOK
  <2>10. /\ saving' \in Seq(SUBSET Page') /\ file' \in SUBSET Page'
         /\ refused' \in 0..MaxRefused /\ content' \in [Paths -> 0..MaxEdits]
    BY <1>0, <1>3 DEF OnSignedHeaders, TypeOK, Page, Body
  <2>11. TypeOK'
    BY <2>2, <2>6, <2>7, <2>8, <2>9, <2>10 DEF TypeOK
  <2> QED
    BY <2>4, <2>11 DEF TypeInv
<1>4. CASE OnNavigationComplete
  <2>1. /\ draining' \in BOOLEAN /\ DOMAIN batch' \subseteq Captures'
        /\ batch' \in [DOMAIN batch' -> {"include", "omit"}]
    BY <1>0, <1>4, DrainTypes DEF OnNavigationComplete
  <2> QED
    BY <1>0, <1>4, <2>1 DEF OnNavigationComplete, TypeInv, TypeOK, Counted, Captures, Page, Body
<1>5. ASSUME NEW c \in timers, OnTimer(c)
      PROVE  TypeInv'
  <2>1. /\ draining' \in BOOLEAN /\ DOMAIN batch' \subseteq Captures'
        /\ batch' \in [DOMAIN batch' -> {"include", "omit"}]
    BY <1>0, <1>5, DrainTypes DEF OnTimer
  <2> QED
    BY <1>0, <1>5, <2>1 DEF OnTimer, TypeInv, TypeOK, Counted, Captures, Page, Body
<1>6. ASSUME NEW c \in DOMAIN batch, FetchSucceeds(c)
      PROVE  TypeInv'
  <2> DEFINE body == Fetched(page[c].path, batch[c])
  <2>1. c \in Captures /\ batch[c] \in {"include", "omit"}
    BY <1>0, <1>6 DEF TypeOK
  <2>2. body \in Body
    BY <1>0, <2>1, BodyType
  <2>3. page' = [page EXCEPT ![c].body = body, ![c].mode = batch[c], ![c].pending = FALSE]
    BY <1>6 DEF FetchSucceeds
  <2>4. page' \in [Captures -> Page]
    <3> HIDE DEF body
    <3>1. page[c] \in Page /\ page \in [Captures -> Page]
      BY <1>0, <2>1 DEF TypeOK
    <3>2. [page[c] EXCEPT !.body = body, !.mode = batch[c], !.pending = FALSE] \in Page
      BY <3>1, <2>1, <2>2, PageUpdates
    <3>3. page' = [page EXCEPT ![c] = [page[c] EXCEPT !.body = body, !.mode = batch[c],
                                                      !.pending = FALSE]]
      BY <2>1, <2>3, <3>1
    <3> QED
      BY <2>1, <3>1, <3>2, <3>3
  <2>5. DOMAIN batch' \subseteq Captures /\ batch' \in [DOMAIN batch' -> {"include", "omit"}]
    BY <1>0, <1>6, FinishTypes DEF FetchSucceeds
  <2> QED
    BY <1>0, <1>6, <2>4, <2>5 DEF FetchSucceeds, TypeInv, TypeOK, Counted, Captures, Page, Body
<1>7. ASSUME NEW c \in DOMAIN batch, FetchFails(c)
      PROVE  TypeInv'
  <2>1. c \in Captures
    BY <1>0, <1>7 DEF TypeOK
  <2>2. page' \in [Captures -> Page]
    <3>1. GiveUp(c) \in [Captures -> Page]
      <4>1. [page[c] EXCEPT !.pending = FALSE] \in Page
        BY <1>0, <2>1, PageUpdates DEF TypeOK, Body
      <4> QED
        BY <1>0, <2>1, <4>1 DEF GiveUp, TypeOK
    <3> QED
      BY <1>0, <1>7, <3>1 DEF FetchFails, TypeOK
  <2>3. DOMAIN batch' \subseteq Captures /\ batch' \in [DOMAIN batch' -> {"include", "omit"}]
    <3>1. CASE batch' = [batch EXCEPT ![c] = "omit"]
      BY <1>0, <3>1, <1>7 DEF TypeOK
    <3>2. CASE Finish(c)
      BY <1>0, <3>2, FinishTypes
    <3> QED
      BY <1>7, <3>1, <3>2 DEF FetchFails
  <2> QED
    BY <1>0, <1>7, <2>2, <2>3 DEF FetchFails, TypeInv, TypeOK, Counted, Captures, Page, Body
<1>8. CASE EndDrain
  <2>1. {page[c] : c \in Completed} \in SUBSET Page
    BY <1>0 DEF TypeOK, Completed, Held
  <2>2. saving' \in Seq(SUBSET Page)
    <3> DEFINE sent == {page[c] : c \in Completed}
    <3>1. saving' = saving \/ saving' = Append(saving, sent)
      BY <1>8 DEF EndDrain
    <3>2. saving \in Seq(SUBSET Page)
      BY <1>0 DEF TypeOK
    <3>3. sent \in SUBSET Page
      BY <2>1
    <3> HIDE DEF sent
    <3> QED
      BY <3>1, <3>2, <3>3
  <2> QED
    BY <1>0, <1>8, <2>2 DEF EndDrain, TypeInv, TypeOK, Counted, Captures, Page, Body
<1>9. CASE HostSaves
  <2>1. /\ saving \in Seq(SUBSET Page) /\ saving # <<>>
        /\ file' = Head(saving) /\ saving' = Tail(saving)
    BY <1>0, <1>9 DEF HostSaves, TypeOK
  <2>2. saving' \in Seq(SUBSET Page) /\ file' \in SUBSET Page
    BY <2>1
  <2> QED
    BY <1>0, <1>9, <2>2 DEF HostSaves, TypeInv, TypeOK, Counted, Captures, Page, Body
<1>10. CASE HostRefuses
  <2>1. saving \in Seq(SUBSET Page) /\ saving # <<>> /\ saving' = Tail(saving)
    BY <1>0, <1>10 DEF HostRefuses, TypeOK
  <2>2. saving' \in Seq(SUBSET Page)
    BY <2>1
  <2>3. refused' \in 0..MaxRefused
    BY <1>0, <1>10, CaptureAssumption DEF HostRefuses, TypeOK, CaptureAssumption
  <2> QED
    BY <1>0, <1>10, <2>2, <2>3 DEF HostRefuses, TypeInv, TypeOK, Counted, Captures, Page, Body
<1>11. ASSUME NEW path \in Paths, Edit(path)
       PROVE  TypeInv'
  <2>1. content' \in [Paths -> 0..MaxEdits]
    BY <1>0, <1>11, CaptureAssumption DEF Edit, TypeOK, CaptureAssumption
  <2> QED
    BY <1>0, <1>11, <2>1 DEF Edit, TypeInv, TypeOK, Counted, Captures, Page, Body
<1>12. CASE UNCHANGED vars
  BY <1>0, <1>12 DEF vars, TypeInv, TypeOK, Counted, Captures, Page, Body
<1> QED
  BY <1>1, <1>2, <1>3, <1>4, <1>5, <1>6, <1>7, <1>8, <1>9, <1>10, <1>11, <1>12 DEF Next, Fetch

\* Every variable of a tab's capture keeps its type; there are no more pages than
\* requests (background.js 11-229).
THEOREM TypesHold == Spec => []TypeOK
<1>1. TypeInv => TypeOK
  BY DEF TypeInv
<1> QED
  BY <1>1, TypeInit, TypeStep, PTL DEF Spec

-----------------------------------------------------------------------------
(* Pages *)

\* Whatever fills a page or gives it up, it keeps what its response said, and the
\* session keeps its pages.
Kept ==
  /\ captured' = captured /\ pages' = pages
  /\ page' \in [Captures -> Page]
  /\ \A c \in Captures :
       /\ page'[c].id = page[c].id /\ page'[c].path = page[c].path
       /\ page'[c].method = page[c].method /\ page'[c].digest = page[c].digest
       /\ page'[c].signature = page[c].signature

LEMMA FetchKeeps ==
  ASSUME TypeOK, NEW c \in DOMAIN batch, FetchSucceeds(c)
  PROVE  /\ Kept
         /\ \A d \in Captures \ {c} : page'[d] = page[d]
         /\ page'[c].body = Fetched(page[c].path, batch[c])
         /\ page'[c].mode = batch[c] /\ page'[c].pending = FALSE
         /\ c \in Captures /\ batch[c] \in {"include", "omit"}
<1> DEFINE body == Fetched(page[c].path, batch[c])
<1>1. c \in Captures /\ batch[c] \in {"include", "omit"}
  BY DEF TypeOK
<1>2. page \in [Captures -> Page] /\ page[c] \in Page
  BY <1>1 DEF TypeOK
<1>3. body \in Body
  BY <1>1, BodyType
<1>4. page' = [page EXCEPT ![c].body = body, ![c].mode = batch[c], ![c].pending = FALSE]
  BY DEF FetchSucceeds
<1> HIDE DEF body
<1>5. \A d \in Captures \ {c} : page'[d] = page[d]
  BY <1>1, <1>2, <1>4
<1>6. page'[c] = [page[c] EXCEPT !.body = body, !.mode = batch[c], !.pending = FALSE]
  BY <1>1, <1>2, <1>4
<1>7. page'[c] \in Page
  <2>1. [page[c] EXCEPT !.body = body, !.mode = batch[c], !.pending = FALSE] \in Page
    BY <1>1, <1>2, <1>3, PageUpdates
  <2> QED
    BY <1>6, <2>1
<1>8. page' \in [Captures -> Page]
  BY <1>2, <1>4, <1>5, <1>7
<1>9. /\ page'[c].id = page[c].id /\ page'[c].path = page[c].path
      /\ page'[c].method = page[c].method /\ page'[c].digest = page[c].digest
      /\ page'[c].signature = page[c].signature
  BY <1>2, <1>6 DEF Page
<1>10. page'[c].body = body /\ page'[c].mode = batch[c] /\ page'[c].pending = FALSE
  BY <1>2, <1>6 DEF Page
<1>11. captured' = captured /\ pages' = pages
  BY DEF FetchSucceeds
<1>12. Kept
  BY <1>5, <1>8, <1>9, <1>11 DEF Kept
<1> QED
  BY <1>1, <1>5, <1>10, <1>12 DEF body

LEMMA FailKeeps ==
  ASSUME TypeOK, NEW c \in DOMAIN batch, FetchFails(c)
  PROVE  /\ Kept
         /\ \A d \in Captures \ {c} : page'[d] = page[d]
         /\ page'[c].body = page[c].body /\ page'[c].mode = page[c].mode
         /\ page'[c].pending \in {page[c].pending, FALSE}
         /\ c \in Captures
         /\ page' = page \/ Finish(c)
<1>1. c \in Captures /\ page \in [Captures -> Page] /\ page[c] \in Page
  BY DEF TypeOK
<1>2. captured' = captured /\ pages' = pages
  BY DEF FetchFails
<1>3. CASE page' = page
  BY <1>1, <1>2, <1>3 DEF Kept
<1>4. CASE page' = GiveUp(c) /\ Finish(c)
  <2>1. page'[c] = [page[c] EXCEPT !.pending = FALSE]
    BY <1>1, <1>4 DEF GiveUp
  <2>2. \A d \in Captures \ {c} : page'[d] = page[d]
    BY <1>1, <1>4 DEF GiveUp
  <2>3. page'[c] \in Page
    <3>1. NoBody \in Body /\ "include" \in {"include", "omit"}
      BY DEF Body
    <3>2. [page[c] EXCEPT !.pending = FALSE] \in Page
      BY <1>1, <3>1, PageUpdates
    <3> QED
      BY <2>1, <3>2
  <2>4. page' \in [Captures -> Page]
    BY <1>1, <1>4, <2>2, <2>3 DEF GiveUp
  <2>5. /\ page'[c].id = page[c].id /\ page'[c].path = page[c].path
        /\ page'[c].method = page[c].method /\ page'[c].digest = page[c].digest
        /\ page'[c].signature = page[c].signature
        /\ page'[c].body = page[c].body /\ page'[c].mode = page[c].mode
        /\ page'[c].pending = FALSE
    BY <1>1, <2>1 DEF Page
  <2>6. Kept
    BY <1>2, <2>2, <2>4, <2>5 DEF Kept
  <2> QED
    BY <1>1, <1>4, <2>2, <2>5, <2>6
<1> QED
  BY <1>3, <1>4 DEF FetchFails

\* A new page is added behind the others.
LEMMA RecordKeeps ==
  ASSUME TypeInv, NEW r \in DOMAIN pendingRequests, NEW signature \in BOOLEAN,
         OnSignedHeaders(r, signature)
  PROVE  /\ captured \in Nat /\ captured' = captured + 1 /\ Captures' = 1..(captured + 1)
         /\ pendingRequests[r].path \in Paths /\ pendingRequests[r].method \in Methods
         /\ \A c \in Captures : page'[c] = page[c]
         /\ page'[captured + 1] = NewPage(captured + 1, pendingRequests[r], signature)
         /\ pages' = Record(pendingRequests[r].path, captured + 1)
<1>1. captured \in Nat
  BY CaptureAssumption DEF TypeInv, TypeOK, CaptureAssumption
<1>2. pendingRequests[r] \in [path : Paths, method : Methods]
  BY DEF TypeInv, TypeOK
<1> DEFINE new == NewPage(captured + 1, pendingRequests[r], signature)
<1>3. page' = [k \in 1..(captured + 1) |-> IF k = captured + 1 THEN new ELSE page[k]]
  BY DEF OnSignedHeaders
<1> HIDE DEF new
<1>4. /\ \A c \in Captures : page'[c] = page[c]
      /\ page'[captured + 1] = new
  BY <1>1, <1>3 DEF Captures
<1> QED
  BY <1>1, <1>2, <1>4 DEF OnSignedHeaders, Captures, new

\* A step records a page or keeps them all.
LEMMA RecordsOrKeeps ==
  ASSUME TypeInv, [Next]_vars
  PROVE  \/ \E r \in DOMAIN pendingRequests, signature \in BOOLEAN : OnSignedHeaders(r, signature)
         \/ Kept
<1> USE DEF session
<1>1. TypeOK /\ page \in [Captures -> Page]
  BY DEF TypeInv, TypeOK
<1>2. CASE UNCHANGED <<page, captured, pages>>
  BY <1>1, <1>2 DEF Kept
<1>3. ASSUME NEW c \in DOMAIN batch, Fetch(c) PROVE Kept
  BY <1>1, <1>3, FetchKeeps, FailKeeps DEF Fetch
<1>4. ASSUME NEW path \in Paths, NEW method \in Methods, OnBeforeSendHeaders(path, method)
      PROVE  UNCHANGED <<page, captured, pages>>
  BY <1>4 DEF OnBeforeSendHeaders
<1>5. ASSUME NEW r, OnPlainHeaders(r) PROVE UNCHANGED <<page, captured, pages>>
  BY <1>5 DEF OnPlainHeaders
<1>6. CASE OnNavigationComplete
  BY <1>2, <1>6 DEF OnNavigationComplete
<1>7. ASSUME NEW c, OnTimer(c) PROVE UNCHANGED <<page, captured, pages>>
  BY <1>7 DEF OnTimer
<1>8. CASE EndDrain \/ HostSaves \/ HostRefuses
  BY <1>2, <1>8 DEF EndDrain, HostSaves, HostRefuses
<1>9. ASSUME NEW path, Edit(path) PROVE UNCHANGED <<page, captured, pages>>
  BY <1>9 DEF Edit
<1>10. CASE UNCHANGED vars
  BY <1>2, <1>10 DEF vars
<1> QED
  BY <1>2, <1>3, <1>4, <1>5, <1>6, <1>7, <1>8, <1>9, <1>10 DEF Next

-----------------------------------------------------------------------------
(* The session *)

\* The session holds the newest capture of every path there is a capture of.
SessionInv ==
  /\ SessionHoldsNewest
  /\ \A c \in Captures : \E k \in 1..Len(pages) : page[pages[k]].path = page[c].path
  /\ \A c \in Captures : page[c].id = c

LEMMA SessionInit == Init => SessionInv
  BY DEF Init, SessionInv, SessionHoldsNewest, Captures, InSession

\* The place of a path in the session, if it has one.
LEMMA OnePlace ==
  ASSUME TypeOK, SessionInv, NEW path, NEW k \in SamePath(path), NEW j \in 1..Len(pages),
         page[pages[j]].path = path
  PROVE  j = k
<1>1. pages \in Seq(Captures) /\ k \in 1..Len(pages) /\ page[pages[k]].path = path
  BY DEF TypeOK, SamePath
<1>2. \A m, n \in 1..Len(pages) : m # n => page[pages[m]].path # page[pages[n]].path
  BY DEF SessionInv, SessionHoldsNewest
<1> QED
  BY <1>1, <1>2

\* Where a new capture of a path goes: the place of that path, or a new last one.
LEMMA RecordPlaces ==
  ASSUME TypeOK, SessionInv, NEW path, NEW c
  PROVE  \E k \in Nat \ {0} :
           /\ k \in 1..Len(pages) => page[pages[k]].path = path
           /\ \A j \in 1..Len(pages) : page[pages[j]].path = path => j = k
           /\ k <= Len(Record(path, c)) /\ 1..Len(pages) \subseteq 1..Len(Record(path, c))
           /\ 1..Len(Record(path, c)) = 1..Len(pages) \cup {k}
           /\ Record(path, c)[k] = c
           /\ \A j \in 1..Len(pages) : j # k => Record(path, c)[j] = pages[j]
<1>1. pages \in Seq(Captures) /\ Len(pages) \in Nat
  BY DEF TypeOK
<1>2. CASE SamePath(path) # {}
  <2>1. PICK i \in SamePath(path) : TRUE
    BY <1>2
  <2>2. SamePath(path) = {i}
    BY <2>1, OnePlace DEF SamePath
  <2> DEFINE k == CHOOSE n \in SamePath(path) : \A j \in SamePath(path) : n <= j
  <2>3. i \in 1..Len(pages) /\ i <= i
    BY <1>1, <2>1 DEF SamePath
  <2>4. k = i
    BY <2>2, <2>3
  <2> HIDE DEF k
  <2>5. Record(path, c) = [pages EXCEPT ![k] = c]
    BY <1>2 DEF Record, k
  <2>6. k \in 1..Len(pages) /\ page[pages[k]].path = path
    BY <2>1, <2>4 DEF SamePath
  <2>7. /\ Len(Record(path, c)) = Len(pages)
        /\ Record(path, c)[k] = c
        /\ \A j \in 1..Len(pages) : j # k => Record(path, c)[j] = pages[j]
    <3> DEFINE S == Captures \cup {c}
    <3>1. pages \in Seq(S) /\ c \in S
      BY <1>1
    <3> HIDE DEF S
    <3> QED
      BY <2>5, <2>6, <3>1, ExceptSeq
  <2>8. \A j \in 1..Len(pages) : page[pages[j]].path = path => j = k
    BY <2>1, <2>4, OnePlace
  <2> QED
    BY <1>1, <2>6, <2>7, <2>8
<1>3. CASE SamePath(path) = {}
  <2>1. Record(path, c) = Append(pages, c)
    BY <1>3 DEF Record
  <2> DEFINE k == Len(pages) + 1
  <2>2. /\ Len(Record(path, c)) = k
        /\ Record(path, c)[k] = c
        /\ \A j \in 1..Len(pages) : Record(path, c)[j] = pages[j]
    <3>1. pages \in Seq(Captures \cup {c})
      BY <1>1
    <3> QED
      BY <2>1, <3>1
  <2>3. \A j \in 1..Len(pages) : page[pages[j]].path # path
    BY <1>3 DEF SamePath
  <2>4. k \in Nat \ {0} /\ k \notin 1..Len(pages) /\ 1..k = 1..Len(pages) \cup {k}
    BY <1>1
  <2> HIDE DEF k
  <2> QED
    BY <1>1, <2>2, <2>3, <2>4
<1> QED
  BY <1>2, <1>3

LEMMA SessionStep == TypeInv /\ SessionInv /\ [Next]_vars => SessionInv'
<1> SUFFICES ASSUME TypeInv, SessionInv, [Next]_vars PROVE SessionInv'
  OBVIOUS
<1>0. TypeOK /\ pages \in Seq(Captures) /\ Len(pages) \in Nat
  BY DEF TypeInv, TypeOK
<1>1. ASSUME NEW r \in DOMAIN pendingRequests, NEW signature \in BOOLEAN,
             OnSignedHeaders(r, signature)
      PROVE  SessionInv'
  <2> DEFINE path == pendingRequests[r].path
             n == captured + 1
  <2>1. /\ captured \in Nat /\ Captures' = 1..n /\ n \notin Captures
        /\ \A c \in Captures : page'[c] = page[c]
        /\ page'[n].path = path /\ page'[n].id = n
        /\ pages' = Record(path, n)
    <3>1. page'[n] = NewPage(n, pendingRequests[r], signature)
      BY <1>1, RecordKeeps
    <3>2. page'[n].path = path /\ page'[n].id = n
      BY <3>1 DEF NewPage
    <3> QED
      BY <1>1, <3>2, RecordKeeps DEF Captures
  <2> HIDE DEF path, n
  <2>2. PICK k \in Nat \ {0} :
          /\ k \in 1..Len(pages) => page[pages[k]].path = path
          /\ \A j \in 1..Len(pages) : page[pages[j]].path = path => j = k
          /\ 1..Len(pages') = 1..Len(pages) \cup {k}
          /\ pages'[k] = n
          /\ \A j \in 1..Len(pages) : j # k => pages'[j] = pages[j]
    BY <1>0, <2>1, RecordPlaces
  <2>3. \A j \in 1..Len(pages) : pages[j] \in Captures
    BY <1>0
  <2>4. \A j \in 1..Len(pages') : j # k =>
          /\ j \in 1..Len(pages) /\ pages'[j] = pages[j] /\ pages[j] \in Captures
          /\ page'[pages'[j]].path = page[pages[j]].path
          /\ page[pages[j]].path # path
    BY <2>1, <2>2, <2>3
  <2>5. k \in 1..Len(pages') /\ page'[pages'[k]].path = path
    BY <2>1, <2>2
  <2>6. \A i, j \in 1..Len(pages') : i # j => page'[pages'[i]].path # page'[pages'[j]].path
    BY <2>4, <2>5 DEF SessionInv, SessionHoldsNewest
  <2>7. \A c \in 1..n : c = n \/ c \in Captures
    BY <2>1 DEF Captures, n
  <2>8. \A c \in Captures : c < n /\ c <= n
    BY <2>1 DEF Captures, n
  <2>9. ASSUME NEW c \in 1..n
        PROVE  InSession(c)' <=> \A d \in 1..n : page'[d].path = page'[c].path => d <= c
    <3>1. CASE c = n
      BY <2>1, <2>2, <2>5, <2>7, <2>8, <3>1 DEF InSession, n
    <3>2. CASE c \in Captures /\ page[c].path = path
      <4>1. ~ \A d \in 1..n : page'[d].path = page'[c].path => d <= c
        BY <2>1, <2>8, <3>2 DEF n
      <4>2. \A j \in 1..Len(pages') : pages'[j] # c
        BY <2>1, <2>2, <2>4, <3>2
      <4> QED
        BY <4>1, <4>2 DEF InSession
    <3>3. CASE c \in Captures /\ page[c].path # path
      <4>1. InSession(c)' <=> InSession(c)
        <5>1. ASSUME NEW j \in 1..Len(pages'), pages'[j] = c
              PROVE  InSession(c)
          BY <2>1, <2>2, <2>4, <3>3, <5>1 DEF InSession
        <5>2. ASSUME NEW j \in 1..Len(pages), pages[j] = c
              PROVE  InSession(c)'
          BY <2>2, <3>3, <5>2 DEF InSession
        <5> QED
          BY <5>1, <5>2 DEF InSession
      <4>2. (\A d \in 1..n : page'[d].path = page'[c].path => d <= c)
              <=> (\A d \in Captures : page[d].path = page[c].path => d <= c)
        BY <2>1, <2>7, <3>3 DEF Captures, n
      <4> QED
        BY <3>3, <4>1, <4>2 DEF SessionInv, SessionHoldsNewest
    <3> QED
      BY <2>7, <3>1, <3>2, <3>3
  <2>10. SessionHoldsNewest'
    BY <2>1, <2>6, <2>9 DEF SessionHoldsNewest
  <2>11. ASSUME NEW c \in 1..n
         PROVE  \E j \in 1..Len(pages') : page'[pages'[j]].path = page'[c].path
    <3>1. CASE page'[c].path = path
      BY <2>5, <3>1
    <3>2. CASE c \in Captures /\ page[c].path # path
      <4>1. PICK j \in 1..Len(pages) : page[pages[j]].path = page[c].path
        BY <3>2 DEF SessionInv
      <4>2. j # k
        BY <2>2, <3>2, <4>1
      <4>3. j \in 1..Len(pages') /\ pages'[j] = pages[j] /\ pages[j] \in Captures
        BY <2>2, <2>3, <4>1, <4>2
      <4>4. page'[pages'[j]] = page[pages[j]] /\ page'[c] = page[c]
        BY <2>1, <3>2, <4>3
      <4> QED
        BY <4>1, <4>3, <4>4
    <3> QED
      BY <2>1, <2>7, <3>1, <3>2
  <2>12. \A c \in 1..n : page'[c].id = c
    BY <2>1, <2>7 DEF SessionInv
  <2> QED
    BY <2>1, <2>10, <2>11, <2>12 DEF SessionInv
<1>2. CASE Kept
  <2>1. \A k \in 1..Len(pages) : pages[k] \in Captures
    BY <1>0
  <2>2. /\ Captures' = Captures /\ pages' = pages
        /\ \A c \in Captures : page'[c].path = page[c].path /\ page'[c].id = page[c].id
    BY <1>2 DEF Kept, Captures
  <2>3. \A k \in 1..Len(pages) : page'[pages[k]].path = page[pages[k]].path
    BY <2>1, <2>2
  <2>4. \A c : InSession(c)' <=> InSession(c)
    BY <2>2 DEF InSession
  <2>5. SessionHoldsNewest'
    BY <2>2, <2>3, <2>4 DEF SessionInv, SessionHoldsNewest
  <2> QED
    BY <2>2, <2>3, <2>5 DEF SessionInv
<1> QED
  BY <1>1, <1>2, RecordsOrKeeps

\* The session holds exactly the newest capture of each path, however many captures
\* of it are in flight (background.js 76-79, 99).
THEOREM NewestHeld == Spec => []SessionHoldsNewest
<1>1. SessionInv => SessionHoldsNewest
  BY DEF SessionInv
<1> QED
  BY <1>1, TypeInit, TypeStep, SessionInit, SessionStep, PTL DEF Spec
-----------------------------------------------------------------------------
(* Drains *)

\* A page is filled once: until then it is pending and has no body.
DrainInv ==
  /\ FetchedOnce
  /\ \A c \in Captures : page[c].pending => page[c].body = NoBody

LEMMA DrainInit == Init => DrainInv
  BY DEF Init, DrainInv, FetchedOnce, Captures

LEMMA StartDrainKeeps ==
  ASSUME TypeOK, DrainInv, StartDrain, UNCHANGED <<page, captured>>
  PROVE  DrainInv'
<1>1. Pending \subseteq Captures /\ \A c \in Pending : page[c].pending
  BY DEF TypeOK, Pending, Held
<1> QED
  BY <1>1 DEF StartDrain, DrainInv, FetchedOnce, Captures

LEMMA DrainStep == TypeInv /\ DrainInv /\ [Next]_vars => DrainInv'
<1> SUFFICES ASSUME TypeInv, DrainInv, [Next]_vars PROVE DrainInv'
  OBVIOUS
<1> USE DEF session
<1>0. TypeOK /\ DOMAIN batch \subseteq Captures
  BY DEF TypeInv, TypeOK
<1>1. CASE UNCHANGED session
  BY <1>1 DEF DrainInv, FetchedOnce, Captures
<1>2. ASSUME NEW path, NEW method, OnBeforeSendHeaders(path, method) PROVE DrainInv'
  BY <1>1, <1>2 DEF OnBeforeSendHeaders
<1>3. ASSUME NEW r, OnPlainHeaders(r) PROVE DrainInv'
  BY <1>1, <1>3 DEF OnPlainHeaders
<1>4. ASSUME NEW r \in DOMAIN pendingRequests, NEW signature \in BOOLEAN,
             OnSignedHeaders(r, signature)
      PROVE  DrainInv'
  <2>1. /\ captured \in Nat /\ Captures' = 1..(captured + 1)
        /\ \A c \in Captures : page'[c] = page[c]
        /\ page'[captured + 1] = NewPage(captured + 1, pendingRequests[r], signature)
    BY <1>4, RecordKeeps
  <2>2. page'[captured + 1].body = NoBody
    BY <2>1 DEF NewPage
  <2>3. batch' = batch /\ draining' = draining
    BY <1>4 DEF OnSignedHeaders
  <2>4. \A c \in 1..(captured + 1) : c = captured + 1 \/ c \in Captures
    BY <2>1 DEF Captures
  <2> QED
    BY <1>0, <2>1, <2>2, <2>3, <2>4 DEF DrainInv, FetchedOnce
<1>5. CASE OnNavigationComplete
  BY <1>0, <1>5, StartDrainKeeps DEF OnNavigationComplete
<1>6. ASSUME NEW c, OnTimer(c) PROVE DrainInv'
  BY <1>0, <1>6, StartDrainKeeps DEF OnTimer
<1>7. ASSUME NEW c \in DOMAIN batch, FetchSucceeds(c) PROVE DrainInv'
  <2>1. /\ captured' = captured /\ draining' = draining
        /\ batch' = [d \in DOMAIN batch \ {c} |-> batch[d]]
    BY <1>7 DEF FetchSucceeds, Finish
  <2>2. /\ \A d \in Captures \ {c} : page'[d] = page[d]
        /\ page'[c].pending = FALSE
    BY <1>0, <1>7, FetchKeeps
  <2>3. draining
    BY <1>7 DEF DrainInv, FetchedOnce
  <2> QED
    BY <1>0, <2>1, <2>2, <2>3 DEF DrainInv, FetchedOnce, Captures
<1>8. ASSUME NEW c \in DOMAIN batch, FetchFails(c) PROVE DrainInv'
  <2>1. captured' = captured /\ draining' = draining
    BY <1>8 DEF FetchFails
  <2>2. /\ c \in Captures /\ \A d \in Captures \ {c} : page'[d] = page[d]
        /\ page'[c].body = page[c].body
        /\ page'[c].pending \in {page[c].pending, FALSE}
    BY <1>0, <1>8, FailKeeps
  <2>3. draining
    BY <1>8 DEF DrainInv, FetchedOnce
  <2>4. \A d \in Captures : page'[d].pending => page'[d].body = NoBody
    BY <2>2 DEF DrainInv
  <2>5. \A d \in DOMAIN batch' : page'[d].pending /\ page'[d].body = NoBody
    <3>1. CASE page' = page /\ batch' = [batch EXCEPT ![c] = "omit"]
      BY <3>1 DEF DrainInv, FetchedOnce
    <3>2. CASE Finish(c)
      BY <1>0, <2>2, <3>2 DEF Finish, DrainInv, FetchedOnce
    <3> QED
      BY <1>8, <3>1, <3>2 DEF FetchFails
  <2> QED
    BY <2>1, <2>3, <2>4, <2>5 DEF DrainInv, FetchedOnce, Captures
<1>9. CASE EndDrain
  BY <1>9 DEF EndDrain, DrainInv, FetchedOnce, Captures
<1>10. CASE HostSaves \/ HostRefuses
  BY <1>1, <1>10 DEF HostSaves, HostRefuses
<1>11. ASSUME NEW path, Edit(path) PROVE DrainInv'
  BY <1>1, <1>11 DEF Edit
<1>12. CASE UNCHANGED vars
  BY <1>1, <1>12 DEF vars
<1> QED
  BY <1>2, <1>3, <1>4, <1>5, <1>6, <1>7, <1>8, <1>9, <1>10, <1>11, <1>12 DEF Next, Fetch

\* Overlapping triggers never fetch a page twice: what is being fetched is pending
\* and nothing is fetched outside a drain (background.js 114, 118-121).
THEOREM PagesFetchedOnce == Spec => []FetchedOnce
<1>1. DrainInv => FetchedOnce
  BY DEF DrainInv
<1> QED
  BY <1>1, TypeInit, TypeStep, DrainInit, DrainStep, PTL DEF Spec

-----------------------------------------------------------------------------
(* Bodies *)

\* A response was signed over the content of its time, and its body was fetched
\* later: versions only grow.
Signed(p, d) == p.digest = <<p.path, p.method, d>>

Read(p, v) ==
  \/ p.body = NoBody
  \/ p.path \in Gated /\ p.mode = "omit"
  \/ p.body = <<p.path, "GET", v>>

Attested(p) ==
  \E d, v \in Nat : d <= v /\ v <= content[p.path] /\ Signed(p, d) /\ Read(p, v)

BodyInv == \A c \in Captures : Attested(page[c])

LEMMA BodyMatches == TypeOK /\ BodyInv => UnchangedBodyMatches
<1> SUFFICES ASSUME TypeOK, BodyInv, NEW c \in Captures,
                    page[c].body # NoBody, page[c].method = "GET",
                    page[c].path \notin Gated \/ page[c].mode = "include",
                    page[c].digest = Answered(page[c].path, "GET")
             PROVE  page[c].body = page[c].digest
  BY DEF UnchangedBodyMatches
<1> DEFINE p == page[c]
<1>1. PICK d \in Nat, v \in Nat : d <= v /\ v <= content[p.path] /\ Signed(p, d) /\ Read(p, v)
  BY DEF BodyInv, Attested
<1>2. p.path \in Paths /\ content[p.path] \in Nat
  BY CaptureAssumption DEF TypeOK, Page, CaptureAssumption
<1>3. d = content[p.path]
  BY <1>1 DEF Signed, Answered
<1>4. v = d
  BY <1>1, <1>2, <1>3
<1>5. p.body = <<p.path, "GET", v>>
  BY <1>1 DEF Read
<1> QED
  BY <1>4, <1>5, <1>3 DEF Answered

LEMMA BodyInit == Init => BodyInv
  BY DEF Init, BodyInv, Captures

\* Pages and content that stay keep what is attested.
LEMMA AttestedStays ==
  ASSUME TypeOK, NEW p \in Page, Attested(p), content' \in [Paths -> Nat],
         \A path \in Paths : content[path] <= content'[path]
  PROVE  Attested(p)'
<1>1. PICK d \in Nat, v \in Nat : d <= v /\ v <= content[p.path] /\ Signed(p, d) /\ Read(p, v)
  BY DEF Attested
<1>2. p.path \in Paths /\ content[p.path] \in Nat /\ content'[p.path] \in Nat
  BY CaptureAssumption DEF TypeOK, Page, CaptureAssumption
<1>3. v <= content'[p.path]
  BY <1>1, <1>2
<1> QED
  BY <1>1, <1>3 DEF Attested

LEMMA BodyStep == TypeInv /\ BodyInv /\ [Next]_vars => BodyInv'
<1> SUFFICES ASSUME TypeInv, BodyInv, [Next]_vars PROVE BodyInv'
  OBVIOUS
<1> USE DEF session
<1>0. /\ TypeOK /\ DOMAIN batch \subseteq Captures /\ page \in [Captures -> Page]
      /\ content \in [Paths -> Nat]
  BY CaptureAssumption DEF TypeInv, TypeOK, CaptureAssumption
<1>1. CASE UNCHANGED <<page, captured, content>>
  BY <1>1 DEF BodyInv, Captures, Attested
<1>2. ASSUME NEW path, NEW method, OnBeforeSendHeaders(path, method) PROVE BodyInv'
  BY <1>1, <1>2 DEF OnBeforeSendHeaders
<1>3. ASSUME NEW r, OnPlainHeaders(r) PROVE BodyInv'
  BY <1>1, <1>3 DEF OnPlainHeaders
<1>4. ASSUME NEW r \in DOMAIN pendingRequests, NEW signature \in BOOLEAN,
             OnSignedHeaders(r, signature)
      PROVE  BodyInv'
  <2> DEFINE new == NewPage(captured + 1, pendingRequests[r], signature)
             path == pendingRequests[r].path
  <2>1. /\ captured \in Nat /\ Captures' = 1..(captured + 1) /\ path \in Paths
        /\ \A c \in Captures : page'[c] = page[c]
        /\ page'[captured + 1] = new
    BY <1>4, RecordKeeps
  <2>2. content' = content
    BY <1>4 DEF OnSignedHeaders
  <2>3. content[path] \in Nat /\ content[path] <= content[path]
    BY <1>0, <2>1
  <2>4. Signed(new, content[path]) /\ Read(new, content[path]) /\ new.path = path
    BY DEF NewPage, Signed, Read, Answered
  <2> HIDE DEF new, path
  <2>5. Attested(new)
    BY <2>3, <2>4 DEF Attested
  <2>6. \A c \in 1..(captured + 1) : c = captured + 1 \/ c \in Captures
    BY <2>1 DEF Captures
  <2> QED
    BY <2>1, <2>2, <2>5, <2>6 DEF BodyInv, Attested
<1>5. CASE OnNavigationComplete
  BY <1>1, <1>5 DEF OnNavigationComplete
<1>6. ASSUME NEW c, OnTimer(c) PROVE BodyInv'
  BY <1>1, <1>6 DEF OnTimer
<1>7. ASSUME NEW c \in DOMAIN batch, FetchSucceeds(c) PROVE BodyInv'
  <2>1. captured' = captured /\ content' = content
    BY <1>7 DEF FetchSucceeds
  <2>2. /\ \A d \in Captures \ {c} : page'[d] = page[d]
        /\ page'[c].body = Fetched(page[c].path, batch[c])
        /\ page'[c].mode = batch[c] /\ c \in Captures /\ batch[c] \in {"include", "omit"}
        /\ page'[c].path = page[c].path /\ page'[c].method = page[c].method
        /\ page'[c].digest = page[c].digest
    BY <1>0, <1>7, FetchKeeps DEF Kept
  <2>3. PICK d \in Nat, v \in Nat :
          d <= v /\ v <= content[page[c].path] /\ Signed(page[c], d)
    BY <2>2 DEF BodyInv, Attested
  <2>4. content[page[c].path] \in Nat
    BY <1>0, <2>2 DEF Page
  <2>5. Signed(page'[c], d) /\ d <= content[page[c].path]
    BY <2>2, <2>3, <2>4 DEF Signed
  <2>6. Read(page'[c], content[page[c].path])
    BY <2>2 DEF Read, Fetched, Answered
  <2>7. Attested(page[c])'
    BY <2>1, <2>2, <2>3, <2>4, <2>5, <2>6 DEF Attested, Signed, Read
  <2> QED
    BY <2>1, <2>2, <2>7 DEF BodyInv, Captures, Attested
<1>8. ASSUME NEW c \in DOMAIN batch, FetchFails(c) PROVE BodyInv'
  <2>1. captured' = captured /\ content' = content
    BY <1>8 DEF FetchFails
  <2>2. /\ \A d \in Captures \ {c} : page'[d] = page[d]
        /\ page'[c].body = page[c].body /\ page'[c].mode = page[c].mode /\ c \in Captures
        /\ page'[c].path = page[c].path /\ page'[c].method = page[c].method
        /\ page'[c].digest = page[c].digest
    BY <1>0, <1>8, FailKeeps DEF Kept
  <2>3. Attested(page[c])'
    BY <2>1, <2>2 DEF BodyInv, Attested, Signed, Read
  <2> QED
    BY <2>1, <2>2, <2>3 DEF BodyInv, Captures, Attested
<1>9. CASE EndDrain \/ HostSaves \/ HostRefuses
  BY <1>1, <1>9 DEF EndDrain, HostSaves, HostRefuses
<1>10. ASSUME NEW path \in Paths, Edit(path) PROVE BodyInv'
  <2>1. /\ page' = page /\ captured' = captured
        /\ content' = [content EXCEPT ![path] = @ + 1]
    BY <1>10 DEF Edit
  <2>2. content' \in [Paths -> Nat] /\ \A q \in Paths : content[q] <= content'[q]
    BY <1>0, <2>1
  <2>3. ASSUME NEW c \in Captures PROVE Attested(page[c])'
    <3>1. page[c] \in Page /\ Attested(page[c])
      BY <1>0 DEF BodyInv
    <3> QED
      BY <1>0, <2>1, <2>2, <3>1, AttestedStays DEF Attested
  <2> QED
    BY <2>1, <2>3 DEF BodyInv, Captures
<1>11. CASE UNCHANGED vars
  BY <1>1, <1>11 DEF vars
<1> QED
  BY <1>2, <1>3, <1>4, <1>5, <1>6, <1>7, <1>8, <1>9, <1>10, <1>11 DEF Next, Fetch

\* Only the documented causes part a body from its signature: a method other than
\* GET, a fetch without credentials, or a change at the origin (background.js 124-132).
THEOREM BodiesMatch == Spec => []UnchangedBodyMatches
<1>1. TypeInv /\ BodyInv => UnchangedBodyMatches
  BY BodyMatches DEF TypeInv
<1> QED
  BY <1>1, TypeInit, TypeStep, BodyInit, BodyStep, PTL DEF Spec
-----------------------------------------------------------------------------
(* Saves *)

\* A save holds pages whose bodies had arrived, and no page loses its body.
Complete(p) ==
  /\ p.id \in Captures /\ page[p.id].path = p.path
  /\ page[p.id].body # NoBody /\ page[p.id].signature

\* A path has a capture younger than p.
Overtaken(p) == \E c \in Captures : page[c].path = p.path /\ c > p.id

\* No page of save f is younger than that of save g for its path, and g lacks it
\* only when it was overtaken.
NoNewer(f, g) ==
  \A p \in f : /\ \A q \in g : q.path = p.path => q.id >= p.id
               /\ (\A q \in g : q.path # p.path) => Overtaken(p)

\* The file and the saves under way are in the order in which they were taken; each
\* has one page of a path.
SaveInv ==
  /\ \A p \in file : Complete(p)
  /\ \A k \in 1..Len(saving) : \A p \in saving[k] : Complete(p)
  /\ NoNewer(file, file) /\ \A k \in 1..Len(saving) : NoNewer(file, saving[k])
  /\ \A j, k \in 1..Len(saving) : j <= k => NoNewer(saving[j], saving[k])

LEMMA SaveInit == Init => SaveInv
<1> SUFFICES ASSUME Init PROVE SaveInv
  OBVIOUS
<1>1. file = {} /\ Len(saving) = 0
  BY DEF Init
<1> QED
  BY <1>1 DEF SaveInv, NoNewer

\* What a step adds or fills leaves the order of saves alone.
Onward ==
  /\ Captures \subseteq Captures'
  /\ \A c \in Captures :
       /\ page'[c].path = page[c].path /\ page'[c].signature = page[c].signature
       /\ page[c].body # NoBody => page'[c].body # NoBody

LEMMA FetchedIsBody ==
  ASSUME NEW path, NEW mode
  PROVE  Fetched(path, mode) # NoBody
<1>1. Len(Fetched(path, mode)) \in {2, 3}
  BY DEF Fetched, Answered
<1>2. Len(NoBody) = 1
  BY DEF NoBody
<1> QED
  BY <1>1, <1>2

LEMMA StepsOnward == TypeInv /\ [Next]_vars => Onward
<1> SUFFICES ASSUME TypeInv, [Next]_vars PROVE Onward
  OBVIOUS
<1> USE DEF session
<1>0. TypeOK
  BY DEF TypeInv
<1>1. ASSUME NEW r \in DOMAIN pendingRequests, NEW signature \in BOOLEAN,
             OnSignedHeaders(r, signature)
      PROVE  Onward
  <2>1. /\ captured \in Nat /\ captured' = captured + 1
        /\ \A c \in Captures : page'[c] = page[c]
    BY <1>1, RecordKeeps
  <2>2. Captures \subseteq Captures'
    BY <2>1 DEF Captures
  <2> QED
    BY <2>1, <2>2 DEF Onward
<1>2. ASSUME NEW c \in DOMAIN batch, FetchSucceeds(c) PROVE Onward
  <2>1. /\ Kept /\ \A d \in Captures \ {c} : page'[d] = page[d]
        /\ page'[c].body = Fetched(page[c].path, batch[c])
    BY <1>0, <1>2, FetchKeeps
  <2>2. page'[c].body # NoBody
    BY <2>1, FetchedIsBody
  <2>3. Captures' = Captures
    BY <2>1 DEF Kept, Captures
  <2> QED
    BY <2>1, <2>2, <2>3 DEF Onward, Kept
<1>3. ASSUME NEW c \in DOMAIN batch, FetchFails(c) PROVE Onward
  <2>1. /\ Kept /\ \A d \in Captures \ {c} : page'[d] = page[d]
        /\ page'[c].body = page[c].body
    BY <1>0, <1>3, FailKeeps
  <2>2. Captures' = Captures
    BY <2>1 DEF Kept, Captures
  <2> QED
    BY <2>1, <2>2 DEF Onward, Kept
<1>4. CASE UNCHANGED <<page, captured>>
  BY <1>4 DEF Onward, Captures
<1>5. ASSUME NEW path, NEW method, OnBeforeSendHeaders(path, method) PROVE Onward
  BY <1>4, <1>5 DEF OnBeforeSendHeaders
<1>6. ASSUME NEW r, OnPlainHeaders(r) PROVE Onward
  BY <1>4, <1>6 DEF OnPlainHeaders
<1>7. CASE OnNavigationComplete
  BY <1>4, <1>7 DEF OnNavigationComplete
<1>8. ASSUME NEW c, OnTimer(c) PROVE Onward
  BY <1>4, <1>8 DEF OnTimer
<1>9. CASE EndDrain \/ HostSaves \/ HostRefuses
  BY <1>4, <1>9 DEF EndDrain, HostSaves, HostRefuses
<1>10. ASSUME NEW path, Edit(path) PROVE Onward
  BY <1>4, <1>10 DEF Edit
<1>11. CASE UNCHANGED vars
  BY <1>4, <1>11 DEF vars
<1> QED
  BY <1>1, <1>2, <1>3, <1>5, <1>6, <1>7, <1>8, <1>9, <1>10, <1>11 DEF Next, Fetch

LEMMA CompleteStays ==
  ASSUME Onward, NEW p, Complete(p)
  PROVE  Complete(p)'
  BY DEF Onward, Complete

LEMMA NoNewerStays ==
  ASSUME Onward, NEW f, NEW g, NoNewer(f, g)
  PROVE  NoNewer(f, g)'
<1>1. \A p : Overtaken(p) => Overtaken(p)'
  BY DEF Onward, Overtaken
<1> QED
  BY <1>1 DEF NoNewer

\* The save that ends a drain is taken of the session, which has the newest
\* capture of every path.
LEMMA SentIsNewest ==
  ASSUME TypeOK, SessionInv, NEW f \in SUBSET Page, \A p \in f : Complete(p)
  PROVE  NoNewer(f, {page[c] : c \in Completed})
<1> DEFINE sent == {page[c] : c \in Completed}
<1>0. pages \in Seq(Captures) /\ page \in [Captures -> Page] /\ captured \in Nat
  BY CaptureAssumption DEF TypeOK, CaptureAssumption
<1>1. \A c \in Completed :
        c \in Captures /\ page[c].id = c /\ InSession(c)
  BY <1>0 DEF Completed, Held, InSession, SessionInv
<1>2. ASSUME NEW p \in f
      PROVE  /\ \A q \in sent : q.path = p.path => q.id >= p.id
             /\ (\A q \in sent : q.path # p.path) => Overtaken(p)
  <2>1. p.id \in Captures /\ page[p.id].path = p.path
        /\ page[p.id].body # NoBody /\ page[p.id].signature
    BY DEF Complete
  <2>2. ASSUME NEW q \in sent, q.path = p.path
        PROVE  q.id >= p.id
    <3>1. PICK c \in Completed : q = page[c]
      OBVIOUS
    <3>2. p.id <= c
      BY <1>1, <2>1, <2>2, <3>1 DEF SessionInv, SessionHoldsNewest
    <3>3. c \in Nat /\ p.id \in Nat
      BY <1>0, <1>1, <2>1 DEF Captures
    <3> QED
      BY <1>1, <3>1, <3>2, <3>3
  <2>3. ASSUME \A q \in sent : q.path # p.path
        PROVE  Overtaken(p)
    <3>1. PICK k \in 1..Len(pages) : page[pages[k]].path = p.path
      BY <2>1 DEF SessionInv
    <3> DEFINE c == pages[k]
    <3>2. c \in Captures /\ c \in Held /\ InSession(c)
      BY <1>0 DEF Held, InSession
    <3>3. c \notin Completed
      BY <2>3, <3>1
    <3>4. c # p.id
      BY <2>1, <3>2, <3>3 DEF Completed
    <3>5. p.id <= c
      BY <2>1, <3>1, <3>2 DEF SessionInv, SessionHoldsNewest
    <3>6. c > p.id
      BY <1>0, <2>1, <3>2, <3>4, <3>5 DEF Captures
    <3> QED
      BY <3>1, <3>2, <3>6 DEF Overtaken
  <2> QED
    BY <2>2, <2>3
<1> QED
  BY <1>2 DEF NoNewer

LEMMA SaveStep == TypeInv /\ SessionInv /\ SaveInv /\ [Next]_vars => SaveInv'
<1> SUFFICES ASSUME TypeInv, SessionInv, SaveInv, [Next]_vars PROVE SaveInv'
  OBVIOUS
<1> USE DEF session
<1>0. /\ TypeOK /\ Onward /\ saving \in Seq(SUBSET Page) /\ file \in SUBSET Page
      /\ page \in [Captures -> Page] /\ Len(saving) \in Nat
  BY StepsOnward DEF TypeInv, TypeOK
<1>1. CASE UNCHANGED <<saving, file>>
  BY <1>0, <1>1, CompleteStays, NoNewerStays DEF SaveInv
<1>2. ASSUME NEW path, NEW method, OnBeforeSendHeaders(path, method) PROVE SaveInv'
  BY <1>1, <1>2 DEF OnBeforeSendHeaders
<1>3. ASSUME NEW r, OnPlainHeaders(r) PROVE SaveInv'
  BY <1>1, <1>3 DEF OnPlainHeaders
<1>4. ASSUME NEW r, NEW signature, OnSignedHeaders(r, signature) PROVE SaveInv'
  BY <1>1, <1>4 DEF OnSignedHeaders
<1>5. CASE OnNavigationComplete
  BY <1>1, <1>5 DEF OnNavigationComplete
<1>6. ASSUME NEW c, OnTimer(c) PROVE SaveInv'
  BY <1>1, <1>6 DEF OnTimer
<1>7. ASSUME NEW c, Fetch(c) PROVE SaveInv'
  BY <1>1, <1>7 DEF Fetch, FetchSucceeds, FetchFails
<1>8. CASE EndDrain
  <2> DEFINE sent == {page[c] : c \in Completed}
             n == Len(saving) + 1
  <2>1. CASE saving' = saving
    BY <1>1, <1>8, <2>1 DEF EndDrain
  <2>2. CASE saving' = Append(saving, sent)
    <3>1. sent \in SUBSET Page
      BY <1>0 DEF Completed, Held, TypeOK
    <3>2. ASSUME NEW p \in sent PROVE Complete(p)
      <4>1. PICK c \in Completed : p = page[c]
        OBVIOUS
      <4>2. c \in Captures /\ page[c].body # NoBody /\ page[c].signature
        BY <1>0 DEF Completed, Held, TypeOK
      <4>3. p.id = c
        BY <4>1, <4>2 DEF SessionInv
      <4> HIDE DEF sent
      <4> QED
        BY <4>1, <4>2, <4>3 DEF Complete
    <3>3. /\ NoNewer(file, sent) /\ NoNewer(sent, sent)
          /\ \A k \in 1..Len(saving) : NoNewer(saving[k], sent)
      <4>1. \A f \in SUBSET Page : (\A p \in f : Complete(p)) => NoNewer(f, sent)
        BY <1>0, SentIsNewest
      <4>2. \A k \in 1..Len(saving) : saving[k] \in SUBSET Page
        BY <1>0
      <4> HIDE DEF sent
      <4> QED
        BY <1>0, <3>1, <3>2, <4>1, <4>2 DEF SaveInv
    <3> HIDE DEF sent
    <3>4. /\ Len(saving') = n /\ saving'[n] = sent
          /\ \A k \in 1..Len(saving) : saving'[k] = saving[k]
          /\ \A k \in 1..n : k = n \/ k \in 1..Len(saving)
      BY <1>0, <2>2, <3>1
    <3>5. /\ \A j, k \in 1..n : j <= k => (j = n /\ k = n) \/ j \in 1..Len(saving)
          /\ n = Len(saving) + 1
      BY <1>0
    <3> HIDE DEF n
    <3>6. file' = file
      BY <1>8 DEF EndDrain
    <3>7. \A k \in 1..n : \A p \in saving'[k] : Complete(p)
      BY <3>2, <3>4 DEF SaveInv
    <3>8. \A k \in 1..n : NoNewer(file, saving'[k])
      BY <3>3, <3>4 DEF SaveInv
    <3>9. \A j, k \in 1..n : j <= k => NoNewer(saving'[j], saving'[k])
      BY <3>3, <3>4, <3>5 DEF SaveInv
    <3>10. (\A p \in file : Complete(p)) /\ NoNewer(file, file)
      BY DEF SaveInv
    <3> QED
      BY <1>0, <3>4, <3>6, <3>7, <3>8, <3>9, <3>10, CompleteStays, NoNewerStays DEF SaveInv
  <2> QED
    BY <1>8, <2>1, <2>2 DEF EndDrain
<1>9. CASE HostSaves \/ HostRefuses
  <2>1. saving # <<>> /\ saving' = Tail(saving) /\ file' \in {file, Head(saving)}
    BY <1>9 DEF HostSaves, HostRefuses
  <2>2. /\ Len(saving) >= 1 /\ Len(saving') = Len(saving) - 1 /\ Head(saving) = saving[1]
        /\ \A k \in 1..Len(saving') : saving'[k] = saving[k + 1]
    BY <1>0, <2>1
  <2>3. /\ 1 \in 1..Len(saving)
        /\ \A k \in 1..Len(saving') : k + 1 \in 1..Len(saving) /\ 1 <= k + 1
        /\ \A j, k \in 1..Len(saving') : j <= k => j + 1 <= k + 1
        /\ 1 <= 1
    BY <1>0, <2>2
  <2>4. (\A p \in file' : Complete(p)) /\ NoNewer(file', file')
    BY <2>1, <2>2, <2>3 DEF SaveInv
  <2>5. \A k \in 1..Len(saving') : \A p \in saving'[k] : Complete(p)
    BY <2>2, <2>3 DEF SaveInv
  <2>6. \A k \in 1..Len(saving') : NoNewer(file', saving'[k])
    BY <2>1, <2>2, <2>3 DEF SaveInv
  <2>7. \A j, k \in 1..Len(saving') : j <= k => NoNewer(saving'[j], saving'[k])
    BY <2>2, <2>3 DEF SaveInv
  <2> QED
    BY <1>0, <2>4, <2>5, <2>6, <2>7, CompleteStays, NoNewerStays DEF SaveInv
<1>10. ASSUME NEW path, Edit(path) PROVE SaveInv'
  BY <1>1, <1>10 DEF Edit
<1>11. CASE UNCHANGED vars
  BY <1>1, <1>11 DEF vars
<1> QED
  BY <1>2, <1>3, <1>4, <1>5, <1>6, <1>7, <1>8, <1>9, <1>10, <1>11 DEF Next

\* One step of the file.
FileForward ==
  \A path \in Paths : \A p \in SavedIn(file, path) :
    /\ \A q \in SavedIn(file', path) : q.id >= p.id
    /\ SavedIn(file', path) = {} =>
         \E c \in Captures : page[c].path = path /\ c > p.id

LEMMA FileSteps == TypeInv /\ SaveInv /\ [Next]_vars => [FileForward]_vars
<1> SUFFICES ASSUME TypeInv, SaveInv, Next PROVE FileForward
  BY DEF FileForward
<1> USE DEF session
<1>0. /\ file \in SUBSET Page /\ saving \in Seq(SUBSET Page)
  BY DEF TypeInv, TypeOK
<1>1. CASE file' = file
  <2>1. \A p, q \in file : q.path = p.path => q.id >= p.id
    BY DEF SaveInv, NoNewer
  <2> QED
    BY <1>1, <2>1 DEF FileForward, SavedIn
<1>2. CASE HostSaves
  <2>1. file' = saving[1] /\ 1 \in 1..Len(saving)
    BY <1>0, <1>2 DEF HostSaves
  <2>2. NoNewer(file, file')
    BY <2>1 DEF SaveInv
  <2> QED
    BY <2>2 DEF FileForward, SavedIn, NoNewer, Overtaken
<1>3. HostSaves \/ file' = file
  BY DEF Next, OnBeforeSendHeaders, OnPlainHeaders, OnSignedHeaders, OnNavigationComplete,
         OnTimer, Fetch, FetchSucceeds, FetchFails, EndDrain, HostRefuses, Edit
<1> QED
  BY <1>1, <1>2, <1>3

\* The session file never goes back while its saves arrive in order
\* (background.js 76-77, 213-218).
THEOREM FileForwardHolds == Spec => FileNeverRegresses
<1>1. TypeInv /\ SessionInv /\ SaveInv /\ [Next]_vars => [FileForward]_vars
  BY FileSteps
<1> QED
  BY <1>1, TypeInit, TypeStep, SessionInit, SessionStep, SaveInit, SaveStep, PTL
  DEF Spec, FileNeverRegresses, FileForward
=============================================================================
