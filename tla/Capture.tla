------------------------------ MODULE Capture ------------------------------
(***************************************************************************)
(* Capture of signed responses in one tab                                  *)
(* (src/extension/background/background.js, 11-229).                       *)
(*                                                                         *)
(* webRequest shows the headers of a signed response but not its body, so  *)
(* each response is recorded as a page without a body and drained later:   *)
(* drainPendingBodies fetches every body once more from the origin and     *)
(* then saves the session through the native host.  Three triggers start a *)
(* drain; while one runs, the others return at once.                       *)
(*                                                                         *)
(* Pages are objects: a drain holds on to the ones it started with, even   *)
(* when a newer response of the same path replaces one in the session.     *)
(* The extension's own fetches carry no tab and leave no trace (22, 43).   *)
(***************************************************************************)
EXTENDS Naturals, Sequences, FiniteSets

CONSTANTS
  Paths,        \* pathname and query of the origin's pages
  Gated,        \* the paths that show a sign-in page without credentials
  Methods,      \* the request methods the tab uses: GET, POST
  MaxRequests,  \* bound: requests the tab makes
  MaxEdits,     \* bound: changes of a page's content at the origin
  MaxRefused    \* bound: saves the host refuses

ASSUME CaptureAssumption ==
  /\ Gated \subseteq Paths
  /\ Methods \subseteq {"GET", "POST"}
  /\ MaxRequests \in Nat /\ MaxEdits \in Nat /\ MaxRefused \in Nat

VARIABLES
  pendingRequests,  \* request id -> what onBeforeSendHeaders registered
  requests,         \* requests made; their ids are 1..requests
  page,             \* capture id -> page object
  captured,         \* pages created; their ids are 1..captured
  pages,            \* session.pages: capture ids in order
  draining,         \* session._draining
  batch,            \* capture id -> credentials mode of the fetch under way
  timers,           \* captures whose 2.5 s timer is armed
  saving,           \* saves posted to the host, oldest first; a save is its set of pages
  file,             \* the pages the session file holds
  refused,          \* saves the host refused
  content           \* path -> version the origin serves

session == <<page, captured, pages, draining, batch>>
vars == <<pendingRequests, requests, session, timers, saving, file, refused, content>>

NoBody == <<"none">>

\* What the origin answers a request, and what its signature covers.
Answered(path, method) == <<path, method, content[path]>>

\* Mutant: the fetch may be served from the browser's cache.
FetchedCached(path, mode) == <<path, "GET", 0>>

\* What a fetch with the given credentials mode brings back.
Fetched(path, mode) ==
  IF path \in Gated /\ mode = "omit" THEN <<path, "sign-in">> ELSE Answered(path, "GET")

-----------------------------------------------------------------------------
(* webRequest *)

\* onBeforeSendHeaders: remember the request until its headers arrive.
OnBeforeSendHeaders(path, method) ==
  /\ requests < MaxRequests
  /\ requests' = requests + 1
  /\ pendingRequests' = [r \in DOMAIN pendingRequests \cup {requests + 1} |->
       IF r = requests + 1 THEN [path |-> path, method |-> method] ELSE pendingRequests[r]]
  /\ UNCHANGED <<session, timers, saving, file, refused, content>>

\* Mutant: the request is not deleted when its headers are handled.
ForgetNot(r) == UNCHANGED pendingRequests

\* pendingRequests.delete, before anything else is looked at.
Forget(r) == pendingRequests' = [q \in DOMAIN pendingRequests \ {r} |-> pendingRequests[q]]

NewPage(c, req, signature) ==
  [id |-> c, path |-> req.path, method |-> req.method,
   digest |-> Answered(req.path, req.method), signature |-> signature,
   body |-> NoBody, mode |-> "none", pending |-> TRUE]

\* Mutant: only pages whose body has arrived count as captures of the path.
SamePathFetched(path) ==
  {k \in 1..Len(pages) : page[pages[k]].path = path /\ ~page[pages[k]].pending}

\* Where the session already holds a capture of the path.
SamePath(path) == {k \in 1..Len(pages) : page[pages[k]].path = path}

\* One capture per path: replace the existing one in place, or append.
Record(path, c) ==
  IF SamePath(path) # {}
  THEN LET k == CHOOSE k \in SamePath(path) : \A j \in SamePath(path) : k <= j
       IN [pages EXCEPT ![k] = c]
  ELSE Append(pages, c)

\* onHeadersReceived of a signed response: create the pending page, put it in
\* the session and arm its timer.  x-gps-signed may come without a signature.
OnSignedHeaders(r, signature) ==
  LET req == pendingRequests[r]
      c == captured + 1
  IN /\ Forget(r)
     /\ captured' = c
     /\ page' = [k \in 1..c |-> IF k = c THEN NewPage(c, req, signature) ELSE page[k]]
     /\ pages' = Record(req.path, c)
     /\ timers' = timers \cup {c}
     /\ UNCHANGED <<requests, draining, batch, saving, file, refused, content>>

\* A response without x-gps-signed is not recorded.
OnPlainHeaders(r) ==
  /\ Forget(r)
  /\ UNCHANGED <<requests, session, timers, saving, file, refused, content>>

-----------------------------------------------------------------------------
(* Draining *)

\* The captures of the session.
Held == {pages[k] : k \in 1..Len(pages)}

\* Mutant: every page of the session is fetched, pending or not.
PendingAny == Held

\* The pages a drain starts with.
Pending == {c \in Held : page[c].pending}

\* drainPendingBodies up to its first await.
StartDrain ==
  IF draining \/ Pending = {}
  THEN UNCHANGED <<draining, batch>>
  ELSE /\ draining' = TRUE
       /\ batch' = [c \in Pending |-> "include"]

\* tabs.onUpdated and webNavigation.onCompleted: whenever the browser says so.
OnNavigationComplete ==
  /\ StartDrain
  /\ UNCHANGED <<pendingRequests, requests, page, captured, pages, timers,
                 saving, file, refused, content>>

\* The timer of capture c.
OnTimer(c) ==
  /\ c \in timers
  /\ timers' = timers \ {c}
  /\ StartDrain
  /\ UNCHANGED <<pendingRequests, requests, page, captured, pages,
                 saving, file, refused, content>>

Finish(c) == batch' = [d \in DOMAIN batch \ {c} |-> batch[d]]

\* The fetch of c answers: the page object gets the body, in the session or not.
FetchSucceeds(c) ==
  /\ c \in DOMAIN batch
  /\ page' = [page EXCEPT ![c].body = Fetched(page[c].path, batch[c]),
                          ![c].mode = batch[c], ![c].pending = FALSE]
  /\ Finish(c)
  /\ UNCHANGED <<pendingRequests, requests, captured, pages, draining, timers,
                 saving, file, refused, content>>

\* Mutant: _pending_url is not deleted when the fetch fails.
GiveUpPending(c) == page

\* Record the failure: the page will not be fetched again.
GiveUp(c) == [page EXCEPT ![c].pending = FALSE]

\* It fails: retry without credentials.  When the retry fails too, or a body does
\* not arrive whole, or it is empty, the page is given up.
FetchFails(c) ==
  /\ c \in DOMAIN batch
  /\ \/ /\ batch[c] = "include"
        /\ batch' = [batch EXCEPT ![c] = "omit"]
        /\ UNCHANGED page
     \/ /\ page' = GiveUp(c)
        /\ Finish(c)
  /\ UNCHANGED <<pendingRequests, requests, captured, pages, draining, timers,
                 saving, file, refused, content>>

\* Mutant: only what the file does not hold yet is sent.
CompletedUnsaved ==
  {c \in Held : page[c].body # NoBody /\ page[c].signature /\ \A p \in file : p.id # c}

\* Mutant: bodies fetched without credentials are not sent.
CompletedIncluded == {c \in Held : page[c].mode = "include" /\ page[c].signature}

\* The pages saveSessionToHost sends; their order is the session's.
Completed == {c \in Held : page[c].body # NoBody /\ page[c].signature}

\* Every fetch is over: release the guard and post the save, if there is
\* something to save.
EndDrain ==
  /\ draining
  /\ batch = <<>>
  /\ draining' = FALSE
  /\ saving' = IF Completed = {} THEN saving
               ELSE Append(saving, {page[c] : c \in Completed})
  /\ UNCHANGED <<pendingRequests, requests, page, captured, pages, batch, timers,
                 file, refused, content>>

-----------------------------------------------------------------------------
(* The host and the origin *)

\* save_session: the file of this session is overwritten.
HostSaves ==
  /\ saving # <<>>
  /\ file' = Head(saving)
  /\ saving' = Tail(saving)
  /\ UNCHANGED <<pendingRequests, requests, session, timers, refused, content>>

\* The save fails: it is logged and not tried again.
HostRefuses ==
  /\ saving # <<>>
  /\ refused < MaxRefused
  /\ refused' = refused + 1
  /\ saving' = Tail(saving)
  /\ UNCHANGED <<pendingRequests, requests, session, timers, file, content>>

\* The origin changes a page.
Edit(path) ==
  /\ content[path] < MaxEdits
  /\ content' = [content EXCEPT ![path] = @ + 1]
  /\ UNCHANGED <<pendingRequests, requests, session, timers, saving, file, refused>>

Init ==
  /\ pendingRequests = <<>>
  /\ requests = 0
  /\ page = <<>>
  /\ captured = 0
  /\ pages = <<>>
  /\ draining = FALSE
  /\ batch = <<>>
  /\ timers = {}
  /\ saving = <<>>
  /\ file = {}
  /\ refused = 0
  /\ content = [p \in Paths |-> 0]

Fetch(c) == FetchSucceeds(c) \/ FetchFails(c)

Next ==
  \/ \E path \in Paths, method \in Methods : OnBeforeSendHeaders(path, method)
  \/ \E r \in DOMAIN pendingRequests :
       OnPlainHeaders(r) \/ \E signature \in BOOLEAN : OnSignedHeaders(r, signature)
  \/ OnNavigationComplete
  \/ \E c \in timers : OnTimer(c)
  \/ \E c \in DOMAIN batch : Fetch(c)
  \/ EndDrain
  \/ HostSaves \/ HostRefuses
  \/ \E path \in Paths : Edit(path)

Spec == Init /\ [][Next]_vars

\* Timers fire, fetches end, the code after the await runs and the host takes
\* what it is sent.  The tab, the browser's navigation events and the origin owe
\* nothing.
Fairness ==
  /\ \A c \in 1..MaxRequests : WF_vars(OnTimer(c)) /\ WF_vars(Fetch(c))
  /\ WF_vars(EndDrain)
  /\ WF_vars(HostSaves \/ HostRefuses)

FairSpec == Spec /\ Fairness

-----------------------------------------------------------------------------
(* Properties *)

Captures == 1..captured
InSession(c) == \E k \in 1..Len(pages) : pages[k] = c
Body == {NoBody} \cup (Paths \X {"sign-in"}) \cup (Paths \X {"GET", "POST"} \X Nat)
Page == [id : Nat, path : Paths, method : Methods, digest : Body, signature : BOOLEAN,
         body : Body, mode : {"none", "include", "omit"}, pending : BOOLEAN]

\* Every variable has its type.
TypeOK ==
  /\ requests \in 0..MaxRequests
  /\ DOMAIN pendingRequests \subseteq 1..requests
  /\ pendingRequests \in [DOMAIN pendingRequests -> [path : Paths, method : Methods]]
  /\ captured \in 0..requests
  /\ page \in [Captures -> Page]
  /\ pages \in Seq(Captures)
  /\ draining \in BOOLEAN
  /\ DOMAIN batch \subseteq Captures /\ batch \in [DOMAIN batch -> {"include", "omit"}]
  /\ timers \subseteq Captures
  /\ saving \in Seq(SUBSET Page) /\ file \in SUBSET Page
  /\ refused \in 0..MaxRefused
  /\ content \in [Paths -> 0..MaxEdits]

\* The session holds exactly the newest capture of each path, although captures of
\* one path may be in flight at once (background.js 76-79, 99).
SessionHoldsNewest ==
  /\ \A k, j \in 1..Len(pages) : k # j => page[pages[k]].path # page[pages[j]].path
  /\ \A c \in Captures :
       InSession(c) <=> \A d \in Captures : page[d].path = page[c].path => d <= c

\* A drain fetches a page at most once: outside a drain nothing is being fetched,
\* and what is being fetched is still pending, so that no later drain repeats it
\* (background.js 114, 118-121).
FetchedOnce ==
  /\ ~draining => batch = <<>>
  /\ \A c \in DOMAIN batch : page[c].pending /\ page[c].body = NoBody

\* A body is what the origin signed if the page was answered to a GET, is readable
\* with the credentials its fetch used and has not changed (background.js 124-132).
UnchangedBodyMatches ==
  \A c \in Captures :
    LET p == page[c] IN
    /\ p.body # NoBody /\ p.method = "GET"
    /\ p.path \notin Gated \/ p.mode = "include"
    /\ p.digest = Answered(p.path, "GET")
    => p.body = p.digest

SavedIn(f, path) == {p \in f : p.path = path}

\* The session file never goes back: a path leaves it only when a newer response of
\* that path was captured, and the page saved for a path is never an older one
\* (background.js 76-77, 213-218: the host overwrites one file per session).
FileNeverRegresses ==
  [][\A path \in Paths : \A p \in SavedIn(file, path) :
       /\ \A q \in SavedIn(file', path) : q.id >= p.id
       /\ SavedIn(file', path) = {} =>
            \E c \in Captures : page[c].path = path /\ c > p.id]_vars

\* The timer is enough for a page recorded while no drain runs: even without a
\* navigation event the page is fetched, given up or replaced (background.js 101-103).
TimerSuffices ==
  \A c \in 1..MaxRequests :
    (c \in timers /\ InSession(c) /\ ~draining) ~> ~(InSession(c) /\ page[c].pending)

\* A signed page whose body arrived reaches the session file, unless a newer response
\* replaces it or the host refuses a save (background.js 178-179, 194-229).
FetchedIsSaved ==
  \A c \in 1..MaxRequests :
    (InSession(c) /\ page[c].body # NoBody /\ page[c].signature)
      ~> (\E p \in file : p.id = c) \/ ~InSession(c) \/ refused > 0

\* background.js 101: "Timer trigger: fires even when no navigation event arrives."
\* So every page recorded is fetched, given up or replaced.
EveryPageDrained ==
  \A c \in 1..MaxRequests :
    InSession(c) ~> ~(InSession(c) /\ page[c].pending)
=============================================================================
