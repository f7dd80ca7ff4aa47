# A verification project for the GPS prover

GPS turns a web page a browser has already received into a proof about one value
on it: an origin signs its responses, a browser extension captures them, a native
host runs a zkVM guest over the capture, and the guest commits to "the field of
this page satisfies this predicate" without publishing the page. This directory
holds TLA+ models of that program, TLC configurations that check them on small
instances, and proofs checked by TLAPS. Paths below are relative to `src/`.

## 1. Inventory

| Component | Where | State it keeps | Operations | What makes it correct |
|---|---|---|---|---|
| Capture | `extension/background/background.js` 11-229 | `inMemorySessions` (pages, `_draining`), `pendingRequests`, one 2.5 s timer per page | webRequest listeners, `drainPendingBodies`, `saveSessionToHost` | one newest capture per path; each page fetched once; every fetched page is saved; the file never goes back |
| Native bridge | `background.js` 231-327 | `nativePort`, `pendingCallbacks`, `pendingMessages`, `retriedOnce`, `msgId`, timers | `nativeCall`, `connectNative`, onMessage, onDisconnect, three timers | every call settled once, with its own answer or an error; bounded replay; a drop is recovered |
| Message handler | `background.js` 329-426 | none | forwards popup requests to the bridge | requests arrive unchanged |
| Popup, content script | `extension/popup`, `extension/content` | form state, selection | write field patterns, build a proof request | the pattern means what the user pointed at |
| Host message loop | `zkvm/host/src/main.rs` 619-644 | none between requests | read, handle, echo `_id`, reply | one reply per request, in order |
| Host pipeline | `main.rs` 103-287, 572-893, 1156-1192 | session files, the two output files, `RISC0_DEV_MODE` | save, load, hint, prove, command line | a saved file is whole and newest; hint and proof read the same session; mode and salt are those of the request |
| Regex lowering | `main.rs` 440-569 | none | `parse_field_spec`, `regex_to_anchored`, `unescape_literal` | the rule of the proof reads what the pattern captures |
| Guest | `zkvm/methods/guest/src/main.rs` | `trusted` (keyid -> key), `verified` (page keys), `field_results` | one check after another per field, then commit | every result is attested by a signed page; all or nothing |
| Extraction | `zkvm/gps-core/src/lib.rs` 90-398, 575-603 | none | anchored extraction, numbers, dates, ages | a number is read whole and in one convention, or not at all; dates and ages follow the calendar |
| Predicates and redaction | `lib.rs` 400-523, `guest` 338-500, `host` 295-392 | none | evaluate, redact, commit, `verify-value`, `verify-provenance` | what is committed is what was compared; nothing else is in the clear; a revealed salt proves that and no more |
| Origin signer | `gps-server/lua` | none | signature base and header per response | the guest rebuilds the same base |
| Verifiers | `verifier.html`, `zkvm/risc0-verifier`, `main.rs` 394-426, 975-1143 | none | check and show one proof file | all accept the same proofs |
| Key registry | `nginx/keys`, `generate_keys.sh` | a JSON file | load | entries are root-signed |

How they interact: the extension's listeners and timers share memory and run one
at a time; each port to the host is a pair of FIFO pipes to a process of its own;
capture saves (`save_session`) and the popup's proofs travel over the same bridge;
host processes and the command line share session files; host and guest share the
code of `gps-core`; origin and guest share only the definition of a signature base,
written twice in two languages; content script and host share only the characters
one escapes and the other unescapes.

What is hard here: a port may be lost at any point while answers, reconnect timers,
replays and new calls are under way, and several host processes can be alive at once,
writing one file; a page's body is fetched after its signed headers, by drains that
overlap with new responses; the guest skips checks it believes it has made (two
caches); the host reads one session file twice; pairs of parsers (pattern and rule,
extractor and reader, redaction and evaluation, escape and unescape, formatting and
parsing an image id) must agree. `PROJECT.json` lists each of these hazards at its line.

## 2. Modules

```
CallService ........... what a caller of nativeCall may rely on (abstract)
NativeBridge .......... the bridge and the hosts behind its ports; implements CallService
  NativeBridgeProofs, NativeBridgeRefinement ... theorems
Capture ............... capture, draining and saving for one tab
  CaptureProofs ....... theorems
ProofPipeline ......... hosts and a command line that share session files
  MCProofPipeline ..... its requests and sessions for TLC
  ProofPipelineProofs . theorems
Guest ................. the guest's program, one check per step
  GuestProofs ......... theorems
Verifiers ............. the proof file, and the programs and the page that read it
MCGuest ............... the small inputs of Guest, and Verifiers over what it commits
Calendar .............. valid_ymd, civil_from_days, age_years
Extraction ............ extract_anchored, numbers and dates, compute_age; extends Calendar
Lowering .............. patterns and the rules they become; extends Extraction
Disclosure ............ predicates, redaction, salts, commitments; extends Extraction
MCExtraction .......... reference definitions, and the texts and days for Extraction
MCRules ............... the same for Lowering and Disclosure; extends MCExtraction
  RulesProofs ......... theorems about days, what is extracted, predicates and salts
  LoweringProofs ...... theorems about the grammar of numbers, literals and patterns
SequenceLemmas ........ induction over a set of naturals, and functions by recursion
```

A definition whose comment begins with "Mutant" is not part of a model: it is a
plausible bug in the definition below it, under which the property named in
`PROJECT.json` must fail.

### NativeBridge

| Model | Code |
|---|---|
| `nativePort`, `pendingCallbacks`, `pendingMessages`, `retriedOnce`, `msgId` | the variables of those names (the maps as sets of ids) |
| `port[p]` | one `connectNative()` result: what the host has not read (`inbox`), works on (`running`), has answered (`outbox`), and whether it is open, lost, or lost and noticed |
| `timers` | armed `setTimeout`s in arming order: 250 ms (`Reconnect`, with its `inFlight` snapshot), 2 s (`RetryConnect`), 5 s (`Unreachable`) |
| `replay` | what the running loop of the 250 ms callback has still to visit |
| `outcome`, `posts`, `runs` | history: how a promise was settled, how often a message was posted and begun by a host |
| `NativeCall`, `OnMessage`, `OnDisconnect`, `FireReconnect` + `ReplayNext`, `FireRetryConnect`, `FireUnreachable` | the handlers, each a whole handler; only the replay loop takes one step per id, and no other handler runs in between (`Quiet`) |
| `HostRead`, `HostReply`, `PortDrop` | `run_native_messaging`, and its death at any point |

A port that has dropped but whose `onDisconnect` has not run still accepts
`postMessage`, or throws: both are allowed. Answers written before the drop may still
be delivered. A timer fires only when every timer armed earlier has a longer delay
(`Due`); how long 250 ms, 2 s and 5 s are compared with a host's work is left open.
The ping post inside `connectNative` is taken not to throw: a port just opened has not
dropped yet.

### Capture

`pendingRequests`, `page` (page objects), `pages` (`session.pages`, as object ids),
`draining`, `timers` are the code's. `batch` is the set of fetches a drain awaits with
the credentials mode each is in; `saving` the saves posted to the host, each the set of
pages it holds; `file` the session file; `content` the version the origin serves. A drain
is `StartDrain` (up to the first await), `FetchSucceeds`/`FetchFails` per page, and
`EndDrain` (release the guard, filter the completed pages, post the save). Page objects
keep their identity, so a drain may fill an object a newer response has already pushed
out of the session. Saves arrive in order here; what a replay does to their order is
`ProofPipeline`'s subject. The paths of the model belong to one origin: the code compares
`pathname + search` only (75-79), see section 4.

### ProofPipeline

| Model | Code |
|---|---|
| process `Cli`, processes `Hosts` | `gps-host prove` run by a user, and one native host after another |
| `files[p]` | the content of a session file as blocks, each marked with the save that wrote it |
| `Opened`, `Put`, `Open`, `Write` | `fs::write`: the file is truncated and then written from its start, while others read it |
| `Parsed` | `load_session`: a content that is all of one save parses, any other does not |
| `inbox`, `resend`, `Drop`, `ReplayNext` | a port, and the replay loop of the extension after it is lost |
| `TakeSave`, `TakeProof` | `handle_native_request`, up to its first access to a file |
| `Hint`, `Load`, `Abort`/`Prove` | `pre_extract_values` field by field, the loads path by path, `run_proof` |
| `RunCli`, `WriteProof`, `WriteSalt` | `run_prove_multi` and its two output files |
| `Kill` | the death of any process at any step |
| `spoilt`, `written`, `again`, `task[a].touched` | history that only the properties read |

What a rule reads differs between any two sessions, so a save stands for the values it
holds: a hint is the number of a save, and the guest's binding assertion (`Binds`) is that
the hint and the loaded session are of the same save. `Abort` may happen without a reason
too: what else the guest checks is `Guest`'s subject. The bridge is reduced here to what
it does to the order of messages; `NativeBridge` has it whole. The extension posts nothing
between a drop and the end of the replay, which excludes calls made in those 250 ms:
`NativeBridge` shows they are never posted at all (finding 1).

### Guest

The inputs are CONSTANTS: the lists of sessions, registries and requests. A run is one
state per check of the loop body (`salt`, `locate`, `digest`, `key`, `signature`,
`extract`, `predicate`, `commit`), and a panic is `Panic`, which keeps the stage. The two
caches are variables. Cryptography is symbolic: a body is its own digest, a signature is
a pair of key and signed base, and a root signature a flag of the entry. The extractor
and the predicate evaluator are parameters (`Extract`, `Holds`). The `date` header, which
is signed but read by nothing, is left out of the base.

### Verifiers

Operators over a journal of `Guest`: the proof file (`BuildOutputJson`), `gps-host verify`,
the endpoint of `verify-serve`, the stand-alone `risc0-verifier`, and the page, with the
image id formatted by one and parsed by another. A receipt is a record of what it proves;
`Verifies` is what RISC Zero documents of `Receipt::verify`: a receipt without a proof in it,
which a prover makes under `RISC0_DEV_MODE`, verifies only when the verifying process runs
under it too. The mode of the prover and that of the verifier are two processes'
environments; `VerifiersAgree` is about a verifier that runs without it, as the guide's
commands do, and `DevModeRejected` about any. A word of an image id has two digits instead of
eight. `MCGuest` adds `Another`, the image id of another guest.

### Calendar, Extraction, Lowering, Disclosure

Pure functions, so operators and no state. A text is a sequence of characters; `None` is
the empty sequence, since no number, date or literal in use is empty. The loops that walk
an index over bytes are written as what they stop at: `RunEnd` (the end of a run of
digits), `GroupsEnd`, `FractionEnd`, `Starts`, `Continues`. `number_at` (which cuts a token
out of a page) and `normalise_number` (which reads one) are two parsers in the code and
stay two here, although the model lets them share the operators for a sign, a group and a
fraction: a group of the wrong length ends the integer in the first and refuses the text
in the second, which comes to the same since nothing may follow. `Quotient` is Rust's
division, which truncates. `ComputeAge` is the guest's own splitting of a date, with
`NoAge` for its panics.

In `Lowering` the pieces a host looks for as a whole (`[0-9]{4}`, `.{0,`, `regex:`) are
single characters of a pattern. In `Disclosure` the words `contains` and `age` are, a digest stands
for the text it was taken over, and decimal fractions are compared as pairs of integers
instead of `f64`.

`MCExtraction` and `MCRules` give TLC something to walk: a body, a literal, a predicate
and a salt that grow by a character, and a day that passes. They hold the references the
operators are compared with: a grammar of numbers (`Numeral`, `Plainly`), the number a
reader sees (`Printed`), what a pattern captures (`Captured`), the dates in sequence
(`NextDate`), and a count of birthdays. What a property quantifies over beside
the states is a constant, so that theorems hold of every choice of it: the days whose
spellings are read back (`Sampled`), the births, and the salts, values, rules and bodies of
`Disclosure`.

## 3. Runs

| Run | Bounds | Shows |
|---|---|---|
| `bridge` | 2 calls, 3 drops, 1 refused connection, fair | `NothingForgotten`, `PendingInStep`, `BoundedReplay`, `AnswerIsOwn`, `OneDropIsRecovered`, `OutcomeFinal`; `EverySettled`; `ImplementsService`: the bridge refines `CallService!FairSpec` |
| `bridge_unsent` | 2 calls, 2 drops | finding 1: `GivenUpWasSent` is violated |
| `capture` | 2 requests, 2 paths (one gated by a login), GET and POST, 1 edit, 1 refused save, fair | `FetchedOnce`, `UnchangedBodyMatches`, `SessionHoldsNewest`, `FileNeverRegresses`; `TimerSuffices`, `FetchedIsSaved` |
| `capture_lost` | 2 requests, 2 paths, fair | finding 3: `EveryPageDrained` is violated |
| `pipeline` | 2 saves of 2 files (of 1 or 2 blocks), 2 proofs, 1 drop or death | `QuietFileWhole`, `RegressNeedsReplay`, `BindsUnlessSaved`, `DevModeAsAsked`, `SaltBesideProof` |
| `guest` | sessions of up to 2 + 1 pages, up to 2 fields, 3 registries, 8 kinds of damage | `JournalSound`, `AllOrNothing`, `FirstUseCovered`, `ProvenanceSigned`, `HonestNotRejected`; `VerifiersAgree` |
| `guest_authority` | the same, undamaged | finding 2: `EveryUseCovered` is violated |
| `guest_dev_mode` | the same, undamaged | finding 7: `DevModeRejected` is violated |
| `rules` | bodies of up to 8 characters; the days of years 0-3 and 1600-2100; literals of up to 4, predicates of up to 5, salts of up to 6 characters | `NumbersConform`, `NumbersRead`; `DatesReadBack`, `AgeCountsBirthdays`; `LiteralsSurvive`, `LoweringAgrees`; `NoReadingGuessed`, `CommitsToCompared`, `ValueStaysHidden`, `CommitmentsChecked`, `SaltNeverDropped` |
| `rules_lowering` | bodies of up to 6 characters | finding 6: `LoweringKeepsReading` is violated |
| `extraction_window` | bodies of up to 6, a window of 3 | finding 4: `WholeNumber` is violated |
| `extraction_age` | six birth dates | finding 5: `AgeOfStatedDate` is violated |

Why the bounds are enough to be interesting. *Bridge*: two calls are what a misrouted
answer or an unfair snapshot needs; three drops let a call be replayed, lose that port
and lose a third one while two reconnect timers are armed; a refusal covers the 2 s
retry and an empty `nativePort` in a reconnect. *Capture*: two responses of one path
give a replacement of a page in flight, two of two paths a batch of which one fetch fails.
*Pipeline*: two saves of one file, on two hosts after a drop, are a torn file and a file
that goes back; two files with a request for both in the other order are a load after a
hint; two proofs are two modes and two salts in one process; a file of two blocks can be
read and abandoned half way. *Guest*: two fields are what the caches need (a hit and a
miss), three pages over two sessions give equal prefixes, equal ids and equal URLs.
*Rules*: eight characters (one less where something precedes the anchor) hold an anchor, a
lead of one to three digits, a group and one character that follows or a fraction, and
(without an anchor) four digits and a group; the code looks no further than four
characters beyond a token. All digits behave alike, so one stands for all. The days cover
the era before the algorithm's epoch and the year 0, and a whole 400-year era with three
common century years and one leap one; spellings are read back over the turns to 2000 and to
2100, ages where the seconds fit TLC's 32-bit integers (1901 to 2038). Predicates of five
characters hold an operator, a space, a pair of quotes and an operand; six characters of
salt are a salt, two too many, and an odd number in between.

The pipeline's deadlock, the bridge's and the capture's are not checked: an extension with
nothing left to do stops, and so does a bounded environment; the same for texts and days
that have reached their length. `Guest` does check it: a run that has neither committed
nor aborted always has a next check.

### Fairness

*Bridge*: weak fairness of the worker's event loop as a whole (a queued event or a due
timer is eventually handled) and of the hosts as a whole. Nothing obliges a caller to
call or a port to drop. *Capture*: each timer fires, each fetch ends one way or the
other, the code after `Promise.all` runs, and the host takes what it is sent. The
browser's navigation events, the user and the origin owe nothing: that is why the
timer's sufficiency is a property. The other modules state no liveness: `Guest` is
one loop over a finite list, and whether a prover ends is not the code's to promise.

## 4. Findings

1. `bridge_unsent` - `background.js:239`: "each pending call keeps its message and is
   re-sent once before failing". A call made while the port is down opens a port but is
   never posted on it; five seconds later it is reported unreachable beside a living host.
2. `guest_authority` - `GUIDE.md:97`: "a registry entry whose authority matches the
   page". Authority and expiry are compared for the first page of each keyid only.
3. `capture_lost` - `background.js:101`: "fires even when no navigation event arrives".
   A response recorded during a drain that outlasts its timer is never fetched.
4. `extraction_window` - `gps-core/src/lib.rs:253`: "A match has to be the whole number, not
   a piece cut out of one written in some other convention". The region ends where the
   window ends, so a number that crosses it is read as its leading digits.
5. `extraction_age` - `README.md:58`: "age is calendar-correct". The age predicate takes the
   parts of any value as year, month and day; a JSON or regex value `13/06/2000` is the
   year 13.
6. `rules_lowering` - `main.rs:498`: "Both paths are sound; they differ only in cost".
   Where a number of another shape stands between the label and the number a pattern
   names, the pattern captures the second and the rule it is lowered to reads the first.
7. `guest_dev_mode` - `GUIDE.md:184`: "A **dev-mode** proof (`dev_mode:true`) is **rejected**
   here, dev receipts can never pass as real" (so also `GUIDE.md:76`, `risc0-verifier`'s
   `main.rs:13`, `verifier.html:468`). `receipt.verify` is called whatever the environment, and
   no Cargo feature disables dev mode: with `RISC0_DEV_MODE=1` in the verifier's environment, as
   the test scripts export it, all three verifiers call such a proof valid, and the page shows
   it as verified beside its dev-mode badge. Without it they refuse it (`VerifiersAgree`).

Met while modelling, without a run:

- `background.js:124` calls the fetched body "byte-identical to what NGINX signed", but it
  comes from a second request: when the page changes in between, the saved body is not what
  the saved digest covers, and the guest refuses it (`UnchangedBodyMatches` says what is
  left of the promise).
- `background.js:274` says "Second failure", but every drop snapshots all pending calls,
  whichever port carries them: the drop of another port reports a call as lost whose replay
  a living host is executing, and its answer finds nobody.
- `background.js:75-79`: the path of a capture is compared without its authority, so in a
  tab that visits two origins the page of one replaces the same path of the other.
- `lib.rs:224` says `number_at` returns a well-formed number of its convention, but
  `1111.111` is returned under `EuGrouped`, which `normalise_number` refuses.
- `GUIDE.md:200` says the page shows "the per-field predicates and provenance", but the proof
  file leaves the provenance of each field out (`main.rs` 410-415), and the page shows the first
  field's source, URL, session, anchor and body commitment beside every field.
- `main.rs:341-348`: `verify-value` looks for the rule's commitment in the predicate, which
  repeats the rule, so a value that was only read is reported as found in both.
- `main.rs:737`: the native branch draws a salt per proof and hands it to nobody, so
  what such a proof commits to cannot be opened later.

## 5. Theorems

Each holds of the module's `Spec` (`RulesSpec` for the rules) for every value of its
constants that the module's assumptions allow. Four assume more of the constants, and say
so: `UrisSigned` in two theorems of the guest, `WindowHolds` in `NumbersReadWhole` and
`LoweringAlwaysAgrees`, and `WindowSpelled` in the latter too.

| Module | Theorem | Property |
|---|---|---|
| `NativeBridgeProofs` | `TypeInvariant`, `PendingInStepHolds`, `BoundedReplayHolds`, `OutcomeFinalHolds`, `AnswerIsOwnHolds`, `NothingForgottenHolds` | `TypeOK`, `PendingInStep`, `BoundedReplay`, `OutcomeFinal`, `AnswerIsOwn`, `NothingForgotten` |
| | `OneDropRecovers` | `OneDropIsRecovered` |
| `NativeBridgeRefinement` | `BridgeImplementsService` | `Spec => Service!Spec`, the safety half of `ImplementsService` |
| `CaptureProofs` | `TypesHold`, `NewestHeld`, `PagesFetchedOnce`, `BodiesMatch`, `FileForwardHolds` | `TypeOK`, `SessionHoldsNewest`, `FetchedOnce`, `UnchangedBodyMatches`, `FileNeverRegresses` |
| `GuestProofs` | `TypeCorrect`, `ResultsAttested`, `CommitComplete`, `FirstUseIsCovered`, `ProvenanceIsSigned`, `HonestAccepted` | `TypeOK`, `JournalSound`, `AllOrNothing`, `FirstUseCovered`, `ProvenanceSigned`, `HonestNotRejected` |
| | `VerifiersNeverDiffer` | `VerifiersAgree` |
| `ProofPipelineProofs` | `TypesKept`, `FileAtRestIsWhole`, `RegressIsReplay`, `ModeAsAsked`, `SaltIsBeside`, `HintsBind` | `TypeOK`, `QuietFileWhole`, `RegressNeedsReplay`, `DevModeAsAsked`, `SaltBesideProof`, `BindsUnlessSaved` |
| `RulesProofs` | `DaysCounted`, `CalendarsAlwaysAgree`, `DatesAlwaysReadBack` | `DayInv`, and of `DatesReadBack` first one part (`CalendarsAgree`), then all |
| | `AgesCounted`, `NumbersReadWhole` | `AgeCountsBirthdays`, `NumbersRead` |
| | `ConventionNeverGuessed`, `CommittedIsCompared`, `ValueNeverShown`, `CommitmentsBind`, `SaltsKept` | `NoReadingGuessed`, `CommitsToCompared`, `ValueStaysHidden`, `CommitmentsChecked`, `SaltNeverDropped` |
| `LoweringProofs` | `NumbersAlwaysConform`, `LiteralsAlwaysSurvive`, `LoweringAlwaysAgrees` | `NumbersConform`, `LiteralsSurvive`, `LoweringAgrees` |

**The bridge** (`BoundsAssumption`: the bounds are natural numbers). Three inductive
invariants, each relative to `TypeOK`:

- `CallsInv` adds to `PendingInStep` that only issued calls have history (`Numbered`),
  that the running handler visits pending calls only (`Visiting`), and the
  bound on posts. Every settled outcome comes from a handler that found the call pending,
  which is why `OutcomeFinal` follows from it: `PendingInStep` alone does not say that what
  `replay` holds is still pending.
- `RepliesInv`: whatever waits in a host's hands or in an outbox was begun by a host
  (`Executed`), which makes `AnswerIsOwn` inductive.
- `CarriersInv`: `NothingForgotten` is not inductive. The current port has not been closed
  and a host runs at most one request (`PortsInv`), an unreachable timer watches one call
  (`OneCallEach`, since firing it settles one), and every pending call is about to be
  visited, watched by a timer or carried by a port (`Kept`), so that a step which removes
  one of these shows the other that replaces it. `OnDisconnect` is the crucial step: the
  snapshot takes over all calls the port carried.

`OneDropIsRecovered` follows from a fourth, `RecoveryInv`: with at most one drop
and no refusal the bridge is in one of few phases (`Phase`): before the drop is noticed, with
one reconnect timer armed, in its replay loop, or past it; nothing has been replayed before
the loop, and the loop meets each call once with a port at hand.

`NativeBridgeRefinement` proves that the bridge implements `CallService`. What is hard is
that no call is executed a third time, since the copies of a call lie in the inboxes of several
ports. `PostsInv`: the places of a call in all inboxes are at most as many as its posts that
have not been executed (`Fits`, for sets of up to two elements, which `BoundedReplay` makes
enough); a host that reads maps the places that are left one to one to places before, without
the first of its inbox.

**Capture.** `TypeInv` needs the count of requests (`Counted`: captures and pending requests
never exceed the requests made, so there is room for the next page). `SessionInv`: every
capture has its path in the session. `DrainInv`: what is being fetched is pending, and nothing
is fetched outside a drain. `BodyInv`: versions of the content only grow, and a page's body
is none or younger than its signature. `SaveInv`: the file and the saves under way are
ordered, each page no younger than its successor's page of that path (`NoNewer`), and a
save that lacks a path was taken when a newer capture of it had not been fetched; the save
at the end of a drain is taken of a session that has the newest of everything.

**Guest** (`GuestAssumption`: the shape of sessions, registries and requests). `IInv` says of
the two caches what entitles the guest to skip a check: an entry of `verified` names pages
whose signature holds under the key trusted for them, which needs `SourceUnique` (a page key
names one page, since the lookup takes the first), and an entry of `trusted` comes from a
root-signed entry of the registry. `CoverInv` follows the first use of each keyid, `AbortInv`
says at which stages a run over honest pages may end. The theorems `ProvenanceIsSigned` and
`HonestAccepted` assume `UrisSigned`: what an origin signs names a URI, never the bare root (`sign_page.lua`
67-69), without which the guest's fallbacks for a missing header name something unsigned.

**Pipeline** (`PipelineAssumption`). `PlacedInv`: every message and task names a save that was
posted, only hosts save, and a host still to come is dead with an empty inbox; so a process
that writes has a save to write. `FilesInv`: a file that is not spoilt has at most one
writer and holds exactly the blocks that one has written, which a truncation starts and a
write extends until the file parses. `DevInv`: between taking a request and answering it, the
mode of a process is that of its task. `SaltInv`: between its two files the command line
still holds the salt of the proof it wrote. `OrderInv` shows `RegressNeedsReplay`: only the
current host has saves that were posted once, in the order of their numbers and ahead of
nothing written, so that a save which completes a file is the newest or was posted again;
`Bounded` keeps a file's blocks below the next number.

`BindInv` shows `BindsUnlessSaved`: whatever a job has read from a file, as a hint or whole, is
what the file still holds, or the file was written since (`Fresh`), and the loads cover
the hints (`Walks`). It needs `PlacedInv`, and that
the entries left of a message's array are paths: `WellFormed` is a function by recursion, so
its result is shown by induction over the set of the numbers for which it is right
(`Iteration`, `NatSetInduction`). `TypeOK` follows.

**Verifiers** (`VerifiersAssumption`, `AnotherAssumption`: image ids are sequences of words, two
programs have two of one length). An image id is read back from its digits word by word
(`WordReadBack`), so what one program formats the other parses; then, for a verifier without
`RISC0_DEV_MODE`, all four answers depend on the receipt and the journal alone.

**Calendar** (`ExtractionAssumption`: the first day is one of two, known with its date). `DayNumber`
counts the days before a date from its month and year; `NextDate` adds one to it in each of
its three cases, so `DayInv` (`day` is the number of `date`) is inductive. `civil_from_days`
is then shown to undo `DayNumber`: its four quotients find the year of an era of 146097 days
(`YearRead`), the year the day, the fifths of 153 days the month. An age at `now` is the
difference of years less one before the birthday, which is the count of birthdays by cases on
the three fields.

**Numbers** (`WindowHolds`: no body is longer than the window; `extraction_window` is the run
that shows why). A token that the extractor accepts ends where the printed number ends:
each character of it is a digit or a separator between digits, and what follows is neither.
For the converse the grammar fixes where the run of digits, the groups and the fraction end
(`WholeIsRead`), so that a number in the declared convention is walked to its end.
The number is a text of any length over any alphabet.

**Dates**. The digits of a padded number are read back (`PaddedTwo`, `PaddedFour`). A spelled date
has one of three layouts (`Laid`), and what stands at its fixed positions tells the formats
apart, so a page is read in another format only when the two have one separator and order the
day and the month differently. A day after the last of its month is none `ValidYmd`
accepts, because `civil_from_days` calls the next one the first of a month; a date with a
digit at a side is no match where it begins nor a place later. Four digits spell the years up
to 9999, which is why `Sampled` ends at `LastSpelled`.

**Predicates and redaction** (`RulesAssumption`: texts are sequences of characters; the salts of a
run have one length, an even one of at least `MinSalt`). The evaluator and the publisher
try two lists of operators in two orders. Both find the same operator that compares texts,
since no other operator of either list begins with its first character (`StringOperator`), so both
cut off the same operand. An ordering reaches no verdict without a convention, and no other
comparison asks for one. With a salt, a predicate that compares texts is published as its
operator and a commitment, and nothing else of it is in the clear. A commitment opens to one
text: of two concatenations of a salt and a text that are equal, the salts are equal since they
have one length, and so are the texts. `TextsInv`: a predicate and a salt are texts.

**The grammar of numbers** (`NumbersAlwaysConform`). A numeral of the reference grammar is cut
into a sign, an integer and a fraction (`NumeralParts`), and where each begins and ends is shown
to be where the reader's run of digits, groups and fraction end (`GroupsFit`, `LeadOfWhole`), so
that the two accept the same texts (`Conforms`). What is kept of a text character by character is
shown to be kept of each part (`KeptConcat`, by induction over the text: `TextInduction`), so
both spell the same number (`PlainlyIs`). The ambiguity: a text that two conventions accept and
spell differently has a separator that is a group in one of them and a decimal point in the
other, so it is the only one, and three digits follow it (`TwoReadings`).

**Literals** (`LiteralsAlwaysSurvive`; `RulesAssumption`: a letter is not a piece of a pattern).
Escaping appends to what it wrote for a shorter text, and unescaping reads it back character by
character (`EscapedIsRead`); conversely a text that is read as some literal is that literal's
escaped form (`ReadIsEscaped`). An escaped literal holds no piece of a pattern and no bare
metacharacter, so `regex_to_anchored` finds the gap, the brace and the group where the extension
wrote them (`PatternLowered`), for every literal and window; and since what is written for a
label begins with no other prefix, `parse_field_spec` gets both parts back (`FieldParsed`).
`CutBoundary` tells when the word boundary is cut off a literal.

**Lowering** (`LoweringAlwaysAgrees`; `WindowHolds`, and `WindowSpelled`: four digits spell the
window). The rule of a number pattern is the anchor, the window and the convention (`RuleIs`), so
its reading is the extractor's (`LoweredIs`). A match of the pattern is a numeral that lies
behind the label; none begins before the first number there, and one that begins with it does not
go beyond it (`FirstNumeral`). So when that number is read, and fits, the pattern's search stops
at it and takes all of it (`MatchCaptured`); a capture that is all of it conforms, and is read by
`NumbersRead`. `DatesReadLowered`: a spelled date fits the patterns of its own format only. Where
the first number does not fit, the pattern goes on and the rule does not: that is finding 6.

Only model-checked: every liveness property and the fair half of `ImplementsService`, which are
out of the prover's reach. Every other property of a passing run is a theorem.

## 6. Not modelled, and why

- The popup's form, the search for a label in the page and the message handler
  (`background.js` 329-426): they hold no state that outlives one handler. What the handler
  drops of a single field (394) is listed as a hazard without a property.
- `list_sessions` and `read_body`: they read for display only. `load_registry`: a file or a
  URL, whose outcome is a parameter of `Guest`.
- The panic of the guest on a session id of fewer than eight bytes (`guest/main.rs` 72): the
  extension's ids are UUIDs (`background.js` 65), and `Prefix` is defined of every id.
- The language-model agent (`analyze_field`): its answers are another program's.
- ECDSA, SHA-256, base64, PDF text extraction and the prover: libraries, symbolic where used.
  The PDF variant of the signer shares its steps with the page variant but for the body.
- HTTP parsing and page layout of the verifiers, the deployment scripts and measurements.

## 7. Plan

1. Several origins in one tab: `Capture` with authorities, to state which replacement is
   meant.
2. The popup with the message handler: a request that the user's selection and the host's
   fields are two views of.
3. `Capture` composed with `ProofPipeline`: saves of one tab over a bridge that loses ports.
