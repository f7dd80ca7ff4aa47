--------------------------- MODULE ProofPipeline ---------------------------
(***************************************************************************)
(* Session files and proofs of the host                                    *)
(* (src/zkvm/host/src/main.rs, 103-287, 572-893 and 1156-1192).            *)
(*                                                                         *)
(* Native hosts and a command line share the session files.  A host serves *)
(* one message after another; when its port is lost the extension starts   *)
(* the next host and posts the unanswered messages again, once             *)
(* (NativeBridge), while the first may still be at work.  A save truncates *)
(* the file and writes it; a proof reads each file for a hint and again    *)
(* for the session it proves from.                                         *)
(*                                                                         *)
(* The content of a file is a sequence of blocks, each marked with the     *)
(* save that wrote it; a file parses when it is all of one save.  What a   *)
(* field reads differs from save to save, so the save stands for it too.   *)
(***************************************************************************)
EXTENDS Naturals, Sequences, FiniteSets

CONSTANTS
  Paths,      \* session files
  Sizes,      \* path -> lengths of its sessions, in blocks
  Malformed,  \* an entry of a fields array without field or predicate
  Requests,   \* the fields of proof requests: sequences of paths and Malformed
  Commands,   \* command lines: the path of --session and those of the fields
  MaxSaves,   \* bound: sessions saved
  MaxProofs,  \* bound: proof requests posted and runs of the command line
  MaxFaults   \* bound: ports lost and processes killed

ASSUME PipelineAssumption ==
  /\ Sizes \in [Paths -> SUBSET (Nat \ {0})]
  /\ Malformed \notin Paths
  /\ Requests \subseteq Seq(Paths \cup {Malformed})
  /\ Commands \subseteq Seq(Paths) /\ \A c \in Commands : Len(c) > 1
  /\ MaxSaves \in Nat /\ MaxProofs \in Nat /\ MaxFaults \in Nat

Hosts == 1..(MaxFaults + 1)
Cli   == 0
Procs == {Cli} \cup Hosts

VARIABLES
  files,    \* path -> blocks
  saves,    \* the sessions saved so far: path and size
  asked,    \* proof requests posted and runs of the command line so far
  faults,   \* ports lost and processes killed so far
  current,  \* the host whose port is open
  inbox,    \* process -> messages waiting on its standard input
  resend,   \* the calls the extension has still to post again
  pc,       \* process -> what it does next
  task,     \* process -> the message it works on, and how far it is
  devMode,  \* process -> RISC0_DEV_MODE
  reply,    \* process -> its last answer
  salts,    \* salts drawn so far; a salt is its number
  output,   \* the salt of the proof in the output file, and the salt beside it
  spoilt,   \* history: files whose last writer was killed or not alone
  written,  \* history: saves written to their end
  again     \* history: saves that a lost port left to be posted again

store   == <<files, saves, spoilt, written>>
counts  == <<asked, faults>>
channel == <<current, inbox, resend, again>>
results == <<reply, salts, output>>
vars    == <<store, counts, channel, pc, task, devMode, results>>

\* A message: the save it asks for, or 0 and the fields of a proof; again once it
\* was posted a second time.
SaveJob(n) == [save |-> n, fields |-> <<>>, dev |-> FALSE, again |-> FALSE]
ProofJob(fs, dev) == [save |-> 0, fields |-> fs, dev |-> dev, again |-> FALSE]
NoJob == SaveJob(0)

\* What a process works on: a message, the fields to prove, the paths to load for
\* them in order and the salt.  at counts blocks written, fields hinted or paths
\* looked at; hints holds for each field the save its extracted_value comes from,
\* or 0; loaded the save each session comes from, or 0; touched the files written
\* since the job began.
TaskFor(j, fs, ps, salt) ==
  [job |-> j, fields |-> fs, load |-> ps, salt |-> salt,
   at |-> 0, hints |-> <<>>, loaded |-> [p \in Paths |-> 0], touched |-> {}]
Task(j) == TaskFor(j, <<>>, <<>>, 0)
NoTask  == Task(NoJob)

NoReply == [ok |-> FALSE, wanted |-> FALSE, dev |-> FALSE, salt |-> 0]

-----------------------------------------------------------------------------
(* Files *)

\* Mutant: the file is overwritten without being truncated first.
OpenedInPlace(c) == c

\* fs::write opens the file truncated.
Opened(c) == <<>>

\* Block k of content c becomes n; what lies between its end and k is a hole.
Put(c, k, n) ==
  [i \in 1..(IF k > Len(c) THEN k ELSE Len(c)) |->
     IF i = k THEN n ELSE IF i <= Len(c) THEN c[i] ELSE 0]

\* load_session: the save that all of the file comes from, or 0.
Parsed(p) ==
  IF \E n \in DOMAIN saves : files[p] = [i \in 1..saves[n].size |-> n] THEN files[p][1] ELSE 0

Writers(p) == {a \in Procs : pc[a] = "write" /\ saves[task[a].job.save].path = p}

\* What a write of p by process a is to the proofs under way.
Touch(p) == [a \in Procs |-> [task[a] EXCEPT !.touched = @ \cup {p}]]

-----------------------------------------------------------------------------
(* Messages *)

\* Mutant: a message is put before those that wait.
EnqueueFirst(q, j) == <<j>> \o q

\* A port keeps its messages in order.
Enqueue(q, j) == Append(q, j)

\* saveSessionToHost: a session is posted, whatever happened to the last one.
PostSave ==
  /\ Len(saves) < MaxSaves /\ resend = <<>>
  /\ \E p \in Paths : \E s \in Sizes[p] : saves' = Append(saves, [path |-> p, size |-> s])
  /\ inbox' = [inbox EXCEPT ![current] = Enqueue(@, SaveJob(Len(saves')))]
  /\ UNCHANGED <<files, spoilt, written, counts, current, resend, again, pc, task, devMode, results>>

PostProof ==
  /\ asked < MaxProofs /\ resend = <<>>
  /\ asked' = asked + 1
  /\ \E fs \in Requests, dev \in BOOLEAN :
       inbox' = [inbox EXCEPT ![current] = Enqueue(@, ProofJob(fs, dev))]
  /\ UNCHANGED <<store, faults, current, resend, again, pc, task, devMode, results>>

\* The calls a host has not answered, in their order.
Unanswered(h) == (IF task[h].job = NoJob THEN <<>> ELSE <<task[h].job>>) \o inbox[h]

\* The port is lost and the extension starts the next host.  The first ends with
\* its input, or at its next answer.
Drop ==
  LET calls == Unanswered(current) IN
  /\ faults < MaxFaults /\ resend = <<>>
  /\ faults' = faults + 1
  /\ current' = current + 1
  /\ resend' = calls
  /\ again' = again \cup {calls[i].save : i \in DOMAIN calls}
  /\ pc' = [pc EXCEPT ![current + 1] = "idle",
                      ![current] = IF calls = <<>> THEN "dead" ELSE @]
  /\ UNCHANGED <<store, asked, inbox, task, devMode, results>>

\* The loop of the reconnect callback: each call is posted to the next host, unless
\* it was posted again before.  No other handler of the extension runs meanwhile.
ReplayNext ==
  LET j == Head(resend) IN
  /\ resend # <<>>
  /\ resend' = Tail(resend)
  /\ inbox' = IF j.again THEN inbox
              ELSE [inbox EXCEPT ![current] = Enqueue(@, [j EXCEPT !.again = TRUE])]
  /\ UNCHANGED <<store, counts, current, again, pc, task, devMode, results>>

-----------------------------------------------------------------------------
(* The steps of a process *)

\* A host whose port is gone fails to write its answer and exits.
AnswerFrom(tasks, a, r) ==
  /\ reply' = [reply EXCEPT ![a] = r]
  /\ task' = [tasks EXCEPT ![a] = NoTask]
  /\ pc' = [pc EXCEPT ![a] = IF a \in {Cli, current} THEN "idle" ELSE "dead"]

Answer(a, r) == AnswerFrom(task, a, r)

\* Mutant: RISC0_DEV_MODE is set on demand and never removed.
DevModeKept(was, wanted) == was \/ wanted

\* Set or removed by every proof request.
DevModeFor(was, wanted) == wanted

\* Mutant: an entry without field or predicate is kept.
WellFormedAny(fields) == fields

\* The entries of a fields array that are not dropped.
WellFormed(fields) ==
  LET kept[n \in 0..Len(fields)] ==
        IF n = 0 THEN <<>>
        ELSE IF fields[n] = Malformed THEN kept[n - 1] ELSE Append(kept[n - 1], fields[n])
  IN kept[Len(fields)]

\* run_native_messaging reads the next message, a session to save ...
TakeSave(h) ==
  /\ pc[h] = "idle" /\ inbox[h] # <<>> /\ Head(inbox[h]).save # 0
  /\ inbox' = [inbox EXCEPT ![h] = Tail(@)]
  /\ task' = [task EXCEPT ![h] = Task(Head(inbox[h]))]
  /\ pc' = [pc EXCEPT ![h] = "open"]
  /\ UNCHANGED <<store, counts, current, resend, again, devMode, results>>

\* ... or a proof to make: malformed entries are dropped from its fields.
TakeProof(h) ==
  LET j  == Head(inbox[h])
      fs == WellFormed(j.fields)
  IN /\ pc[h] = "idle" /\ inbox[h] # <<>> /\ j.save = 0
     /\ inbox' = [inbox EXCEPT ![h] = Tail(@)]
     /\ devMode' = [devMode EXCEPT ![h] = DevModeFor(@, j.dev)]
     /\ salts' = salts + 1
     /\ IF fs = <<>> THEN Answer(h, NoReply)
        ELSE /\ task' = [task EXCEPT ![h] = TaskFor(j, fs, fs, salts')]
             /\ pc' = [pc EXCEPT ![h] = "hint"]
             /\ UNCHANGED reply
     /\ UNCHANGED <<store, counts, current, resend, again, output>>

\* run_prove_multi: the session of --session is loaded first, whether a field
\* needs it or not; RISC0_DEV_MODE is what the shell set, here nothing.
RunCli ==
  /\ pc[Cli] \in {"idle", "dead"} /\ asked < MaxProofs
  /\ asked' = asked + 1
  /\ salts' = salts + 1
  /\ \E c \in Commands :
       task' = [task EXCEPT ![Cli] = TaskFor(ProofJob(Tail(c), FALSE), Tail(c), c, salts')]
  /\ pc' = [pc EXCEPT ![Cli] = "hint"]
  /\ UNCHANGED <<store, faults, channel, devMode, reply, output>>

\* save_session_from_json: the file is truncated ...
Open(h) ==
  LET p == saves[task[h].job.save].path IN
  /\ pc[h] = "open"
  /\ files' = [files EXCEPT ![p] = Opened(@)]
  /\ spoilt' = IF Writers(p) = {} THEN spoilt \ {p} ELSE spoilt \cup {p}
  /\ task' = Touch(p)
  /\ pc' = [pc EXCEPT ![h] = "write"]
  /\ UNCHANGED <<saves, written, counts, channel, devMode, results>>

\* ... and written from its start to its end.
Write(h) ==
  LET n == task[h].job.save
      p == saves[n].path
      k == task[h].at + 1
  IN /\ pc[h] = "write"
     /\ files' = [files EXCEPT ![p] = Put(@, k, n)]
     /\ IF k = saves[n].size
        THEN /\ AnswerFrom(Touch(p), h, [NoReply EXCEPT !.ok = TRUE])
             /\ written' = written \cup {n}
        ELSE /\ task' = [Touch(p) EXCEPT ![h].at = k]
             /\ UNCHANGED <<pc, reply, written>>
     /\ UNCHANGED <<saves, spoilt, counts, channel, devMode, salts, output>>

\* Mutant: every hint is taken from the session of the first field.
HintPathFirst(fs, k) == fs[1]

HintPath(fs, k) == fs[k]

\* pre_extract_values: a hint where the file parses, none where it does not.
\* (A field that never has one, of a JSON page or a PDF, always binds.)
Hint(a) ==
  LET fs == task[a].fields
      k  == task[a].at + 1
      n  == Parsed(HintPath(fs, k))
  IN /\ pc[a] = "hint"
     /\ task' = [task EXCEPT ![a].hints = Append(@, n), ![a].at = IF k = Len(fs) THEN 0 ELSE k]
     /\ pc' = [pc EXCEPT ![a] = IF k = Len(fs) THEN "load" ELSE "hint"]
     /\ UNCHANGED <<store, counts, channel, devMode, results>>

\* The error is the answer of a host and the end of the command line.
LoadFailed(a) == Answer(a, NoReply)

\* load_session for each path that was not loaded yet.
Load(a) ==
  LET ps == task[a].load
      k  == task[a].at + 1
      n  == IF task[a].loaded[ps[k]] # 0 THEN task[a].loaded[ps[k]] ELSE Parsed(ps[k])
  IN /\ pc[a] = "load"
     /\ IF n = 0 THEN LoadFailed(a)
        ELSE /\ task' = [task EXCEPT ![a].loaded[ps[k]] = n, ![a].at = k]
             /\ pc' = [pc EXCEPT ![a] = IF k = Len(ps) THEN "prove" ELSE "load"]
             /\ UNCHANGED reply
     /\ UNCHANGED <<store, counts, channel, devMode, salts, output>>

\* The guest's assertion for field k: a hint is the value it extracts itself.
Binds(t, k) == t.hints[k] \in {0, t.loaded[t.fields[k]]}

\* run_proof: the guest aborts if a hint does not bind, and may abort for what
\* it finds in the pages (Guest) or for want of a registry.
Abort(a) ==
  /\ pc[a] = "prove"
  /\ Answer(a, NoReply)
  /\ UNCHANGED <<store, counts, channel, devMode, salts, output>>

\* What is said of a proof.
ProofReply(a) ==
  [ok |-> TRUE, wanted |-> task[a].job.dev, dev |-> devMode[a], salt |-> task[a].salt]

Prove(h) ==
  /\ pc[h] = "prove" /\ \A k \in DOMAIN task[h].fields : Binds(task[h], k)
  /\ Answer(h, ProofReply(h))
  /\ UNCHANGED <<store, counts, channel, devMode, salts, output>>

\* The command line writes the proof ...
WriteProof ==
  /\ pc[Cli] = "prove" /\ \A k \in DOMAIN task[Cli].fields : Binds(task[Cli], k)
  /\ output' = [output EXCEPT !.proof = task[Cli].salt]
  /\ pc' = [pc EXCEPT ![Cli] = "salt"]
  /\ UNCHANGED <<store, counts, channel, task, devMode, reply, salts>>

\* Mutant: the salt file is kept if there is one.
SaltFileOnce(old, salt) == IF old # 0 THEN old ELSE salt

SaltFile(old, salt) == salt

\* ... and then its salt.
WriteSalt ==
  /\ pc[Cli] = "salt"
  /\ output' = [output EXCEPT !.salt = SaltFile(@, task[Cli].salt)]
  /\ Answer(Cli, ProofReply(Cli))
  /\ UNCHANGED <<store, counts, channel, devMode, salts>>

\* A process is killed: by the browser, by the user, for want of memory.
Kill(a) ==
  /\ pc[a] # "dead" /\ faults < MaxFaults
  /\ faults' = faults + 1
  /\ pc' = [pc EXCEPT ![a] = "dead"]
  /\ spoilt' = spoilt \cup {p \in Paths : a \in Writers(p)}
  /\ UNCHANGED <<files, saves, written, asked, channel, task, devMode, results>>

-----------------------------------------------------------------------------

Init ==
  /\ files = [p \in Paths |-> <<>>] /\ saves = <<>>
  /\ asked = 0 /\ faults = 0
  /\ current = 1
  /\ inbox = [a \in Procs |-> <<>>] /\ resend = <<>>
  /\ pc = [a \in Procs |-> IF a \in {Cli, 1} THEN "idle" ELSE "dead"]
  /\ task = [a \in Procs |-> NoTask]
  /\ devMode = [a \in Procs |-> FALSE]
  /\ reply = [a \in Procs |-> NoReply]
  /\ salts = 0 /\ output = [proof |-> 0, salt |-> 0]
  /\ spoilt = {} /\ written = {} /\ again = {}

HostStep(h) == TakeSave(h) \/ TakeProof(h) \/ Open(h) \/ Write(h) \/ Prove(h)
CliStep     == WriteProof \/ WriteSalt
Step(a)     == Hint(a) \/ Load(a) \/ Abort(a) \/ (IF a = Cli THEN CliStep ELSE HostStep(a))

Next ==
  \/ PostSave \/ PostProof \/ Drop \/ ReplayNext \/ RunCli
  \/ \E a \in Procs : Step(a) \/ Kill(a)

Spec == Init /\ [][Next]_vars

-----------------------------------------------------------------------------
(* Properties *)

Jobs ==
  [save : 0..MaxSaves, fields : Seq(Paths \cup {Malformed}), dev : BOOLEAN, again : BOOLEAN]

TypeOK ==
  /\ files \in [Paths -> Seq(0..MaxSaves)]
  /\ saves \in Seq([path : Paths, size : Nat]) /\ Len(saves) <= MaxSaves
  /\ spoilt \subseteq Paths /\ written \subseteq 1..MaxSaves /\ again \subseteq 0..MaxSaves
  /\ asked \in 0..MaxProofs /\ faults \in 0..MaxFaults
  /\ current \in Hosts
  /\ inbox \in [Procs -> Seq(Jobs)] /\ resend \in Seq(Jobs)
  /\ pc \in [Procs -> {"idle", "open", "write", "hint", "load", "prove", "salt", "dead"}]
  /\ task \in [Procs -> [job : Jobs, fields : Seq(Paths), load : Seq(Paths), salt : Nat,
                         at : Nat, hints : Seq(0..MaxSaves), loaded : [Paths -> 0..MaxSaves], touched : SUBSET Paths]]
  /\ devMode \in [Procs -> BOOLEAN]
  /\ reply \in [Procs -> [ok : BOOLEAN, wanted : BOOLEAN, dev : BOOLEAN, salt : Nat]]
  /\ salts \in Nat /\ output \in [proof : Nat, salt : Nat]

\* A file at rest is one whole session, unless its last writer was killed or two
\* processes wrote it at the same time (main.rs 1186: fs::write, no rename).
QuietFileWhole ==
  \A p \in Paths :
    Writers(p) = {} /\ p \notin spoilt =>
      Parsed(p) # 0 \/ \A n \in written : saves[n].path # p

\* An older session replaces a newer one that was written to its end only when a
\* lost port made the extension post it twice (background.js 215 and 273).
RegressNeedsReplay ==
  \A p \in Paths :
    Parsed(p) # 0 /\ (\E n \in written : n > Parsed(p) /\ saves[n].path = p) =>
      Parsed(p) \in again

\* "Compute the value hint on the host with the SAME logic the guest uses, so the
\* guest's in-circuit binding assertion is satisfied" (main.rs 845): unless the
\* file is saved while the proof is under way, a hint binds.
BindsUnlessSaved ==
  \A a \in Procs :
    pc[a] = "prove" =>
      \A k \in DOMAIN task[a].fields :
        Binds(task[a], k) \/ task[a].fields[k] \in task[a].touched

\* A proof says of itself what was asked for it, whatever the process proved
\* before (main.rs 727-732 and 575).
DevModeAsAsked == \A a \in Procs : reply[a].ok => reply[a].dev = reply[a].wanted

\* "The salt is written BESIDE the proof" (main.rs 268): when a run is over, the
\* salt beside its proof is the one it was made with.
SaltBesideProof ==
  pc[Cli] = "idle" /\ reply[Cli].ok => output.salt = output.proof
=============================================================================
