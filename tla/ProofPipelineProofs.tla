------------------------ MODULE ProofPipelineProofs ------------------------
(***************************************************************************)
(* Theorems about ProofPipeline: for any paths, sessions, requests and     *)
(* command lines, and any number of saves, proofs and faults.              *)
(***************************************************************************)
EXTENDS ProofPipeline, SequenceLemmas, SequenceTheorems, TLAPS

-----------------------------------------------------------------------------
(* Types *)

Saving == {"open", "write"}
Proving == {"hint", "load", "prove", "salt"}
Stages == {"idle", "open", "write", "hint", "load", "prove", "salt", "dead"}

IsTask(t) ==
  /\ DOMAIN t = {"job", "fields", "load", "salt", "at", "hints", "loaded", "touched"}
  /\ t.job \in Jobs /\ t.at \in Nat

\* What the arguments below need of the types.
Typed ==
  /\ saves \in Seq([path : Paths, size : Nat \ {0}]) /\ Len(saves) <= MaxSaves
  /\ files \in [Paths -> Seq(Nat)]
  /\ written \subseteq 1..Len(saves)
  /\ faults \in 0..MaxFaults /\ current \in Hosts /\ current <= faults + 1
  /\ inbox \in [Procs -> Seq(Jobs)] /\ resend \in Seq(Jobs)
  /\ pc \in [Procs -> Stages]
  /\ DOMAIN task = Procs /\ \A a \in Procs : IsTask(task[a])
  /\ DOMAIN devMode = Procs /\ DOMAIN reply = Procs

\* A message asks for one of n saves, or for a proof.
Known(j, n) == j.save \in 0..n

\* Only hosts save, one save at a time; the hosts still to come have nothing to do.
Placed ==
  /\ \A a \in Procs : /\ Known(task[a].job, Len(saves))
                      /\ \A k \in 1..Len(inbox[a]) : Known(inbox[a][k], Len(saves))
                      /\ pc[a] \in Saving => task[a].job.save # 0
                      /\ pc[a] = "open" => task[a].at = 0
  /\ \A k \in 1..Len(resend) : Known(resend[k], Len(saves))
  /\ \A h \in Hosts : h > current => pc[h] = "dead" /\ inbox[h] = <<>>
  /\ inbox[Cli] = <<>> /\ pc[Cli] \notin Saving

PlacedInv == Typed /\ Placed

LEMMA Numbers ==
  /\ MaxSaves \in Nat /\ MaxProofs \in Nat /\ MaxFaults \in Nat
  /\ Hosts \subseteq Procs /\ Cli \in Procs /\ Cli \notin Hosts
  /\ \A a \in Procs : a = Cli \/ a \in Hosts
  /\ Hosts \subseteq Nat
  BY PipelineAssumption DEF PipelineAssumption, Hosts, Procs, Cli

LEMMA NoTaskIsTask == NoJob \in Jobs /\ IsTask(NoTask) /\ NoTask.job = NoJob /\ NoJob.save = 0
<1>1. NoJob \in Jobs /\ NoJob.save = 0
  BY Numbers DEF NoJob, SaveJob, Jobs
<1> QED
  BY <1>1 DEF NoTask, Task, TaskFor, IsTask

LEMMA ProofJobIsJob ==
  ASSUME NEW fs \in Seq(Paths \cup {Malformed}), NEW dev \in BOOLEAN
  PROVE  ProofJob(fs, dev) \in Jobs /\ ProofJob(fs, dev).save = 0 /\ ProofJob(fs, dev).dev = dev
  BY Numbers DEF ProofJob, Jobs

LEMMA TaskForIsTask ==
  ASSUME NEW j \in Jobs, NEW fs, NEW ps, NEW salt
  PROVE  /\ IsTask(TaskFor(j, fs, ps, salt))
         /\ TaskFor(j, fs, ps, salt).job = j /\ TaskFor(j, fs, ps, salt).at = 0
         /\ TaskFor(j, fs, ps, salt).salt = salt
  BY DEF TaskFor, IsTask

-----------------------------------------------------------------------------
(* Steps that neither save nor exchange messages *)

\* Process a goes on; the files, the messages and the other processes stay.
CalmFor(a) ==
  /\ UNCHANGED <<store, channel, faults>>
  /\ pc' \in [Procs -> Stages] /\ pc[a] \notin Saving /\ pc'[a] \notin Saving
  /\ a = Cli \/ pc[a] # "dead"
  /\ DOMAIN task' = Procs /\ IsTask(task'[a])
  /\ task'[a].job.save \in {task[a].job.save, 0}
  /\ \A b \in Procs \ {a} : pc'[b] = pc[b] /\ task'[b] = task[b]
  /\ DOMAIN devMode' = Procs /\ DOMAIN reply' = Procs

\* The work stays what it was for, and what is said of it comes from it.
SameWork(a) ==
  /\ UNCHANGED devMode
  /\ \A b \in Procs \ {a} : reply'[b] = reply[b]
  /\ pc'[a] \in Proving => \/ pc[a] \in Proving /\ task'[a].job = task[a].job
                           \/ a = Cli /\ task'[a].job.dev = FALSE
  /\ reply'[a].ok => \/ reply'[a] = reply[a]
                     \/ pc[a] \in Proving /\ reply'[a] = ProofReply(a)
  /\ \/ output' = output /\ pc'[a] # "salt" /\ ((a = Cli /\ pc'[a] = "idle") => ~reply'[a].ok)
     \/ a = Cli /\ (WriteProof \/ WriteSalt)

CalmWork(a) == CalmFor(a) /\ SameWork(a)

LEMMA AnswerFacts ==
  ASSUME Typed, NEW a \in Procs, NEW r, Answer(a, r)
  PROVE  /\ pc' \in [Procs -> Stages] /\ pc'[a] \in {"idle", "dead"}
         /\ DOMAIN task' = Procs /\ task'[a] = NoTask
         /\ DOMAIN reply' = Procs /\ reply'[a] = r
         /\ \A b \in Procs \ {a} :
              pc'[b] = pc[b] /\ task'[b] = task[b] /\ reply'[b] = reply[b]
  BY DEF Answer, AnswerFrom, Typed, Stages

LEMMA AnswerCalm ==
  ASSUME Typed, NEW a \in Procs, NEW r, Answer(a, r), UNCHANGED <<store, channel, faults, devMode>>,
         pc[a] \in Proving, ~r.ok \/ r = ProofReply(a),
         (output' = output /\ (a = Cli => ~r.ok)) \/ (a = Cli /\ WriteSalt)
  PROVE  CalmWork(a)
<1>1. DOMAIN devMode' = Procs
  BY DEF Typed
<1>2. CalmFor(a)
  BY <1>1, AnswerFacts, NoTaskIsTask DEF CalmFor, Saving, Proving
<1>3. SameWork(a)
  <2>1. /\ pc'[a] \in {"idle", "dead"} /\ reply'[a] = r
        /\ \A b \in Procs \ {a} : reply'[b] = reply[b]
    BY AnswerFacts
  <2> QED
    BY <2>1 DEF SameWork, Proving
<1> QED
  BY <1>2, <1>3 DEF CalmWork

LEMMA HintCalm == ASSUME Typed, NEW a \in Procs, Hint(a) PROVE CalmWork(a)
<1> USE DEF counts, results
<1> DEFINE k == task[a].at + 1
           n == Parsed(HintPath(task[a].fields, k))
           at == IF k = Len(task[a].fields) THEN 0 ELSE k
           hints == Append(task[a].hints, n)
<1>1. IsTask(task[a]) /\ DOMAIN task = Procs /\ k \in Nat
  BY DEF Typed, IsTask
<1>2. at \in Nat
  BY <1>1
<1>3. task' = [task EXCEPT ![a].hints = hints, ![a].at = at]
  BY DEF Hint
<1> HIDE DEF hints, at, k, n
<1>4. /\ task'[a] = [task[a] EXCEPT !.hints = hints, !.at = at]
      /\ DOMAIN task' = Procs /\ \A b \in Procs \ {a} : task'[b] = task[b]
  BY <1>1, <1>3
<1>5. IsTask(task'[a]) /\ task'[a].job = task[a].job
  <2> DEFINE u == [task[a] EXCEPT !.hints = hints, !.at = at]
  <2>1. IsTask(u) /\ u.job = task[a].job
    BY <1>1, <1>2 DEF IsTask
  <2> QED
    BY <1>4, <2>1
<1>6. /\ pc[a] = "hint" /\ pc' \in [Procs -> Stages] /\ pc'[a] \in {"load", "hint"}
      /\ \A b \in Procs \ {a} : pc'[b] = pc[b]
  BY DEF Hint, Typed, Stages
<1>7. CalmFor(a)
  BY <1>4, <1>5, <1>6 DEF CalmFor, Hint, Typed, Saving
<1>8. SameWork(a)
  BY <1>5, <1>6 DEF SameWork, Hint, Proving
<1> QED
  BY <1>7, <1>8 DEF CalmWork

LEMMA LoadCalm == ASSUME Typed, NEW a \in Procs, Load(a) PROVE CalmWork(a)
<1> USE DEF counts, results
<1> DEFINE ps == task[a].load
           k == task[a].at + 1
           n == IF task[a].loaded[ps[k]] # 0 THEN task[a].loaded[ps[k]] ELSE Parsed(ps[k])
<1>1. IsTask(task[a]) /\ DOMAIN task = Procs /\ k \in Nat
  BY DEF Typed, IsTask
<1>2. pc[a] = "load" /\ UNCHANGED <<store, channel, faults, devMode>> /\ output' = output
  BY DEF Load
<1>3. CASE n = 0
  <2>1. Answer(a, NoReply)
    BY <1>3 DEF Load, LoadFailed
  <2>2. pc[a] \in Proving /\ ~NoReply.ok
    BY <1>2 DEF Proving, NoReply
  <2> QED
    BY <1>2, <2>1, <2>2, AnswerCalm
<1>4. CASE n # 0
  <2>1. task' = [task EXCEPT ![a].loaded[ps[k]] = n, ![a].at = k]
    BY <1>4 DEF Load
  <2>2. /\ pc' = [pc EXCEPT ![a] = IF k = Len(ps) THEN "prove" ELSE "load"]
        /\ reply' = reply
    BY <1>4 DEF Load
  <2> DEFINE loaded == [task[a].loaded EXCEPT ![ps[k]] = n]
  <2> HIDE DEF n
  <2>3. task'[a] = [task[a] EXCEPT !.loaded = loaded, !.at = k]
    <3>1. task'[a] = [task[a] EXCEPT !.loaded[ps[k]] = n, !.at = k]
      BY <1>1, <2>1
    <3> QED
      BY <3>1
  <2>4. DOMAIN task' = Procs /\ \A b \in Procs \ {a} : task'[b] = task[b]
    BY <1>1, <2>1
  <2> HIDE DEF loaded, k, ps
  <2>5. IsTask(task'[a]) /\ task'[a].job = task[a].job
    <3> DEFINE u == [task[a] EXCEPT !.loaded = loaded, !.at = k]
    <3>1. IsTask(u) /\ u.job = task[a].job
      BY <1>1 DEF IsTask
    <3> QED
      BY <2>3, <3>1
  <2>6. /\ pc' \in [Procs -> Stages] /\ pc'[a] \in {"load", "prove"}
        /\ \A b \in Procs \ {a} : pc'[b] = pc[b]
    BY <2>2 DEF Typed, Stages
  <2>7. CalmFor(a)
    BY <1>2, <2>2, <2>4, <2>5, <2>6 DEF CalmFor, Typed, Saving
  <2>8. SameWork(a)
    BY <1>2, <2>2, <2>5, <2>6 DEF SameWork, Proving
  <2> QED
    BY <2>7, <2>8 DEF CalmWork
<1> QED
  BY <1>3, <1>4

LEMMA RunCliCalm == ASSUME Typed, RunCli PROVE CalmWork(Cli)
<1>1. PICK c \in Commands :
        task' = [task EXCEPT ![Cli] = TaskFor(ProofJob(Tail(c), FALSE), Tail(c), c, salts')]
  BY DEF RunCli
<1>2. pc[Cli] \in {"idle", "dead"} /\ pc' = [pc EXCEPT ![Cli] = "hint"]
      /\ UNCHANGED <<store, channel, faults, devMode, reply, output>>
  BY DEF RunCli
<1>3. Tail(c) \in Seq(Paths)
  BY PipelineAssumption DEF PipelineAssumption
<1>4. /\ ProofJob(Tail(c), FALSE) \in Jobs /\ ProofJob(Tail(c), FALSE).save = 0
      /\ ProofJob(Tail(c), FALSE).dev = FALSE
  <2>1. Tail(c) \in Seq(Paths \cup {Malformed})
    BY <1>3
  <2> QED
    BY <2>1, ProofJobIsJob
<1>5. /\ DOMAIN task' = Procs /\ \A b \in Procs \ {Cli} : task'[b] = task[b]
      /\ task'[Cli] = TaskFor(ProofJob(Tail(c), FALSE), Tail(c), c, salts')
  BY <1>1, Numbers DEF Typed
<1>6. IsTask(task'[Cli]) /\ task'[Cli].job.save = 0 /\ task'[Cli].job.dev = FALSE
  <2> DEFINE j == ProofJob(Tail(c), FALSE)
             t == TaskFor(j, Tail(c), c, salts')
  <2>0. j \in Jobs
    BY <1>4
  <2> HIDE DEF j
  <2>1. IsTask(t) /\ t.job = j
    BY <2>0, TaskForIsTask
  <2> QED
    BY <1>4, <1>5, <2>1 DEF j
<1>7. /\ pc' \in [Procs -> Stages] /\ pc'[Cli] = "hint"
      /\ \A b \in Procs \ {Cli} : pc'[b] = pc[b]
  BY <1>2, Numbers DEF Typed, Stages
<1>8. CalmFor(Cli)
  BY <1>2, <1>5, <1>6, <1>7 DEF CalmFor, Typed, Saving
<1>9. SameWork(Cli)
  BY <1>2, <1>6, <1>7 DEF SameWork
<1> QED
  BY <1>8, <1>9 DEF CalmWork

\* The steps of a proof that is under way, and of the command line.
ProofSteps ==
  \/ RunCli
  \/ \E a \in Procs : Hint(a) \/ Load(a) \/ Abort(a) \/ (a # Cli /\ Prove(a))
  \/ WriteProof \/ WriteSalt

LEMMA ProofsCalm == ASSUME Typed, ProofSteps PROVE \E a \in Procs : CalmWork(a)
<1>1. CASE RunCli
  BY <1>1, RunCliCalm, Numbers
<1>2. ASSUME NEW a \in Procs, Hint(a) PROVE CalmWork(a)
  BY <1>2, HintCalm
<1>3. ASSUME NEW a \in Procs, Load(a) PROVE CalmWork(a)
  BY <1>3, LoadCalm
<1>4. ASSUME NEW a \in Procs, Abort(a) PROVE CalmWork(a)
  <2>1. /\ Answer(a, NoReply) /\ UNCHANGED <<store, channel, faults, devMode>> /\ output' = output
        /\ pc[a] \in Proving /\ ~NoReply.ok
    BY <1>4 DEF Abort, counts, Proving, NoReply
  <2> QED
    BY <2>1, AnswerCalm
<1>5. ASSUME NEW a \in Procs \ {Cli}, Prove(a) PROVE CalmWork(a)
  <2>1. /\ Answer(a, ProofReply(a)) /\ UNCHANGED <<store, channel, faults, devMode>>
        /\ output' = output
        /\ pc[a] \in Proving /\ a # Cli
    BY <1>5 DEF Prove, counts, Proving
  <2> QED
    BY <2>1, AnswerCalm
<1>6. CASE WriteProof
  <2>1. /\ pc[Cli] = "prove" /\ pc' = [pc EXCEPT ![Cli] = "salt"]
        /\ UNCHANGED <<store, channel, faults, task, devMode, reply>>
    BY <1>6 DEF WriteProof, counts
  <2>2. /\ pc' \in [Procs -> Stages] /\ pc'[Cli] = "salt"
        /\ \A b \in Procs \ {Cli} : pc'[b] = pc[b]
    BY <2>1, Numbers DEF Typed, Stages
  <2>3. CalmFor(Cli)
    BY <2>1, <2>2, Numbers DEF CalmFor, Typed, Saving
  <2>4. SameWork(Cli)
    BY <1>6, <2>1, <2>2, Numbers DEF SameWork, Proving
  <2> QED
    BY <2>3, <2>4, Numbers DEF CalmWork
<1>7. CASE WriteSalt
  <2>1. /\ Answer(Cli, ProofReply(Cli)) /\ UNCHANGED <<store, channel, faults, devMode>>
        /\ pc[Cli] \in Proving
    BY <1>7 DEF WriteSalt, counts, Proving
  <2> QED
    BY <1>7, <2>1, AnswerCalm, Numbers
<1> QED
  BY <1>1, <1>2, <1>3, <1>4, <1>5, <1>6, <1>7 DEF ProofSteps
-----------------------------------------------------------------------------
(* Messages *)

LEMMA PostFacts ==
  ASSUME Typed, NEW c \in Procs, NEW j \in Jobs, inbox' = [inbox EXCEPT ![c] = Enqueue(@, j)]
  PROVE  /\ inbox' \in [Procs -> Seq(Jobs)] /\ \A b \in Procs \ {c} : inbox'[b] = inbox[b]
         /\ Len(inbox[c]) \in Nat /\ Len(inbox'[c]) = Len(inbox[c]) + 1
         /\ inbox'[c][Len(inbox[c]) + 1] = j
         /\ \A k \in 1..Len(inbox[c]) : inbox'[c][k] = inbox[c][k]
<1> DEFINE q == inbox[c]
<1>1. q \in Seq(Jobs)
  BY DEF Typed
<1>2. inbox'[c] = Append(q, j) /\ \A b \in Procs \ {c} : inbox'[b] = inbox[b]
  BY DEF Typed, Enqueue
<1>3. Append(q, j) \in Seq(Jobs)
  BY <1>1
<1>4. inbox' \in [Procs -> Seq(Jobs)]
  BY <1>1, <1>3 DEF Typed, Enqueue
<1> HIDE DEF q
<1>5. /\ Len(q) \in Nat /\ Len(Append(q, j)) = Len(q) + 1 /\ Append(q, j)[Len(q) + 1] = j
      /\ \A k \in 1..Len(q) : Append(q, j)[k] = q[k]
  BY <1>1
<1> QED
  BY <1>2, <1>4, <1>5 DEF q

LEMMA TakeFacts ==
  ASSUME Typed, NEW h \in Procs, inbox[h] # <<>>, inbox' = [inbox EXCEPT ![h] = Tail(@)]
  PROVE  /\ inbox' \in [Procs -> Seq(Jobs)] /\ \A b \in Procs \ {h} : inbox'[b] = inbox[b]
         /\ Head(inbox[h]) \in Jobs /\ Head(inbox[h]) = inbox[h][1] /\ 1 \in 1..Len(inbox[h])
         /\ \A k \in 1..Len(inbox'[h]) :
              k + 1 \in 1..Len(inbox[h]) /\ inbox'[h][k] = inbox[h][k + 1]
<1> DEFINE q == inbox[h]
<1>1. q \in Seq(Jobs) /\ q # <<>>
  BY DEF Typed
<1>2. inbox'[h] = Tail(q) /\ \A b \in Procs \ {h} : inbox'[b] = inbox[b]
  BY DEF Typed
<1>3. Tail(q) \in Seq(Jobs)
  BY <1>1
<1>4. inbox' \in [Procs -> Seq(Jobs)]
  BY <1>1, <1>3 DEF Typed
<1> HIDE DEF q
<1>5. /\ Head(q) \in Jobs /\ Head(q) = q[1] /\ 1 \in 1..Len(q)
      /\ \A k \in 1..Len(Tail(q)) : k + 1 \in 1..Len(q) /\ Tail(q)[k] = q[k + 1]
  BY <1>1
<1> QED
  BY <1>2, <1>4, <1>5 DEF q

\* A new session gets the next number and is posted to the current host.
LEMMA PostSaveFacts ==
  ASSUME Typed, PostSave
  PROVE  /\ saves' \in Seq([path : Paths, size : Nat \ {0}]) /\ Len(saves') = Len(saves) + 1
         /\ Len(saves) \in Nat /\ Len(saves') <= MaxSaves
         /\ \A m \in 1..Len(saves) : saves'[m] = saves[m]
         /\ SaveJob(Len(saves')) \in Jobs /\ current \in Procs
         /\ inbox' = [inbox EXCEPT ![current] = Enqueue(@, SaveJob(Len(saves')))]
         /\ UNCHANGED <<files, spoilt, written, faults, current, resend, again,
                        pc, task, devMode, reply, output>>
<1>1. PICK p \in Paths : \E s \in Sizes[p] : saves' = Append(saves, [path |-> p, size |-> s])
  BY DEF PostSave
<1>2. PICK s \in Sizes[p] : saves' = Append(saves, [path |-> p, size |-> s])
  BY <1>1
<1>3. s \in Nat \ {0}
  BY PipelineAssumption DEF PipelineAssumption
<1> DEFINE Session == [path : Paths, size : Nat \ {0}]
           new == [path |-> p, size |-> s]
<1>4. new \in Session /\ saves \in Seq(Session) /\ Len(saves) < MaxSaves
  BY <1>3 DEF PostSave, Typed
<1> HIDE DEF Session, new
<1>5. saves' = Append(saves, new)
  BY <1>2 DEF new
<1>6. /\ saves' \in Seq(Session) /\ Len(saves') = Len(saves) + 1 /\ Len(saves) \in Nat
      /\ \A m \in 1..Len(saves) : saves'[m] = saves[m]
  BY <1>4, <1>5
<1>7. SaveJob(Len(saves')) \in Jobs
  <2>1. Len(saves') \in 0..MaxSaves /\ <<>> \in Seq(Paths \cup {Malformed})
    BY <1>4, <1>6, Numbers
  <2> QED
    BY <2>1 DEF SaveJob, Jobs
<1>8. current \in Procs
  BY Numbers DEF Typed
<1> QED
  BY <1>4, <1>6, <1>7, <1>8, Numbers DEF PostSave, counts, results, Session

\* The calls that a host has not answered are what it works on and its messages.
LEMMA UnansweredFacts ==
  ASSUME Typed, NEW h \in Procs
  PROVE  /\ Unanswered(h) \in Seq(Jobs)
         /\ \A i \in 1..Len(Unanswered(h)) :
              \/ Unanswered(h)[i] = task[h].job
              \/ \E k \in 1..Len(inbox[h]) : Unanswered(h)[i] = inbox[h][k]
         /\ task[h].job # NoJob => \E i \in 1..Len(Unanswered(h)) : Unanswered(h)[i] = task[h].job
         /\ \A k \in 1..Len(inbox[h]) :
              \E i \in 1..Len(Unanswered(h)) : Unanswered(h)[i] = inbox[h][k]
<1> DEFINE q == inbox[h]
           j == task[h].job
           own == IF j = NoJob THEN <<>> ELSE <<j>>
           n == Len(own)
<1>1. q \in Seq(Jobs) /\ j \in Jobs
  BY DEF Typed, IsTask
<1> HIDE DEF q, j
<1>2. /\ own \in Seq(Jobs) /\ n \in {0, 1} /\ (n = 1 => own[1] = j)
      /\ (j # NoJob => n = 1)
  BY <1>1
<1> HIDE DEF own
<1>3. Unanswered(h) = own \o q
  BY DEF Unanswered, own, q, j
<1>4. /\ own \o q \in Seq(Jobs) /\ Len(own \o q) = n + Len(q) /\ Len(q) \in Nat
      /\ \A i \in 1..(n + Len(q)) : (own \o q)[i] = IF i <= n THEN own[i] ELSE q[i - n]
  BY <1>1, <1>2
<1> HIDE DEF n
<1>5. ASSUME NEW i \in 1..(n + Len(q))
      PROVE  (own \o q)[i] = j \/ \E k \in 1..Len(q) : (own \o q)[i] = q[k]
  <2>1. CASE i <= n
    <3>1. i = 1 /\ n = 1
      BY <1>2, <2>1
    <3> QED
      BY <1>2, <1>4, <3>1
  <2>2. CASE ~(i <= n)
    <3>1. i - n \in 1..Len(q)
      BY <1>2, <1>4, <2>2
    <3> QED
      BY <1>4, <2>2, <3>1
  <2> QED
    BY <2>1, <2>2
<1>6. ASSUME NEW k \in 1..Len(q) PROVE \E i \in 1..(n + Len(q)) : (own \o q)[i] = q[k]
  <2>1. PICK i \in 1..(n + Len(q)) : ~(i <= n) /\ i - n = k
    <3>1. n \in Nat /\ k \in Nat /\ k >= 1 /\ k <= Len(q) /\ Len(q) \in Nat
      BY <1>2, <1>4
    <3> QED
      BY <3>1, n + k \in 1..(n + Len(q)), (n + k) - n = k
  <2>2. (own \o q)[i] = IF i <= n THEN own[i] ELSE q[i - n]
    BY <1>4, <2>1
  <2> QED
    BY <2>1, <2>2
<1>7. j # NoJob => 1 \in 1..(n + Len(q)) /\ (own \o q)[1] = j
  BY <1>2, <1>4
<1> DEFINE u == own \o q
<1>8. /\ u \in Seq(Jobs) /\ Len(u) = n + Len(q)
      /\ \A i \in 1..Len(u) : u[i] = j \/ \E k \in 1..Len(q) : u[i] = q[k]
      /\ j # NoJob => 1 \in 1..Len(u) /\ u[1] = j
      /\ \A k \in 1..Len(q) : \E i \in 1..Len(u) : u[i] = q[k]
  BY <1>4, <1>5, <1>6, <1>7
<1>9. u = Unanswered(h) /\ q = inbox[h] /\ j = task[h].job
  BY <1>3 DEF q, j
<1> HIDE DEF u
<1> QED
  BY <1>8, <1>9

LEMMA DropFacts ==
  ASSUME Typed, Drop
  PROVE  /\ current \in Hosts /\ current' = current + 1 /\ current' \in Hosts
         /\ faults' \in 0..MaxFaults /\ current' <= faults' + 1
         /\ resend = <<>> /\ resend' = Unanswered(current)
         /\ \A i \in 1..Len(resend') : resend'[i].save \in again'
         /\ again \subseteq again'
         /\ pc' \in [Procs -> Stages] /\ pc'[current'] = "idle"
         /\ pc'[current] \in {pc[current], "dead"}
         /\ pc'[current] # pc[current] => task[current].job = NoJob
         /\ \A a \in Procs \ {current, current'} : pc'[a] = pc[a]
         /\ UNCHANGED <<store, inbox, task, devMode, reply, output>>
<1> DEFINE calls == Unanswered(current)
<1>1. current \in Hosts /\ current \in Nat /\ faults \in Nat /\ faults < MaxFaults
      /\ current <= faults + 1
  BY Numbers DEF Typed, Drop
<1>2. current + 1 \in Hosts /\ current + 1 # current /\ current + 1 \in Procs /\ current \in Procs
  BY <1>1, Numbers DEF Hosts
<1>3. calls \in Seq(Jobs)
  BY <1>2, UnansweredFacts
<1>4. calls = <<>> => task[current].job = NoJob
  <2>1. Len(calls) = 0 => task[current].job = NoJob
    BY <1>2, UnansweredFacts
  <2> QED
    BY <2>1
<1>5. \A i \in 1..Len(calls) : calls[i].save \in again'
  BY <1>3 DEF Drop
<1> HIDE DEF calls
<1>6. /\ pc' = [pc EXCEPT ![current + 1] = "idle",
                          ![current] = IF calls = <<>> THEN "dead" ELSE @]
      /\ resend' = calls /\ current' = current + 1 /\ faults' = faults + 1 /\ resend = <<>>
      /\ again \subseteq again'
      /\ UNCHANGED <<store, inbox, task, devMode, reply, output>>
  BY DEF Drop, calls, results
<1>7. /\ pc' \in [Procs -> Stages] /\ pc'[current + 1] = "idle"
      /\ pc'[current] = IF calls = <<>> THEN "dead" ELSE pc[current]
      /\ \A a \in Procs \ {current, current + 1} : pc'[a] = pc[a]
  BY <1>2, <1>6 DEF Typed, Stages
<1> QED
  BY <1>1, <1>2, <1>4, <1>5, <1>6, <1>7, Numbers DEF calls

LEMMA ReplayFacts ==
  ASSUME Typed, ReplayNext
  PROVE  LET j == Head(resend) IN
         /\ resend # <<>> /\ resend' = Tail(resend) /\ resend' \in Seq(Jobs)
         /\ j \in Jobs /\ j = resend[1] /\ 1 \in 1..Len(resend)
         /\ \A k \in 1..Len(resend') : k + 1 \in 1..Len(resend) /\ resend'[k] = resend[k + 1]
         /\ [j EXCEPT !.again = TRUE] \in Jobs /\ [j EXCEPT !.again = TRUE].save = j.save
         /\ \/ inbox' = inbox
            \/ inbox' = [inbox EXCEPT ![current] = Enqueue(@, [j EXCEPT !.again = TRUE])]
         /\ UNCHANGED <<store, faults, current, again, pc, task, devMode, reply, output>>
<1> DEFINE j == Head(resend)
<1>1. resend \in Seq(Jobs) /\ resend # <<>>
  BY DEF Typed, ReplayNext
<1>2. /\ j \in Jobs /\ j = resend[1] /\ 1 \in 1..Len(resend) /\ Tail(resend) \in Seq(Jobs)
      /\ \A k \in 1..Len(Tail(resend)) :
           k + 1 \in 1..Len(resend) /\ Tail(resend)[k] = resend[k + 1]
  BY <1>1
<1>3. /\ resend' = Tail(resend)
      /\ inbox' = inbox \/ inbox' = [inbox EXCEPT ![current] = Enqueue(@, [j EXCEPT !.again = TRUE])]
      /\ UNCHANGED <<store, faults, current, again, pc, task, devMode, reply, output>>
  BY DEF ReplayNext, counts, results
<1> HIDE DEF j
<1>4. [j EXCEPT !.again = TRUE] \in Jobs /\ [j EXCEPT !.again = TRUE].save = j.save
  BY <1>2 DEF Jobs
<1> QED
  BY <1>1, <1>2, <1>3, <1>4 DEF j

-----------------------------------------------------------------------------
(* The steps of a host that takes a message or writes a file *)

LEMMA TakeSaveFacts ==
  ASSUME Typed, NEW h \in Hosts, TakeSave(h)
  PROVE  /\ pc[h] = "idle" /\ pc' \in [Procs -> Stages] /\ pc'[h] = "open"
         /\ \A b \in Procs \ {h} : pc'[b] = pc[b] /\ task'[b] = task[b]
         /\ DOMAIN task' = Procs /\ IsTask(task'[h])
         /\ task'[h].at = 0 /\ task'[h].job = Head(inbox[h]) /\ task'[h].job.save # 0
         /\ inbox[h] # <<>> /\ inbox' = [inbox EXCEPT ![h] = Tail(@)]
         /\ UNCHANGED <<store, faults, current, resend, again, devMode, reply, output>>
<1> DEFINE j == Head(inbox[h])
<1>1. /\ pc[h] = "idle" /\ inbox[h] # <<>> /\ j.save # 0
      /\ inbox' = [inbox EXCEPT ![h] = Tail(@)]
      /\ task' = [task EXCEPT ![h] = Task(j)] /\ pc' = [pc EXCEPT ![h] = "open"]
      /\ UNCHANGED <<store, faults, current, resend, again, devMode, reply, output>>
  BY DEF TakeSave, counts, results
<1>2. j \in Jobs
  BY <1>1, TakeFacts, Numbers
<1> HIDE DEF j
<1>3. IsTask(Task(j)) /\ Task(j).job = j /\ Task(j).at = 0
  BY <1>2, TaskForIsTask DEF Task
<1>4. /\ DOMAIN task' = Procs /\ task'[h] = Task(j)
      /\ \A b \in Procs \ {h} : task'[b] = task[b]
  BY <1>1, Numbers DEF Typed
<1>5. /\ pc' \in [Procs -> Stages] /\ pc'[h] = "open"
      /\ \A b \in Procs \ {h} : pc'[b] = pc[b]
  BY <1>1, Numbers DEF Typed, Stages
<1> QED
  BY <1>1, <1>3, <1>4, <1>5 DEF j

LEMMA TakeProofFacts ==
  ASSUME Typed, NEW h \in Hosts, TakeProof(h)
  PROVE  /\ pc[h] = "idle" /\ pc' \in [Procs -> Stages] /\ pc'[h] \in {"idle", "hint", "dead"}
         /\ \A b \in Procs \ {h} : pc'[b] = pc[b] /\ task'[b] = task[b] /\ reply'[b] = reply[b]
         /\ DOMAIN task' = Procs /\ IsTask(task'[h]) /\ task'[h].job.save = 0
         /\ Head(inbox[h]).save = 0
         /\ DOMAIN reply' = Procs /\ (reply'[h] = reply[h] \/ ~reply'[h].ok)
         /\ DOMAIN devMode' = Procs /\ \A b \in Procs \ {h} : devMode'[b] = devMode[b]
         /\ pc'[h] = "hint" => devMode'[h] = task'[h].job.dev
         /\ inbox[h] # <<>> /\ inbox' = [inbox EXCEPT ![h] = Tail(@)]
         /\ UNCHANGED <<store, faults, current, resend, again, output>>
<1> DEFINE j == Head(inbox[h])
           fs == WellFormed(j.fields)
<1>1. /\ pc[h] = "idle" /\ inbox[h] # <<>> /\ j.save = 0
      /\ inbox' = [inbox EXCEPT ![h] = Tail(@)]
      /\ devMode' = [devMode EXCEPT ![h] = DevModeFor(@, j.dev)]
      /\ UNCHANGED <<store, faults, current, resend, again, output>>
      /\ IF fs = <<>> THEN Answer(h, NoReply)
         ELSE /\ task' = [task EXCEPT ![h] = TaskFor(j, fs, fs, salts')]
              /\ pc' = [pc EXCEPT ![h] = "hint"]
              /\ UNCHANGED reply
  BY DEF TakeProof, counts
<1>2. j \in Jobs
  BY <1>1, TakeFacts, Numbers
<1> HIDE DEF j, fs
<1>3. /\ DOMAIN devMode' = Procs /\ devMode'[h] = j.dev
      /\ \A b \in Procs \ {h} : devMode'[b] = devMode[b]
  BY <1>1, Numbers DEF Typed, DevModeFor
<1>4. CASE fs = <<>>
  <2>1. /\ pc' \in [Procs -> Stages] /\ pc'[h] \in {"idle", "dead"}
        /\ DOMAIN task' = Procs /\ task'[h] = NoTask
        /\ DOMAIN reply' = Procs /\ reply'[h] = NoReply
        /\ \A b \in Procs \ {h} : pc'[b] = pc[b] /\ task'[b] = task[b] /\ reply'[b] = reply[b]
    BY <1>1, <1>4, AnswerFacts, Numbers
  <2> QED
    BY <1>1, <1>3, <2>1, NoTaskIsTask DEF j, NoReply
<1>5. CASE fs # <<>>
  <2> DEFINE t == TaskFor(j, fs, fs, salts')
  <2>1. task' = [task EXCEPT ![h] = t] /\ pc' = [pc EXCEPT ![h] = "hint"] /\ UNCHANGED reply
    BY <1>1, <1>5
  <2>2. IsTask(t) /\ t.job = j
    BY <1>2, TaskForIsTask
  <2> HIDE DEF t
  <2>3. /\ DOMAIN task' = Procs /\ task'[h] = t
        /\ \A b \in Procs \ {h} : task'[b] = task[b]
    BY <2>1, Numbers DEF Typed
  <2>4. /\ pc' \in [Procs -> Stages] /\ pc'[h] = "hint"
        /\ \A b \in Procs \ {h} : pc'[b] = pc[b]
    BY <2>1, Numbers DEF Typed, Stages
  <2>5. DOMAIN reply' = Procs
    BY <2>1 DEF Typed
  <2> QED
    BY <1>1, <1>3, <2>1, <2>2, <2>3, <2>4, <2>5 DEF j
<1> QED
  BY <1>4, <1>5

\* A write is known to the proofs under way; no task changes what it is for.
LEMMA TouchFacts ==
  ASSUME Typed, NEW p
  PROVE  /\ DOMAIN Touch(p) = Procs
         /\ \A b \in Procs : /\ IsTask(Touch(p)[b]) /\ Touch(p)[b].job = task[b].job
                             /\ Touch(p)[b].at = task[b].at /\ Touch(p)[b].salt = task[b].salt
<1>1. ASSUME NEW b \in Procs
      PROVE  /\ Touch(p)[b] = [task[b] EXCEPT !.touched = @ \cup {p}] /\ IsTask(task[b])
  BY DEF Touch, Typed
<1>2. ASSUME NEW b \in Procs
      PROVE  /\ IsTask(Touch(p)[b]) /\ Touch(p)[b].job = task[b].job
             /\ Touch(p)[b].at = task[b].at /\ Touch(p)[b].salt = task[b].salt
  <2> DEFINE u == task[b].touched \cup {p}
             t == task[b]
  <2>1. Touch(p)[b] = [t EXCEPT !.touched = u] /\ IsTask(t)
    BY <1>1
  <2> HIDE DEF u, t
  <2>2. /\ IsTask([t EXCEPT !.touched = u]) /\ [t EXCEPT !.touched = u].job = t.job
        /\ [t EXCEPT !.touched = u].at = t.at /\ [t EXCEPT !.touched = u].salt = t.salt
    BY <2>1 DEF IsTask
  <2> QED
    BY <2>1, <2>2 DEF t
<1> QED
  BY <1>2 DEF Touch

LEMMA SaveFacts ==
  ASSUME PlacedInv, NEW h \in Procs, pc[h] \in Saving
  PROVE  /\ task[h].job.save \in 1..Len(saves) /\ Len(saves) \in Nat
         /\ saves[task[h].job.save].path \in Paths
         /\ saves[task[h].job.save].size \in Nat \ {0}
         /\ h # Cli /\ h \in Hosts /\ h <= current
<1>1. task[h].job.save \in 1..Len(saves) /\ Len(saves) \in Nat
  BY DEF PlacedInv, Placed, Typed, Known
<1> DEFINE Session == [path : Paths, size : Nat \ {0}]
           n == task[h].job.save
<1>2. saves[n] \in Session
  <2>1. saves \in Seq(Session) /\ n \in 1..Len(saves)
    BY <1>1 DEF PlacedInv, Typed
  <2> HIDE DEF Session, n
  <2> QED
    BY <2>1
<1>3. h # Cli /\ h \in Hosts
  BY Numbers DEF PlacedInv, Placed
<1>4. h <= current
  BY <1>3, Numbers DEF PlacedInv, Placed, Typed, Saving
<1> QED
  BY <1>1, <1>2, <1>3, <1>4

LEMMA OpenFacts ==
  ASSUME PlacedInv, NEW h \in Hosts, Open(h)
  PROVE  LET p == saves[task[h].job.save].path IN
         /\ p \in Paths /\ files' = [files EXCEPT ![p] = <<>>] /\ files' \in [Paths -> Seq(Nat)]
         /\ spoilt' = IF Writers(p) = {} THEN spoilt \ {p} ELSE spoilt \cup {p}
         /\ DOMAIN task' = Procs
         /\ \A b \in Procs : /\ IsTask(task'[b]) /\ task'[b].job = task[b].job
                             /\ task'[b].at = task[b].at /\ task'[b].salt = task[b].salt
         /\ pc' \in [Procs -> Stages] /\ pc[h] = "open" /\ pc'[h] = "write"
         /\ \A b \in Procs \ {h} : pc'[b] = pc[b]
         /\ UNCHANGED <<saves, written, faults, channel, devMode, reply, output>>
<1> DEFINE p == saves[task[h].job.save].path
<1>1. /\ pc[h] = "open" /\ files' = [files EXCEPT ![p] = <<>>]
      /\ spoilt' = IF Writers(p) = {} THEN spoilt \ {p} ELSE spoilt \cup {p}
      /\ task' = Touch(p) /\ pc' = [pc EXCEPT ![h] = "write"]
      /\ UNCHANGED <<saves, written, faults, channel, devMode, reply, output>>
  BY DEF Open, Opened, counts, results
<1>2. p \in Paths
  BY <1>1, SaveFacts, Numbers DEF Saving
<1> HIDE DEF p
<1>3. files' \in [Paths -> Seq(Nat)]
  <2>1. <<>> \in Seq(Nat)
    OBVIOUS
  <2> QED
    BY <1>1, <1>2, <2>1 DEF PlacedInv, Typed
<1>4. /\ DOMAIN task' = Procs
      /\ \A b \in Procs : /\ IsTask(task'[b]) /\ task'[b].job = task[b].job
                          /\ task'[b].at = task[b].at /\ task'[b].salt = task[b].salt
  BY <1>1, TouchFacts DEF PlacedInv
<1>5. /\ pc' \in [Procs -> Stages] /\ pc'[h] = "write"
      /\ \A b \in Procs \ {h} : pc'[b] = pc[b]
  BY <1>1, Numbers DEF PlacedInv, Typed, Stages
<1> QED
  BY <1>1, <1>2, <1>3, <1>4, <1>5 DEF p

LEMMA PutFacts ==
  ASSUME NEW c \in Seq(Nat), NEW k \in Nat \ {0}, NEW n \in Nat
  PROVE  Put(c, k, n) \in Seq(Nat)
<1>1. Len(c) \in Nat /\ \A i \in 1..Len(c) : c[i] \in Nat
  OBVIOUS
<1> DEFINE m == IF k > Len(c) THEN k ELSE Len(c)
<1>2. m \in Nat
  BY <1>1
<1>3. \A i \in 1..m : (IF i = k THEN n ELSE IF i <= Len(c) THEN c[i] ELSE 0) \in Nat
  BY <1>1
<1>4. Put(c, k, n) = [i \in 1..m |-> IF i = k THEN n ELSE IF i <= Len(c) THEN c[i] ELSE 0]
  BY DEF Put
<1> HIDE DEF m
<1>5. Put(c, k, n) \in [1..m -> Nat]
  BY <1>3, <1>4
<1> QED
  BY <1>2, <1>5

LEMMA WriteFacts ==
  ASSUME PlacedInv, NEW h \in Hosts, Write(h)
  PROVE  LET n == task[h].job.save
             p == saves[n].path
             k == task[h].at + 1
         IN /\ p \in Paths /\ n \in 1..Len(saves) /\ Len(saves) \in Nat
            /\ k \in Nat \ {0} /\ saves[n].size \in Nat
            /\ files' = [files EXCEPT ![p] = Put(@, k, n)] /\ files' \in [Paths -> Seq(Nat)]
            /\ DOMAIN task' = Procs /\ IsTask(task'[h])
            /\ \A b \in Procs \ {h} :
                 /\ IsTask(task'[b]) /\ task'[b].job = task[b].job
                 /\ task'[b].at = task[b].at /\ task'[b].salt = task[b].salt
                 /\ pc'[b] = pc[b] /\ reply'[b] = reply[b]
            /\ DOMAIN reply' = Procs
            /\ pc[h] = "write" /\ pc' \in [Procs -> Stages]
            /\ \/ /\ k = saves[n].size /\ written' = written \cup {n}
                  /\ pc'[h] \in {"idle", "dead"} /\ task'[h] = NoTask
                  /\ reply'[h] = [NoReply EXCEPT !.ok = TRUE]
               \/ /\ k # saves[n].size /\ written' = written /\ pc'[h] = "write"
                  /\ task'[h].job = task[h].job /\ task'[h].at = k /\ reply'[h] = reply[h]
            /\ UNCHANGED <<saves, spoilt, faults, channel, devMode, output>>
<1> DEFINE n == task[h].job.save
           p == saves[n].path
           k == task[h].at + 1
<1>1. /\ pc[h] = "write" /\ files' = [files EXCEPT ![p] = Put(@, k, n)]
      /\ IF k = saves[n].size
         THEN /\ AnswerFrom(Touch(p), h, [NoReply EXCEPT !.ok = TRUE])
              /\ written' = written \cup {n}
         ELSE /\ task' = [Touch(p) EXCEPT ![h].at = k]
              /\ UNCHANGED <<pc, reply, written>>
      /\ UNCHANGED <<saves, spoilt, faults, channel, devMode, output>>
  BY DEF Write, counts
<1>2. /\ p \in Paths /\ n \in 1..Len(saves) /\ Len(saves) \in Nat /\ saves[n].size \in Nat
  BY <1>1, SaveFacts, Numbers DEF Saving
<1>3. task[h].at \in Nat
  BY Numbers DEF PlacedInv, Typed, IsTask
<1>4. k \in Nat \ {0}
  BY <1>3
<1>5. /\ DOMAIN Touch(p) = Procs
      /\ \A b \in Procs : /\ IsTask(Touch(p)[b]) /\ Touch(p)[b].job = task[b].job
                          /\ Touch(p)[b].at = task[b].at /\ Touch(p)[b].salt = task[b].salt
  BY TouchFacts DEF PlacedInv
<1> HIDE DEF n, p, k
<1>6. files' \in [Paths -> Seq(Nat)]
  <2>1. files \in [Paths -> Seq(Nat)]
    BY DEF PlacedInv, Typed
  <2>2. Put(files[p], k, n) \in Seq(Nat)
    BY <1>2, <1>4, <2>1, PutFacts
  <2> QED
    BY <1>1, <2>1, <2>2
<1>7. CASE k = saves[n].size
  <2>1. AnswerFrom(Touch(p), h, [NoReply EXCEPT !.ok = TRUE]) /\ written' = written \cup {n}
    BY <1>1, <1>7
  <2>2. /\ pc' \in [Procs -> Stages] /\ pc'[h] \in {"idle", "dead"}
        /\ \A b \in Procs \ {h} : pc'[b] = pc[b]
    BY <2>1, Numbers DEF AnswerFrom, PlacedInv, Typed, Stages
  <2>3. /\ DOMAIN task' = Procs /\ task'[h] = NoTask
        /\ \A b \in Procs \ {h} : task'[b] = Touch(p)[b]
    BY <2>1, <1>5, Numbers DEF AnswerFrom
  <2>4. /\ DOMAIN reply' = Procs /\ reply'[h] = [NoReply EXCEPT !.ok = TRUE]
        /\ \A b \in Procs \ {h} : reply'[b] = reply[b]
    BY <2>1, Numbers DEF AnswerFrom, PlacedInv, Typed
  <2>5. IsTask(task'[h])
    BY <2>3, NoTaskIsTask
  <2>6. \A b \in Procs \ {h} :
          /\ IsTask(task'[b]) /\ task'[b].job = task[b].job
          /\ task'[b].at = task[b].at /\ task'[b].salt = task[b].salt
    BY <1>5, <2>3
  <2> QED
    BY <1>1, <1>2, <1>4, <1>6, <1>7, <2>1, <2>2, <2>3, <2>4, <2>5, <2>6 DEF n, p, k
<1>8. CASE k # saves[n].size
  <2>1. task' = [Touch(p) EXCEPT ![h].at = k] /\ UNCHANGED <<pc, reply, written>>
    BY <1>1, <1>8
  <2> DEFINE t == Touch(p)[h]
  <2>2. /\ DOMAIN task' = Procs /\ task'[h] = [t EXCEPT !.at = k]
        /\ \A b \in Procs \ {h} : task'[b] = Touch(p)[b]
    BY <2>1, <1>5, Numbers
  <2>3. IsTask(t) /\ t.job = task[h].job
    BY <1>5, Numbers
  <2> HIDE DEF t
  <2>4. IsTask([t EXCEPT !.at = k]) /\ [t EXCEPT !.at = k].job = t.job /\ [t EXCEPT !.at = k].at = k
    BY <1>4, <2>3 DEF IsTask
  <2>5. pc' \in [Procs -> Stages] /\ DOMAIN reply' = Procs
    BY <2>1 DEF PlacedInv, Typed
  <2>6. \A b \in Procs \ {h} :
          /\ IsTask(task'[b]) /\ task'[b].job = task[b].job
          /\ task'[b].at = task[b].at /\ task'[b].salt = task[b].salt
    BY <1>5, <2>2
  <2> QED
    BY <1>1, <1>2, <1>4, <1>6, <1>8, <2>1, <2>2, <2>3, <2>4, <2>5, <2>6 DEF n, p, k
<1> QED
  BY <1>7, <1>8

LEMMA KillFacts ==
  ASSUME Typed, NEW a \in Procs, Kill(a)
  PROVE  /\ faults' \in 0..MaxFaults /\ faults' = faults + 1 /\ faults \in Nat
         /\ pc' \in [Procs -> Stages] /\ pc'[a] = "dead"
         /\ \A b \in Procs \ {a} : pc'[b] = pc[b]
         /\ spoilt' = spoilt \cup {p \in Paths : a \in Writers(p)}
         /\ UNCHANGED <<files, saves, written, channel, task, devMode, reply, output>>
  BY Numbers DEF Kill, Typed, Stages, results

\* What can happen, by what it changes.
LEMMA NextCases ==
  ASSUME Next
  PROVE  \/ PostSave \/ PostProof \/ Drop \/ ReplayNext \/ ProofSteps
         \/ \E h \in Hosts : TakeSave(h) \/ TakeProof(h) \/ Open(h) \/ Write(h)
         \/ \E a \in Procs : Kill(a)
  BY Numbers DEF Next, Step, HostStep, CliStep, ProofSteps

-----------------------------------------------------------------------------
(* The invariant of the messages and the processes *)

LEMMA PlacedInit == Init => PlacedInv
<1> SUFFICES ASSUME Init PROVE PlacedInv
  OBVIOUS
<1>1. <<>> \in Seq(Jobs) /\ <<>> \in Seq([path : Paths, size : Nat \ {0}]) /\ <<>> \in Seq(Nat)
  OBVIOUS
<1>2. 1 \in Hosts /\ 0 \in 0..MaxFaults /\ 0 <= MaxSaves
  BY Numbers DEF Hosts
<1>3. Typed
  BY <1>1, <1>2, NoTaskIsTask DEF Init, Typed, Stages
<1>4. Placed
  <2>1. Len(saves) = 0 /\ \A a \in Procs : Len(inbox[a]) = 0 /\ task[a] = NoTask
    BY DEF Init
  <2>2. Len(resend) = 0 /\ current = 1
    BY DEF Init
  <2>3. \A a \in Procs : pc[a] = IF a \in {Cli, 1} THEN "idle" ELSE "dead"
    BY DEF Init
  <2>4. \A a \in Procs : pc[a] \notin Saving /\ Known(task[a].job, Len(saves))
    BY <2>1, <2>3, NoTaskIsTask DEF Saving, Known
  <2>5. \A h \in Hosts : h > current => pc[h] = "dead" /\ inbox[h] = <<>>
    BY <2>2, <2>3, Numbers DEF Cli, Init
  <2> QED
    BY <2>1, <2>2, <2>4, <2>5, Numbers DEF Placed, Init, Saving
<1> QED
  BY <1>3, <1>4 DEF PlacedInv

LEMMA PlacedCalm == ASSUME PlacedInv, NEW a \in Procs, CalmFor(a) PROVE PlacedInv'
<1>1. /\ UNCHANGED <<files, saves, written, current, inbox, resend, again, faults>>
      /\ pc' \in [Procs -> Stages] /\ pc[a] \notin Saving /\ pc'[a] \notin Saving
      /\ a = Cli \/ pc[a] # "dead"
      /\ DOMAIN task' = Procs /\ IsTask(task'[a])
      /\ task'[a].job.save \in {task[a].job.save, 0}
      /\ \A b \in Procs \ {a} : pc'[b] = pc[b] /\ task'[b] = task[b]
      /\ DOMAIN devMode' = Procs /\ DOMAIN reply' = Procs
  BY DEF CalmFor, store, channel
<1>2. Typed'
  BY <1>1 DEF PlacedInv, Typed
<1>3. \A b \in Procs : Known(task'[b].job, Len(saves'))
  <2>1. Len(saves) \in Nat
    BY DEF PlacedInv, Typed
  <2> QED
    BY <1>1, <2>1 DEF PlacedInv, Placed, Known
<1>4. \A b \in Procs : /\ \A k \in 1..Len(inbox'[b]) : Known(inbox'[b][k], Len(saves'))
                       /\ pc'[b] \in Saving => task'[b].job.save # 0
                       /\ pc'[b] = "open" => task'[b].at = 0
  BY <1>1 DEF PlacedInv, Placed, Known, Saving
<1>5. \A h \in Hosts : h > current' => pc'[h] = "dead" /\ inbox'[h] = <<>>
  BY <1>1, Numbers DEF PlacedInv, Placed
<1>6. /\ \A k \in 1..Len(resend') : Known(resend'[k], Len(saves'))
      /\ inbox'[Cli] = <<>> /\ pc'[Cli] \notin Saving
  BY <1>1, Numbers DEF PlacedInv, Placed, Known
<1> QED
  BY <1>2, <1>3, <1>4, <1>5, <1>6 DEF PlacedInv, Placed, Known

\* A message for the current host.
LEMMA PlacedPost ==
  ASSUME PlacedInv, NEW j \in Jobs, Len(saves) <= Len(saves'), Len(saves') \in Nat,
         j.save \in 0..Len(saves'),
         inbox' = [inbox EXCEPT ![current] = Enqueue(@, j)],
         UNCHANGED <<current, pc, task>>,
         \A k \in 1..Len(resend') : \E i \in 1..Len(resend) : resend'[k] = resend[i]
  PROVE  Placed'
<1>1. Len(saves) \in Nat /\ current \in Hosts /\ current \in Procs /\ current # Cli /\ current \in Nat
  BY Numbers DEF PlacedInv, Typed
<1>2. /\ \A b \in Procs \ {current} : inbox'[b] = inbox[b]
      /\ Len(inbox[current]) \in Nat /\ Len(inbox'[current]) = Len(inbox[current]) + 1
      /\ inbox'[current][Len(inbox[current]) + 1] = j
      /\ \A k \in 1..Len(inbox[current]) : inbox'[current][k] = inbox[current][k]
  BY <1>1, PostFacts DEF PlacedInv
<1>4. ASSUME NEW b \in Procs, NEW k \in 1..Len(inbox'[b]) PROVE Known(inbox'[b][k], Len(saves'))
  <2>1. CASE b # current
    <3>1. Known(inbox[b][k], Len(saves)) /\ inbox'[b][k] = inbox[b][k]
      BY <1>2, <2>1 DEF PlacedInv, Placed
    <3> QED
      BY <1>1, <3>1 DEF Known
  <2>2. CASE b = current /\ k # Len(inbox[b]) + 1
    <3>1. k \in 1..Len(inbox[b])
      BY <1>2, <2>2
    <3>2. Known(inbox[b][k], Len(saves)) /\ inbox'[b][k] = inbox[b][k]
      BY <1>2, <2>2, <3>1 DEF PlacedInv, Placed
    <3> QED
      BY <1>1, <3>2 DEF Known
  <2>3. CASE b = current /\ k = Len(inbox[b]) + 1
    BY <1>2, <2>3 DEF Known
  <2> QED
    BY <2>1, <2>2, <2>3
<1>5. \A b \in Procs : Known(task'[b].job, Len(saves'))
  BY <1>1 DEF PlacedInv, Placed, Known
<1>6. \A k \in 1..Len(resend') : Known(resend'[k], Len(saves'))
  BY <1>1 DEF PlacedInv, Placed, Known
<1>7. \A h \in Hosts : h > current' => pc'[h] = "dead" /\ inbox'[h] = <<>>
  <2>1. \A h \in Hosts : h > current => h # current /\ h \in Procs
    BY <1>1, Numbers
  <2> QED
    BY <1>2, <2>1 DEF PlacedInv, Placed
<1>8. /\ inbox'[Cli] = <<>> /\ pc'[Cli] \notin Saving
      /\ \A b \in Procs : /\ pc'[b] \in Saving => task'[b].job.save # 0
                          /\ pc'[b] = "open" => task'[b].at = 0
  BY <1>1, <1>2, Numbers DEF PlacedInv, Placed
<1> QED
  BY <1>4, <1>5, <1>6, <1>7, <1>8 DEF Placed, Known

LEMMA PlacedPostSave == ASSUME PlacedInv, PostSave PROVE PlacedInv'
<1> DEFINE j == SaveJob(Len(saves'))
           Sessions == [path : Paths, size : Nat \ {0}]
<1>1. /\ saves' \in Seq(Sessions) /\ Len(saves') = Len(saves) + 1
      /\ Len(saves) \in Nat /\ Len(saves') <= MaxSaves
      /\ j \in Jobs /\ current \in Procs
      /\ inbox' = [inbox EXCEPT ![current] = Enqueue(@, j)]
      /\ UNCHANGED <<files, written, faults, current, resend, pc, task, devMode, reply>>
  BY PostSaveFacts DEF PlacedInv
<1>2. j.save \in 0..Len(saves')
  BY <1>1 DEF SaveJob
<1> HIDE DEF j
<1>3. inbox' \in [Procs -> Seq(Jobs)]
  BY <1>1, PostFacts DEF PlacedInv
<1>4. written' \subseteq 1..Len(saves')
  BY <1>1 DEF PlacedInv, Typed
<1>5. Typed'
  BY <1>1, <1>3, <1>4 DEF PlacedInv, Typed
<1>6. Placed'
  <2>1. /\ Len(saves) <= Len(saves') /\ Len(saves') \in Nat /\ UNCHANGED <<current, pc, task>>
        /\ \A k \in 1..Len(resend') : \E i \in 1..Len(resend) : resend'[k] = resend[i]
    BY <1>1
  <2> QED
    BY <1>1, <1>2, <2>1, PlacedPost
<1> QED
  BY <1>5, <1>6 DEF PlacedInv

LEMMA PlacedPostProof == ASSUME PlacedInv, PostProof PROVE PlacedInv'
<1>1. PICK fs \in Requests, dev \in BOOLEAN :
        inbox' = [inbox EXCEPT ![current] = Enqueue(@, ProofJob(fs, dev))]
  BY DEF PostProof
<1> DEFINE j == ProofJob(fs, dev)
<1>2. j \in Jobs /\ j.save = 0
  BY ProofJobIsJob, PipelineAssumption DEF PipelineAssumption
<1> HIDE DEF j
<1>3. inbox' = [inbox EXCEPT ![current] = Enqueue(@, j)]
      /\ UNCHANGED <<files, saves, written, faults, current, resend, pc, task, devMode, reply>>
  BY <1>1 DEF PostProof, store, results, j
<1>4. current \in Procs /\ Len(saves) \in Nat
  BY Numbers DEF PlacedInv, Typed
<1>5. inbox' \in [Procs -> Seq(Jobs)]
  BY <1>2, <1>3, <1>4, PostFacts DEF PlacedInv
<1>6. Typed'
  BY <1>3, <1>5 DEF PlacedInv, Typed
<1>7. Placed'
  <2>1. /\ Len(saves) <= Len(saves') /\ Len(saves') \in Nat /\ UNCHANGED <<current, pc, task>>
        /\ j.save \in 0..Len(saves')
        /\ \A k \in 1..Len(resend') : \E i \in 1..Len(resend) : resend'[k] = resend[i]
    BY <1>2, <1>3, <1>4
  <2> QED
    BY <1>2, <1>3, <2>1, PlacedPost
<1> QED
  BY <1>6, <1>7 DEF PlacedInv

LEMMA PlacedReplay == ASSUME PlacedInv, ReplayNext PROVE PlacedInv'
<1> DEFINE j == [Head(resend) EXCEPT !.again = TRUE]
<1>1. /\ resend' \in Seq(Jobs) /\ j \in Jobs /\ 1 \in 1..Len(resend)
      /\ \A k \in 1..Len(resend') : k + 1 \in 1..Len(resend) /\ resend'[k] = resend[k + 1]
      /\ j.save = resend[1].save
      /\ inbox' = inbox \/ inbox' = [inbox EXCEPT ![current] = Enqueue(@, j)]
      /\ UNCHANGED <<files, saves, written, faults, current, pc, task, devMode, reply>>
  BY ReplayFacts DEF PlacedInv, store
<1> HIDE DEF j
<1>2. current \in Procs /\ Len(saves) \in Nat
  BY Numbers DEF PlacedInv, Typed
<1>3. j.save \in 0..Len(saves')
  BY <1>1 DEF PlacedInv, Placed, Known
<1>4. inbox' \in [Procs -> Seq(Jobs)]
  BY <1>1, <1>2, PostFacts DEF PlacedInv, Typed
<1>5. Typed'
  BY <1>1, <1>4 DEF PlacedInv, Typed
<1>6. Placed'
  <2>1. CASE inbox' = inbox
    <3>1. \A k \in 1..Len(resend') : Known(resend'[k], Len(saves'))
      BY <1>1 DEF PlacedInv, Placed
    <3> QED
      BY <1>1, <2>1, <3>1 DEF PlacedInv, Placed
  <2>2. CASE inbox' = [inbox EXCEPT ![current] = Enqueue(@, j)]
    <3>1. \A k \in 1..Len(resend') : \E i \in 1..Len(resend) : resend'[k] = resend[i]
      BY <1>1
    <3>2. /\ Len(saves) <= Len(saves') /\ Len(saves') \in Nat /\ j \in Jobs
          /\ UNCHANGED <<current, pc, task>>
      BY <1>1, <1>2
    <3> QED
      BY <1>3, <2>2, <3>1, <3>2, PlacedPost
  <2> QED
    BY <1>1, <2>1, <2>2
<1> QED
  BY <1>5, <1>6 DEF PlacedInv

LEMMA PlacedDrop == ASSUME PlacedInv, Drop PROVE PlacedInv'
<1>1. /\ current \in Hosts /\ current' = current + 1 /\ current' \in Hosts
      /\ faults' \in 0..MaxFaults /\ current' <= faults' + 1
      /\ resend' = Unanswered(current)
      /\ pc' \in [Procs -> Stages] /\ pc'[current'] = "idle"
      /\ pc'[current] \in {pc[current], "dead"}
      /\ \A a \in Procs \ {current, current'} : pc'[a] = pc[a]
      /\ UNCHANGED <<files, saves, written, inbox, task, devMode, reply>>
  BY DropFacts DEF PlacedInv, store
<1>2. resend' \in Seq(Jobs)
  BY <1>1, UnansweredFacts, Numbers DEF PlacedInv
<1>3. Typed'
  BY <1>1, <1>2 DEF PlacedInv, Typed
<1>4. \A k \in 1..Len(resend') : Known(resend'[k], Len(saves'))
  <2>1. TAKE k \in 1..Len(resend')
  <2>2. \/ resend'[k] = task[current].job
        \/ \E i \in 1..Len(inbox[current]) : resend'[k] = inbox[current][i]
    BY <1>1, UnansweredFacts, Numbers DEF PlacedInv
  <2> QED
    BY <1>1, <2>2, Numbers DEF PlacedInv, Placed
<1>5. \A b \in Procs : /\ pc'[b] \in Saving => pc[b] \in Saving
                       /\ pc'[b] = "open" => pc[b] = "open"
  BY <1>1 DEF Saving
<1>6. \A h \in Hosts : h > current' => pc'[h] = "dead" /\ inbox'[h] = <<>>
  <2>1. \A h \in Hosts : h > current' => h > current /\ h # current /\ h # current' /\ h \in Procs
    BY <1>1, Numbers
  <2> QED
    BY <1>1, <2>1 DEF PlacedInv, Placed
<1>7. \A b \in Procs : /\ Known(task'[b].job, Len(saves'))
                       /\ \A k \in 1..Len(inbox'[b]) : Known(inbox'[b][k], Len(saves'))
                       /\ pc'[b] \in Saving => task'[b].job.save # 0
                       /\ pc'[b] = "open" => task'[b].at = 0
  BY <1>1, <1>5 DEF PlacedInv, Placed
<1>8. inbox'[Cli] = <<>> /\ pc'[Cli] \notin Saving
  BY <1>1, <1>5, Numbers DEF PlacedInv, Placed
<1> QED
  BY <1>3, <1>4, <1>6, <1>7, <1>8 DEF PlacedInv, Placed

\* A host takes a message.
LEMMA PlacedTake ==
  ASSUME PlacedInv, NEW h \in Hosts, TakeSave(h) \/ TakeProof(h)
  PROVE  PlacedInv'
<1>1. /\ inbox[h] # <<>> /\ inbox' = [inbox EXCEPT ![h] = Tail(@)]
      /\ UNCHANGED <<files, saves, written, faults, current, resend>>
      /\ pc[h] = "idle" /\ pc' \in [Procs -> Stages]
      /\ \A b \in Procs \ {h} : pc'[b] = pc[b] /\ task'[b] = task[b]
      /\ DOMAIN task' = Procs /\ IsTask(task'[h])
      /\ DOMAIN devMode' = Procs /\ DOMAIN reply' = Procs
  BY TakeSaveFacts, TakeProofFacts DEF PlacedInv, Typed, store
<1>2. \/ pc'[h] \notin Saving /\ task'[h].job.save = 0
      \/ /\ pc'[h] = "open" /\ task'[h].at = 0 /\ task'[h].job.save # 0
         /\ task'[h].job = Head(inbox[h])
  BY TakeSaveFacts, TakeProofFacts DEF PlacedInv, Saving
<1>3. /\ inbox' \in [Procs -> Seq(Jobs)] /\ \A b \in Procs \ {h} : inbox'[b] = inbox[b]
      /\ Head(inbox[h]) = inbox[h][1] /\ 1 \in 1..Len(inbox[h])
      /\ \A k \in 1..Len(inbox'[h]) :
           k + 1 \in 1..Len(inbox[h]) /\ inbox'[h][k] = inbox[h][k + 1]
  BY <1>1, TakeFacts, Numbers DEF PlacedInv
<1>4. Typed'
  BY <1>1, <1>3 DEF PlacedInv, Typed
<1>5. Known(task'[h].job, Len(saves'))
  <2>1. Len(saves) \in Nat /\ Known(inbox[h][1], Len(saves))
    BY <1>3, Numbers DEF PlacedInv, Placed, Typed
  <2> QED
    BY <1>1, <1>2, <1>3, <2>1 DEF Known
<1>6. \A b \in Procs : /\ Known(task'[b].job, Len(saves'))
                       /\ pc'[b] \in Saving => task'[b].job.save # 0
                       /\ pc'[b] = "open" => task'[b].at = 0
  BY <1>1, <1>2, <1>5 DEF PlacedInv, Placed, Saving
<1>7. \A b \in Procs : \A k \in 1..Len(inbox'[b]) : Known(inbox'[b][k], Len(saves'))
  BY <1>1, <1>3 DEF PlacedInv, Placed
<1>8. \A g \in Hosts : g > current' => pc'[g] = "dead" /\ inbox'[g] = <<>>
  <2>1. ~(h > current)
    BY <1>1 DEF PlacedInv, Placed
  <2>2. \A g \in Hosts : g > current => g # h /\ g \in Procs
    BY <2>1, Numbers
  <2> QED
    BY <1>1, <1>3, <2>2 DEF PlacedInv, Placed
<1>9. /\ \A k \in 1..Len(resend') : Known(resend'[k], Len(saves'))
      /\ inbox'[Cli] = <<>> /\ pc'[Cli] \notin Saving
  BY <1>1, <1>3, Numbers DEF PlacedInv, Placed
<1> QED
  BY <1>4, <1>6, <1>7, <1>8, <1>9 DEF PlacedInv, Placed

LEMMA PlacedWrite ==
  ASSUME PlacedInv, NEW h \in Hosts, Open(h) \/ Write(h)
  PROVE  PlacedInv'
<1>1. /\ files' \in [Paths -> Seq(Nat)]
      /\ UNCHANGED <<saves, faults, current, inbox, resend>>
      /\ pc[h] \in Saving /\ pc' \in [Procs -> Stages] /\ pc'[h] # "open"
      /\ \A b \in Procs \ {h} : /\ pc'[b] = pc[b] /\ IsTask(task'[b])
                                /\ task'[b].job = task[b].job /\ task'[b].at = task[b].at
      /\ DOMAIN task' = Procs /\ IsTask(task'[h])
      /\ DOMAIN devMode' = Procs /\ DOMAIN reply' = Procs
  <2>1. DOMAIN reply = Procs /\ DOMAIN devMode = Procs /\ h \in Procs
    BY Numbers DEF PlacedInv, Typed
  <2>2. CASE Open(h)
    BY <2>1, <2>2, OpenFacts DEF Saving, channel
  <2>3. CASE Write(h)
    <3>1. pc'[h] # "open" /\ pc[h] \in Saving
      BY <2>3, WriteFacts DEF Saving
    <3> QED
      BY <2>1, <2>3, <3>1, WriteFacts DEF channel
  <2> QED
    BY <2>2, <2>3
<1>2. \/ task'[h].job = task[h].job
      \/ task'[h].job = NoJob /\ pc'[h] \notin Saving
  BY OpenFacts, WriteFacts, NoTaskIsTask, Numbers DEF Saving
<1>3. written' \subseteq 1..Len(saves)
  <2>1. written \subseteq 1..Len(saves)
    BY DEF PlacedInv, Typed
  <2>2. CASE Open(h)
    BY <2>1, <2>2, OpenFacts
  <2>3. CASE Write(h)
    BY <2>1, <2>3, WriteFacts
  <2> QED
    BY <2>2, <2>3
<1>4. Typed'
  BY <1>1, <1>3 DEF PlacedInv, Typed
<1>5. Known(task'[h].job, Len(saves')) /\ (pc'[h] \in Saving => task'[h].job.save # 0)
  <2>1. Len(saves) \in Nat /\ Known(task[h].job, Len(saves)) /\ task[h].job.save # 0
    BY <1>1, Numbers DEF PlacedInv, Placed, Typed
  <2> QED
    BY <1>1, <1>2, <2>1, NoTaskIsTask DEF Known
<1>6. \A b \in Procs : /\ Known(task'[b].job, Len(saves'))
                       /\ pc'[b] \in Saving => task'[b].job.save # 0
                       /\ pc'[b] = "open" => task'[b].at = 0
  BY <1>1, <1>5 DEF PlacedInv, Placed
<1>7. \A g \in Hosts : g > current' => pc'[g] = "dead" /\ inbox'[g] = <<>>
  <2>1. ~(h > current)
    BY <1>1 DEF PlacedInv, Placed, Saving
  <2>2. \A g \in Hosts : g > current => g # h /\ g \in Procs
    BY <2>1, Numbers
  <2> QED
    BY <1>1, <2>2 DEF PlacedInv, Placed
<1>8. /\ \A b \in Procs : \A k \in 1..Len(inbox'[b]) : Known(inbox'[b][k], Len(saves'))
      /\ \A k \in 1..Len(resend') : Known(resend'[k], Len(saves'))
      /\ inbox'[Cli] = <<>> /\ pc'[Cli] \notin Saving
  BY <1>1, Numbers DEF PlacedInv, Placed
<1> QED
  BY <1>4, <1>6, <1>7, <1>8 DEF PlacedInv, Placed

LEMMA PlacedKill == ASSUME PlacedInv, NEW a \in Procs, Kill(a) PROVE PlacedInv'
<1>1. /\ faults' \in 0..MaxFaults /\ faults' = faults + 1 /\ faults \in Nat
      /\ pc' \in [Procs -> Stages] /\ pc'[a] = "dead"
      /\ \A b \in Procs \ {a} : pc'[b] = pc[b]
      /\ UNCHANGED <<files, saves, written, current, inbox, resend, task, devMode, reply>>
  BY KillFacts DEF PlacedInv, channel
<1>2. current \in Nat
  BY Numbers DEF PlacedInv, Typed
<1>3. Typed'
  BY <1>1, <1>2 DEF PlacedInv, Typed
<1>4. Placed'
  BY <1>1, Numbers DEF PlacedInv, Placed, Saving
<1> QED
  BY <1>3, <1>4 DEF PlacedInv

LEMMA PlacedStep == ASSUME PlacedInv, [Next]_vars PROVE PlacedInv'
<1>1. CASE ProofSteps
  BY <1>1, ProofsCalm, PlacedCalm DEF PlacedInv, CalmWork
<1>2. CASE \E h \in Hosts : TakeSave(h) \/ TakeProof(h) \/ Open(h) \/ Write(h)
  BY <1>2, PlacedTake, PlacedWrite
<1>3. CASE \E a \in Procs : Kill(a)
  BY <1>3, PlacedKill
<1>4. CASE UNCHANGED vars
  BY <1>4 DEF vars, store, counts, channel, results, PlacedInv, Typed, Placed
<1> QED
  BY <1>1, <1>2, <1>3, <1>4, NextCases, PlacedPostSave, PlacedPostProof, PlacedDrop, PlacedReplay

THEOREM PlacedAlways == Spec => []PlacedInv
  BY PlacedInit, PlacedStep, PTL DEF Spec

-----------------------------------------------------------------------------
(* RISC0_DEV_MODE *)

\* A process proves in the mode that was asked for; nobody sets the mode of the
\* command line.
DevInv ==
  /\ devMode[Cli] = FALSE
  /\ \A a \in Procs : pc[a] \in Proving => task[a].job.dev = devMode[a]
  /\ DevModeAsAsked

LEMMA DevInit == Init => DevInv
  BY Numbers DEF Init, DevInv, DevModeAsAsked, Proving, NoReply

LEMMA DevStep == ASSUME PlacedInv, DevInv, [Next]_vars PROVE DevInv'
<1>0. Typed
  BY DEF PlacedInv
<1>1. ASSUME NEW a \in Procs, CalmWork(a) PROVE DevInv'
  <2>1. /\ devMode' = devMode /\ \A b \in Procs \ {a} : reply'[b] = reply[b]
        /\ pc'[a] \in Proving => \/ pc[a] \in Proving /\ task'[a].job = task[a].job
                                 \/ a = Cli /\ task'[a].job.dev = FALSE
        /\ reply'[a].ok => \/ reply'[a] = reply[a]
                           \/ pc[a] \in Proving /\ reply'[a] = ProofReply(a)
        /\ \A b \in Procs \ {a} : pc'[b] = pc[b] /\ task'[b] = task[b]
    BY <1>1 DEF CalmWork, CalmFor, SameWork
  <2>3. \A b \in Procs : pc'[b] \in Proving => task'[b].job.dev = devMode'[b]
    BY <2>1 DEF DevInv
  <2>4. ProofReply(a).ok => (pc[a] \in Proving => ProofReply(a).dev = ProofReply(a).wanted)
    BY DEF DevInv, ProofReply
  <2>5. \A b \in Procs : reply'[b].ok => reply'[b].dev = reply'[b].wanted
    BY <2>1, <2>4 DEF DevInv, DevModeAsAsked
  <2> QED
    BY <2>1, <2>3, <2>5 DEF DevInv, DevModeAsAsked
<1>2. CASE ProofSteps
  BY <1>0, <1>1, <1>2, ProofsCalm
<1>3. ASSUME NEW h \in Hosts, TakeSave(h) PROVE DevInv'
  <2>1. /\ pc'[h] = "open" /\ UNCHANGED <<devMode, reply>>
        /\ \A b \in Procs \ {h} : pc'[b] = pc[b] /\ task'[b] = task[b]
    BY <1>0, <1>3, TakeSaveFacts
  <2> QED
    BY <2>1 DEF DevInv, DevModeAsAsked, Proving
<1>4. ASSUME NEW h \in Hosts, TakeProof(h) PROVE DevInv'
  <2>1. /\ pc'[h] \in {"idle", "hint", "dead"}
        /\ \A b \in Procs \ {h} : /\ pc'[b] = pc[b] /\ task'[b] = task[b]
                                  /\ reply'[b] = reply[b] /\ devMode'[b] = devMode[b]
        /\ reply'[h] = reply[h] \/ ~reply'[h].ok
        /\ pc'[h] = "hint" => devMode'[h] = task'[h].job.dev
    BY <1>0, <1>4, TakeProofFacts
  <2>2. h # Cli /\ Cli \in Procs
    BY Numbers
  <2> QED
    BY <2>1, <2>2 DEF DevInv, DevModeAsAsked, Proving
<1>5. ASSUME NEW h \in Hosts, Open(h) PROVE DevInv'
  <2>1. /\ pc'[h] = "write" /\ UNCHANGED <<devMode, reply>>
        /\ \A b \in Procs \ {h} : pc'[b] = pc[b]
        /\ \A b \in Procs : task'[b].job = task[b].job
    BY <1>5, OpenFacts
  <2> QED
    BY <2>1 DEF DevInv, DevModeAsAsked, Proving
<1>6. ASSUME NEW h \in Hosts, Write(h) PROVE DevInv'
  <2>1. /\ pc'[h] \in {"idle", "dead", "write"} /\ UNCHANGED devMode
        /\ \A b \in Procs \ {h} : pc'[b] = pc[b] /\ task'[b].job = task[b].job /\ reply'[b] = reply[b]
        /\ reply'[h] \in {reply[h], [NoReply EXCEPT !.ok = TRUE]}
    BY <1>6, WriteFacts
  <2>2. [NoReply EXCEPT !.ok = TRUE].dev = [NoReply EXCEPT !.ok = TRUE].wanted
    BY DEF NoReply
  <2> QED
    BY <2>1, <2>2, ZenonT(60) DEF DevInv, DevModeAsAsked, Proving
<1>7. ASSUME NEW a \in Procs, Kill(a) PROVE DevInv'
  <2>1. /\ pc'[a] = "dead" /\ UNCHANGED <<task, devMode, reply>>
        /\ \A b \in Procs \ {a} : pc'[b] = pc[b]
    BY <1>0, <1>7, KillFacts
  <2> QED
    BY <2>1 DEF DevInv, DevModeAsAsked, Proving
<1>8. CASE Drop
  <2>1. /\ pc'[current'] = "idle" /\ pc'[current] \in {pc[current], "dead"}
        /\ \A b \in Procs \ {current, current'} : pc'[b] = pc[b]
        /\ UNCHANGED <<task, devMode, reply>>
    BY <1>0, <1>8, DropFacts
  <2> QED
    BY <2>1 DEF DevInv, DevModeAsAsked, Proving
<1>9. CASE PostSave \/ PostProof \/ ReplayNext \/ UNCHANGED vars
  <2>1. UNCHANGED <<pc, task, devMode, reply>>
    BY <1>9 DEF PostSave, PostProof, ReplayNext, vars, results
  <2> QED
    BY <2>1 DEF DevInv, DevModeAsAsked
<1> QED
  BY <1>2, <1>3, <1>4, <1>5, <1>6, <1>7, <1>8, <1>9, NextCases

\* A proof says of itself what was asked for it, whatever the process proved
\* before: every request sets RISC0_DEV_MODE or removes it (main.rs 727-732).
THEOREM ModeAsAsked == Spec => []DevModeAsAsked
<1>1. Init => DevInv /\ PlacedInv
  BY DevInit, PlacedInit
<1>2. PlacedInv /\ DevInv /\ [Next]_vars => PlacedInv' /\ DevInv'
  BY DevStep, PlacedStep
<1>3. DevInv => DevModeAsAsked
  BY DEF DevInv
<1> QED
  BY <1>1, <1>2, <1>3, PTL DEF Spec

-----------------------------------------------------------------------------
(* The salt beside a proof *)

\* Between its two files, the command line still holds the salt of the proof.
SaltInv ==
  /\ DOMAIN output = {"proof", "salt"}
  /\ pc[Cli] = "salt" => output.proof = task[Cli].salt
  /\ SaltBesideProof

LEMMA SaltInit == Init => SaltInv
  BY Numbers DEF Init, SaltInv, SaltBesideProof, NoReply

LEMMA SaltStep == ASSUME PlacedInv, SaltInv, [Next]_vars PROVE SaltInv'
<1>0. Typed /\ Cli \in Procs /\ Cli \notin Hosts
  BY Numbers DEF PlacedInv
<1>1. ASSUME output' = output, reply'[Cli] = reply[Cli], task'[Cli].salt = task[Cli].salt,
             pc'[Cli] \in {pc[Cli], "dead"}
      PROVE  SaltInv'
  BY <1>1 DEF SaltInv, SaltBesideProof
<1>2. CASE WriteProof
  <2>1. output' = [output EXCEPT !.proof = task[Cli].salt] /\ task' = task
        /\ pc' = [pc EXCEPT ![Cli] = "salt"]
    BY <1>2 DEF WriteProof
  <2>2. pc'[Cli] = "salt"
    BY <1>0, <2>1 DEF Typed
  <2> QED
    BY <2>1, <2>2 DEF SaltInv, SaltBesideProof
<1>3. CASE WriteSalt
  <2>1. /\ pc[Cli] = "salt" /\ output' = [output EXCEPT !.salt = task[Cli].salt]
        /\ Answer(Cli, ProofReply(Cli))
    BY <1>3 DEF WriteSalt, SaltFile
  <2>2. pc'[Cli] \in {"idle", "dead"}
    BY <1>0, <2>1, AnswerFacts
  <2> QED
    BY <2>1, <2>2 DEF SaltInv, SaltBesideProof
<1>4. ASSUME NEW a \in Procs, CalmWork(a) PROVE SaltInv'
  <2>1. /\ \A b \in Procs \ {a} : pc'[b] = pc[b] /\ task'[b] = task[b] /\ reply'[b] = reply[b]
        /\ \/ output' = output /\ pc'[a] # "salt" /\ ((a = Cli /\ pc'[a] = "idle") => ~reply'[a].ok)
           \/ a = Cli /\ (WriteProof \/ WriteSalt)
    BY <1>4 DEF CalmWork, CalmFor, SameWork
  <2>2. CASE a # Cli
    BY <1>0, <1>1, <2>1, <2>2
  <2>3. CASE a = Cli
    BY <1>2, <1>3, <2>1, <2>3 DEF SaltInv, SaltBesideProof
  <2> QED
    BY <2>2, <2>3
<1>5. CASE ProofSteps
  BY <1>0, <1>4, <1>5, ProofsCalm
<1>6. ASSUME NEW h \in Hosts, TakeSave(h) \/ TakeProof(h) \/ Open(h) \/ Write(h) PROVE SaltInv'
  <2>1. /\ output' = output /\ reply'[Cli] = reply[Cli] /\ pc'[Cli] = pc[Cli]
        /\ task'[Cli].salt = task[Cli].salt
    BY <1>0, <1>6, TakeSaveFacts, TakeProofFacts, OpenFacts, WriteFacts
  <2> QED
    BY <1>1, <2>1
<1>7. ASSUME NEW a \in Procs, Kill(a) PROVE SaltInv'
  <2>1. /\ pc'[a] = "dead" /\ UNCHANGED <<task, reply, output>>
        /\ \A b \in Procs \ {a} : pc'[b] = pc[b]
    BY <1>0, <1>7, KillFacts
  <2> QED
    BY <1>0, <1>1, <2>1
<1>8. CASE Drop
  <2>1. /\ UNCHANGED <<task, reply, output>> /\ current \in Hosts /\ current' \in Hosts
        /\ \A b \in Procs \ {current, current'} : pc'[b] = pc[b]
    BY <1>0, <1>8, DropFacts
  <2> QED
    BY <1>0, <1>1, <2>1
<1>9. CASE PostSave \/ PostProof \/ ReplayNext \/ UNCHANGED vars
  <2>1. UNCHANGED <<pc, task, reply, output>>
    BY <1>9 DEF PostSave, PostProof, ReplayNext, vars, results
  <2> QED
    BY <1>1, <2>1
<1> QED
  BY <1>5, <1>6, <1>7, <1>8, <1>9, NextCases

\* When a run of the command line is over, the salt beside its proof is the one the
\* proof was made with, however many runs there were and wherever one of them was
\* killed (main.rs 268-287).
THEOREM SaltIsBeside == Spec => []SaltBesideProof
<1>1. Init => SaltInv /\ PlacedInv
  BY SaltInit, PlacedInit
<1>2. PlacedInv /\ SaltInv /\ [Next]_vars => PlacedInv' /\ SaltInv'
  BY SaltStep, PlacedStep
<1>3. SaltInv => SaltBesideProof
  BY DEF SaltInv
<1> QED
  BY <1>1, <1>2, <1>3, PTL DEF Spec

-----------------------------------------------------------------------------
(* Files at rest *)

\* A file that is not spoilt has at most one writer, and holds what it wrote so far.
Alone(p) ==
  /\ \A a \in Writers(p), b \in Writers(p) : a = b
  /\ \A a \in Writers(p) : files[p] = [i \in 1..task[a].at |-> task[a].job.save]

FileOk(p) ==
  p \notin spoilt =>
    /\ Alone(p)
    /\ Writers(p) = {} => Parsed(p) # 0 \/ \A n \in written : saves[n].path # p

FilesInv == \A p \in Paths : FileOk(p)

LEMMA ParsedWhole ==
  ASSUME Typed, NEW p \in Paths, NEW n \in 1..Len(saves),
         files[p] = [i \in 1..saves[n].size |-> n]
  PROVE  Parsed(p) = n /\ n # 0
<1> DEFINE Session == [path : Paths, size : Nat \ {0}]
<1>1. saves \in Seq(Session)
  BY DEF Typed
<1>2. DOMAIN saves = 1..Len(saves) /\ Len(saves) \in Nat /\ saves[n] \in Session
  <2> HIDE DEF Session
  <2> QED
    BY <1>1
<1>3. 1 \in 1..saves[n].size
  BY <1>2
<1>4. files[p][1] = n
  BY <1>3
<1> QED
  BY <1>2, <1>4 DEF Parsed

LEMMA ParsedIsWhole ==
  ASSUME Typed, NEW p \in Paths, Parsed(p) # 0
  PROVE  \E n \in 1..Len(saves) :
           files[p] = [i \in 1..saves[n].size |-> n] /\ Parsed(p) = n
<1> DEFINE Session == [path : Paths, size : Nat \ {0}]
<1>1. saves \in Seq(Session)
  BY DEF Typed
<1>2. DOMAIN saves = 1..Len(saves)
  <2> HIDE DEF Session
  <2> QED
    BY <1>1
<1>3. PICK n \in 1..Len(saves) : files[p] = [i \in 1..saves[n].size |-> n]
  BY <1>2 DEF Parsed
<1> QED
  BY <1>3, ParsedWhole

\* A save that was written is one that was posted.
LEMMA WrittenFacts ==
  ASSUME Typed, Typed', Len(saves) <= Len(saves'),
         \A m \in 1..Len(saves) : saves'[m] = saves[m],
         NEW p \in Paths, files'[p] = files[p]
  PROVE  /\ Parsed(p) # 0 => Parsed(p)' = Parsed(p)
         /\ \A n \in written : saves'[n] = saves[n]
<1>1. /\ Len(saves) \in Nat /\ Len(saves') \in Nat /\ written \subseteq 1..Len(saves)
  BY DEF Typed
<1>2. ASSUME Parsed(p) # 0 PROVE Parsed(p)' = Parsed(p)
  <2>1. PICK n \in 1..Len(saves) : files[p] = [i \in 1..saves[n].size |-> n] /\ Parsed(p) = n
    BY <1>2, ParsedIsWhole
  <2>2. n \in 1..Len(saves') /\ files'[p] = [i \in 1..saves'[n].size |-> n]
    BY <1>1, <2>1
  <2>3. DOMAIN saves' = 1..Len(saves') /\ n \in DOMAIN saves'
    <3> DEFINE Session == [path : Paths, size : Nat \ {0}]
    <3>1. saves' \in Seq(Session)
      BY DEF Typed
    <3> HIDE DEF Session
    <3> QED
      BY <2>2, <3>1
  <2>4. Parsed(p)' = files'[p][1]
    BY <2>2, <2>3 DEF Parsed
  <2>5. DOMAIN saves = 1..Len(saves) /\ n \in DOMAIN saves
    <3> DEFINE Session == [path : Paths, size : Nat \ {0}]
    <3>1. saves \in Seq(Session)
      BY DEF Typed
    <3> HIDE DEF Session
    <3> QED
      BY <2>1, <3>1
  <2>6. Parsed(p) = files[p][1]
    BY <2>1, <2>5 DEF Parsed
  <2> QED
    BY <2>4, <2>6
<1> QED
  BY <1>1, <1>2

\* A step that leaves a file and its writers alone.
LEMMA FileSame ==
  ASSUME PlacedInv, PlacedInv', NEW p \in Paths, FileOk(p), files'[p] = files[p],
         p \in spoilt' <=> p \in spoilt, Writers(p)' = Writers(p),
         Len(saves) <= Len(saves'), \A m \in 1..Len(saves) : saves'[m] = saves[m],
         \A n \in written' : n \in written \/ saves'[n].path # p,
         \A a \in Writers(p) : task'[a].job = task[a].job /\ task'[a].at = task[a].at
  PROVE  FileOk(p)'
<1> SUFFICES ASSUME p \notin spoilt'
             PROVE  /\ Alone(p)'
                    /\ Writers(p)' = {} =>
                         Parsed(p)' # 0 \/ \A n \in written' : saves'[n].path # p
  BY DEF FileOk
<1>1. Alone(p)
  BY DEF FileOk
<1>2. \A a \in Writers(p)' : files'[p] = [i \in 1..task'[a].at |-> task'[a].job.save]
  <2>1. TAKE a \in Writers(p)'
  <2>2. files[p] = [i \in 1..task[a].at |-> task[a].job.save]
    BY <1>1 DEF Alone
  <2> QED
    BY <2>2
<1>3. Alone(p)'
  BY <1>1, <1>2 DEF Alone
<1>4. ASSUME Writers(p)' = {} PROVE Parsed(p)' # 0 \/ \A n \in written' : saves'[n].path # p
  <2>1. Parsed(p) # 0 \/ \A n \in written : saves[n].path # p
    BY <1>4 DEF FileOk
  <2>2. /\ Parsed(p) # 0 => Parsed(p)' = Parsed(p)
        /\ \A n \in written : saves'[n] = saves[n]
    BY WrittenFacts DEF PlacedInv
  <2> QED
    BY <2>1, <2>2
<1> QED
  BY <1>3, <1>4

\* A step after which the same processes write the same.
LEMMA FilesSame ==
  ASSUME PlacedInv, PlacedInv', FilesInv, UNCHANGED <<files, spoilt, written>>,
         Len(saves) <= Len(saves'), \A m \in 1..Len(saves) : saves'[m] = saves[m],
         \A a \in Procs : pc'[a] = "write" <=> pc[a] = "write",
         \A a \in Procs : pc[a] = "write" =>
                            task'[a].job = task[a].job /\ task'[a].at = task[a].at
  PROVE  FilesInv'
<1> SUFFICES ASSUME NEW p \in Paths PROVE FileOk(p)'
  BY DEF FilesInv
<1>1. Writers(p)' = Writers(p)
  <2>1. ASSUME NEW a \in Procs, pc[a] = "write"
        PROVE  saves'[task'[a].job.save].path = saves[task[a].job.save].path
    <3>1. task[a].job.save \in 1..Len(saves)
      BY <2>1, SaveFacts DEF Saving
    <3> QED
      BY <2>1, <3>1
  <2> QED
    BY <2>1 DEF Writers
<1>2. \A a \in Writers(p) : task'[a].job = task[a].job /\ task'[a].at = task[a].at
  BY DEF Writers
<1>3. /\ FileOk(p) /\ files'[p] = files[p] /\ (p \in spoilt' <=> p \in spoilt)
      /\ \A n \in written' : n \in written \/ saves'[n].path # p
  BY DEF FilesInv
<1> QED
  BY <1>1, <1>2, <1>3, FileSame

LEMMA FilesOpen ==
  ASSUME PlacedInv, PlacedInv', FilesInv, NEW h \in Hosts, Open(h)
  PROVE  FilesInv'
<1>0. PICK q \in Paths : q = saves[task[h].job.save].path
  BY OpenFacts
<1>1. /\ files' = [files EXCEPT ![q] = <<>>] /\ files \in [Paths -> Seq(Nat)]
      /\ spoilt' = IF Writers(q) = {} THEN spoilt \ {q} ELSE spoilt \cup {q}
      /\ \A b \in Procs : task'[b].job = task[b].job /\ task'[b].at = task[b].at
      /\ pc[h] = "open" /\ pc'[h] = "write" /\ \A b \in Procs \ {h} : pc'[b] = pc[b]
      /\ UNCHANGED <<saves, written>>
  BY <1>0, OpenFacts DEF PlacedInv, Typed
<1>2. h \in Procs /\ task[h].at = 0
  BY <1>1, Numbers DEF PlacedInv, Placed
<1>3. \A p \in Paths : Writers(p)' = IF p = q THEN Writers(p) \cup {h} ELSE Writers(p)
  BY <1>0, <1>1, <1>2 DEF Writers
<1>4. ASSUME NEW p \in Paths \ {q} PROVE FileOk(p)'
  <2>1. /\ FileOk(p) /\ files'[p] = files[p] /\ (p \in spoilt' <=> p \in spoilt)
        /\ Writers(p)' = Writers(p)
        /\ Len(saves) <= Len(saves') /\ \A m \in 1..Len(saves) : saves'[m] = saves[m]
        /\ \A m \in written' : m \in written \/ saves'[m].path # p
    <3>1. Len(saves) \in Nat
      BY DEF PlacedInv, Typed
    <3> QED
      BY <1>1, <1>3, <3>1 DEF FilesInv
  <2>2. \A a \in Writers(p) : task'[a].job = task[a].job /\ task'[a].at = task[a].at
    BY <1>1 DEF Writers
  <2> QED
    BY <2>1, <2>2, FileSame
<1>5. FileOk(q)'
  <2>1. CASE Writers(q) # {}
    BY <1>1, <2>1 DEF FileOk
  <2>2. CASE Writers(q) = {}
    <3>1. Writers(q)' = {h}
      BY <1>1, <1>3, <2>2
    <3>2. files'[q] = <<>> /\ task'[h].at = 0
      BY <1>1, <1>2
    <3>3. files'[q] = [i \in 1..task'[h].at |-> task'[h].job.save]
      BY <3>2
    <3>4. Alone(q)'
      BY <3>1, <3>3 DEF Alone
    <3> QED
      BY <3>1, <3>4 DEF FileOk
  <2> QED
    BY <2>1, <2>2
<1> QED
  BY <1>4, <1>5 DEF FilesInv

LEMMA PutNext ==
  ASSUME NEW k \in Nat, NEW n
  PROVE  Put([i \in 1..k |-> n], k + 1, n) = [i \in 1..(k + 1) |-> n]
<1> DEFINE c == [i \in 1..k |-> n]
<1>1. Len(c) = k
  OBVIOUS
<1>2. Put(c, k + 1, n) =
        [i \in 1..(k + 1) |-> IF i = k + 1 THEN n ELSE IF i <= k THEN c[i] ELSE 0]
  BY <1>1 DEF Put
<1>3. \A i \in 1..(k + 1) : (IF i = k + 1 THEN n ELSE IF i <= k THEN c[i] ELSE 0) = n
  OBVIOUS
<1> HIDE DEF c
<1>4. Put(c, k + 1, n) = [i \in 1..(k + 1) |-> n]
  BY <1>2, <1>3
<1> QED
  BY <1>4 DEF c

LEMMA FilesWrite ==
  ASSUME PlacedInv, PlacedInv', FilesInv, NEW h \in Hosts, Write(h)
  PROVE  FilesInv'
<1>1. PICK n \in 1..Len(saves) : n = task[h].job.save
  BY WriteFacts
<1>2. PICK q \in Paths : q = saves[n].path
  BY <1>1, WriteFacts
<1>3. PICK k \in Nat \ {0} : k = task[h].at + 1
  BY WriteFacts
<1>4. /\ Len(saves) \in Nat /\ saves[n].size \in Nat
      /\ files' = [files EXCEPT ![q] = Put(@, k, n)] /\ files \in [Paths -> Seq(Nat)]
      /\ \A b \in Procs \ {h} :
           task'[b].job = task[b].job /\ task'[b].at = task[b].at /\ pc'[b] = pc[b]
      /\ pc[h] = "write" /\ UNCHANGED <<saves, spoilt>>
      /\ \/ /\ k = saves[n].size /\ written' = written \cup {n} /\ pc'[h] \in {"idle", "dead"}
         \/ /\ k # saves[n].size /\ written' = written /\ pc'[h] = "write"
            /\ task'[h].job = task[h].job /\ task'[h].at = k
  <2>1. /\ Len(saves) \in Nat /\ saves[n].size \in Nat
        /\ files' = [files EXCEPT ![q] = Put(@, k, n)]
    BY <1>1, <1>2, <1>3, WriteFacts
  <2>2. /\ \A b \in Procs \ {h} :
             task'[b].job = task[b].job /\ task'[b].at = task[b].at /\ pc'[b] = pc[b]
        /\ pc[h] = "write" /\ UNCHANGED <<saves, spoilt>>
    BY WriteFacts
  <2>3. \/ /\ k = saves[n].size /\ written' = written \cup {n} /\ pc'[h] \in {"idle", "dead"}
        \/ /\ k # saves[n].size /\ written' = written /\ pc'[h] = "write"
           /\ task'[h].job = task[h].job /\ task'[h].at = k
    BY <1>1, <1>3, WriteFacts
  <2> QED
    BY <2>1, <2>2, <2>3 DEF PlacedInv, Typed
<1>5. h \in Procs /\ h \in Writers(q) /\ task[h].at \in Nat
  BY <1>1, <1>2, <1>4, Numbers DEF Writers, PlacedInv, Typed, IsTask
<1>6. \A p \in Paths \ {q} : Writers(p)' = Writers(p) /\ h \notin Writers(p)
  BY <1>1, <1>2, <1>4 DEF Writers
<1>7. ASSUME NEW p \in Paths \ {q} PROVE FileOk(p)'
  <2>1. /\ FileOk(p) /\ files'[p] = files[p] /\ (p \in spoilt' <=> p \in spoilt)
        /\ Writers(p)' = Writers(p)
        /\ Len(saves) <= Len(saves') /\ \A m \in 1..Len(saves) : saves'[m] = saves[m]
        /\ \A m \in written' : m \in written \/ saves'[m].path # p
    <3>1. FileOk(p) /\ files'[p] = files[p] /\ (p \in spoilt' <=> p \in spoilt)
      BY <1>4 DEF FilesInv
    <3>2. \A m \in written' : m \in written \/ saves'[m].path # p
      BY <1>2, <1>4
    <3> QED
      BY <1>4, <1>6, <3>1, <3>2
  <2>2. \A a \in Writers(p) : task'[a].job = task[a].job /\ task'[a].at = task[a].at
    BY <1>4, <1>6 DEF Writers
  <2> QED
    BY <2>1, <2>2, FileSame
<1>8. ASSUME q \notin spoilt' PROVE FileOk(q)'
  <2>1. Alone(q)
    BY <1>4, <1>8 DEF FilesInv, FileOk
  <2>2. Writers(q) = {h}
    BY <1>5, <2>1 DEF Alone
  <2>3. files'[q] = [i \in 1..k |-> n]
    <3>1. files[q] = [i \in 1..task[h].at |-> n]
      BY <1>1, <1>5, <2>1 DEF Alone
    <3>2. files'[q] = Put(files[q], k, n)
      BY <1>4
    <3> QED
      <4> DEFINE m == task[h].at
      <4>1. m \in Nat /\ k = m + 1
        BY <1>3, <1>5
      <4>2. files'[q] = Put([i \in 1..m |-> n], m + 1, n)
        BY <3>1, <3>2, <4>1
      <4> HIDE DEF m
      <4> QED
        BY <4>1, <4>2, PutNext
  <2>4. CASE k = saves[n].size /\ pc'[h] \in {"idle", "dead"}
    <3>1. Writers(q)' = {}
      BY <1>4, <2>2, <2>4 DEF Writers
    <3>2. n \in 1..Len(saves') /\ files'[q] = [i \in 1..saves'[n].size |-> n]
      BY <1>4, <2>3, <2>4
    <3>3. Parsed(q)' # 0
      <4>1. DOMAIN saves' = 1..Len(saves')
        <5> DEFINE Session == [path : Paths, size : Nat \ {0}]
        <5>1. saves' \in Seq(Session)
          BY DEF PlacedInv, Typed
        <5> HIDE DEF Session
        <5> QED
          BY <5>1
      <4>2. saves[n].size \in Nat \ {0}
        BY <1>3, <2>4
      <4>3. files'[q][1] = n /\ n # 0
        BY <1>4, <3>2, <4>2
      <4> QED
        BY <3>2, <4>1, <4>3 DEF Parsed
    <3> QED
      BY <3>1, <3>3 DEF FileOk, Alone
  <2>5. CASE k # saves[n].size /\ pc'[h] = "write" /\ task'[h].job = task[h].job /\ task'[h].at = k
    <3>1. Writers(q)' = {h}
      BY <1>4, <1>5, <2>2, <2>5 DEF Writers
    <3>2. files'[q] = [i \in 1..task'[h].at |-> task'[h].job.save]
      BY <1>1, <2>3, <2>5
    <3> QED
      BY <3>1, <3>2 DEF FileOk, Alone
  <2> QED
    BY <1>4, <2>4, <2>5
<1> QED
  BY <1>4, <1>7, <1>8 DEF FilesInv, FileOk

LEMMA FilesKill ==
  ASSUME PlacedInv, PlacedInv', FilesInv, NEW a \in Procs, Kill(a)
  PROVE  FilesInv'
<1>1. /\ pc'[a] = "dead" /\ \A b \in Procs \ {a} : pc'[b] = pc[b]
      /\ spoilt' = spoilt \cup {p \in Paths : a \in Writers(p)}
      /\ UNCHANGED <<files, saves, written, task>>
  BY KillFacts DEF PlacedInv
<1> SUFFICES ASSUME NEW p \in Paths, p \notin spoilt' PROVE FileOk(p)'
  BY DEF FilesInv, FileOk
<1>2. a \notin Writers(p) /\ p \notin spoilt
  BY <1>1
<1>3. Writers(p)' = Writers(p)
  BY <1>1, <1>2 DEF Writers
<1>4. /\ FileOk(p) /\ files'[p] = files[p] /\ (p \in spoilt' <=> p \in spoilt)
      /\ Len(saves) <= Len(saves') /\ \A m \in 1..Len(saves) : saves'[m] = saves[m]
      /\ \A n \in written' : n \in written \/ saves'[n].path # p
      /\ \A b \in Writers(p) : task'[b].job = task[b].job /\ task'[b].at = task[b].at
  <2>1. Len(saves) \in Nat
    BY DEF PlacedInv, Typed
  <2> QED
    BY <1>1, <1>2, <2>1 DEF FilesInv
<1> QED
  BY <1>3, <1>4, FileSame

LEMMA FilesInit == Init => FilesInv
<1> SUFFICES ASSUME Init, NEW p \in Paths PROVE FileOk(p)
  BY DEF FilesInv
<1>1. Writers(p) = {} /\ written = {}
  BY DEF Init, Writers
<1> QED
  BY <1>1 DEF FileOk, Alone

LEMMA FilesStep == ASSUME PlacedInv, PlacedInv', FilesInv, [Next]_vars PROVE FilesInv'
<1>0. Typed /\ Len(saves) \in Nat
  BY DEF PlacedInv, Typed
<1>1. ASSUME UNCHANGED <<files, spoilt, written>>, saves' = saves,
             \A a \in Procs : pc'[a] = "write" <=> pc[a] = "write",
             \A a \in Procs : pc[a] = "write" => task'[a] = task[a]
      PROVE  FilesInv'
  <2>1. /\ Len(saves) <= Len(saves') /\ \A m \in 1..Len(saves) : saves'[m] = saves[m]
        /\ \A a \in Procs : pc[a] = "write" =>
                              task'[a].job = task[a].job /\ task'[a].at = task[a].at
    BY <1>0, <1>1
  <2> QED
    BY <1>1, <2>1, FilesSame
<1>2. CASE PostSave
  <2>1. /\ Len(saves) <= Len(saves') /\ \A m \in 1..Len(saves) : saves'[m] = saves[m]
        /\ UNCHANGED <<files, spoilt, written>> /\ UNCHANGED <<pc, task>>
    BY <1>0, <1>2, PostSaveFacts
  <2> QED
    BY <2>1, FilesSame
<1>3. CASE PostProof \/ ReplayNext \/ UNCHANGED vars
  <2>1. UNCHANGED <<files, spoilt, written>> /\ UNCHANGED <<saves, pc, task>>
    BY <1>3 DEF PostProof, ReplayNext, vars, store
  <2> QED
    BY <1>1, <2>1
<1>4. CASE Drop
  <2>1. /\ current \in Hosts /\ current' \in Hosts /\ current' = current + 1
        /\ pc'[current'] = "idle" /\ pc'[current] \in {pc[current], "dead"}
        /\ pc'[current] # pc[current] => task[current].job = NoJob
        /\ \A a \in Procs \ {current, current'} : pc'[a] = pc[a]
        /\ UNCHANGED <<files, spoilt, written>> /\ UNCHANGED <<saves, task>>
    BY <1>0, <1>4, DropFacts DEF store
  <2>2. pc[current'] = "dead" /\ current \in Procs /\ current' \in Procs
    <3>1. current' > current
      BY <2>1, Numbers
    <3> QED
      BY <2>1, <3>1, Numbers DEF PlacedInv, Placed
  <2>3. task[current].job = NoJob => pc[current] # "write"
    BY <2>2, NoTaskIsTask DEF PlacedInv, Placed, Saving
  <2>4. \A a \in Procs : pc'[a] = "write" <=> pc[a] = "write"
    <3>1. current' # current
      BY <2>1, Numbers
    <3> QED
      BY <2>1, <2>2, <2>3, <3>1
  <2> QED
    BY <1>1, <2>1, <2>4
<1>5. ASSUME NEW a \in Procs, CalmWork(a) PROVE FilesInv'
  <2>1. /\ UNCHANGED <<files, spoilt, written>> /\ saves' = saves
        /\ pc[a] # "write" /\ pc'[a] # "write"
        /\ \A b \in Procs \ {a} : pc'[b] = pc[b] /\ task'[b] = task[b]
    BY <1>5 DEF CalmWork, CalmFor, store, Saving
  <2>2. \A b \in Procs : pc'[b] = "write" <=> pc[b] = "write"
    BY <2>1
  <2> QED
    BY <1>1, <2>1, <2>2
<1>6. CASE ProofSteps
  BY <1>0, <1>5, <1>6, ProofsCalm
<1>7. ASSUME NEW h \in Hosts, TakeSave(h) \/ TakeProof(h) PROVE FilesInv'
  <2>1. /\ UNCHANGED <<files, spoilt, written>> /\ saves' = saves
        /\ pc[h] = "idle" /\ pc'[h] \in {"open", "idle", "hint", "dead"}
        /\ \A b \in Procs \ {h} : pc'[b] = pc[b] /\ task'[b] = task[b]
    BY <1>0, <1>7, TakeSaveFacts, TakeProofFacts DEF store
  <2>2. \A b \in Procs : pc'[b] = "write" <=> pc[b] = "write"
    BY <2>1
  <2> QED
    BY <1>1, <2>1, <2>2
<1>8. ASSUME NEW h \in Hosts, Open(h) \/ Write(h) PROVE FilesInv'
  BY <1>8, FilesOpen, FilesWrite
<1>9. ASSUME NEW a \in Procs, Kill(a) PROVE FilesInv'
  BY <1>9, FilesKill
<1> QED
  BY <1>2, <1>3, <1>4, <1>6, <1>7, <1>8, <1>9, NextCases

\* A file at rest is one whole session, unless its last writer was killed or two
\* processes wrote it at the same time: what a save leaves behind depends on nothing
\* else (main.rs 1156-1192).
THEOREM FileAtRestIsWhole == Spec => []QuietFileWhole
<1>1. Init => FilesInv /\ PlacedInv
  BY FilesInit, PlacedInit
<1>2. PlacedInv /\ FilesInv /\ [Next]_vars => PlacedInv' /\ FilesInv'
  BY FilesStep, PlacedStep
<1>3. FilesInv => QuietFileWhole
  BY DEF FilesInv, FileOk, QuietFileWhole
<1> QED
  BY <1>1, <1>2, <1>3, PTL DEF Spec
-----------------------------------------------------------------------------
(* The order of saves *)

Newest(n, known) == \A m \in known : m <= n

\* Only the current host has saves that were posted once ...
Elsewhere ==
  /\ \A a \in Procs \ {current} :
       /\ task[a].job.save \in again \cup {0}
       /\ \A k \in 1..Len(inbox[a]) : inbox[a][k].save \in again \cup {0}
  /\ \A k \in 1..Len(resend) : resend[k].save \in again \cup {0}

\* ... it works on none that is older than what was written or posted again ...
TaskInOrder ==
  task[current].job.save \notin again \cup {0} =>
    Newest(task[current].job.save, again \cup written)

\* ... and has them in their order.
InboxInOrder ==
  \A k \in 1..Len(inbox[current]) :
    inbox[current][k].save \notin again \cup {0} =>
      /\ Newest(inbox[current][k].save, again \cup written)
      /\ task[current].job.save < inbox[current][k].save
      /\ \A j \in 1..(k - 1) : inbox[current][j].save < inbox[current][k].save

\* The blocks of the files, and what was posted again, are of saves that were posted.
Bounded ==
  /\ again \subseteq 0..Len(saves)
  /\ \A p \in Paths : \A i \in 1..Len(files[p]) : files[p][i] <= Len(saves)

OrderInv == Bounded /\ Elsewhere /\ TaskInOrder /\ InboxInOrder

LEMMA SaveNumbers ==
  ASSUME PlacedInv
  PROVE  /\ Len(saves) \in Nat /\ current \in Procs /\ current \in Hosts
         /\ \A a \in Procs : /\ task[a].job.save \in 0..Len(saves)
                             /\ \A k \in 1..Len(inbox[a]) : inbox[a][k].save \in 0..Len(saves)
                             /\ Len(inbox[a]) \in Nat
         /\ \A k \in 1..Len(resend) : resend[k].save \in 0..Len(saves)
         /\ written \subseteq 1..Len(saves)
<1>1. Len(saves) \in Nat /\ current \in Hosts /\ written \subseteq 1..Len(saves)
  BY DEF PlacedInv, Typed
<1>2. \A a \in Procs : Len(inbox[a]) \in Nat
  BY DEF PlacedInv, Typed
<1> QED
  BY <1>1, <1>2, Numbers DEF PlacedInv, Placed, Known

\* What is written while a step keeps the current host at an older save, or ends it.
LEMMA NewestStays ==
  ASSUME PlacedInv, Elsewhere, again' = again,
         \A m \in written' : \/ m \in written
                             \/ \E h \in Hosts : m = task[h].job.save /\ task'[h].job.save = 0,
         NEW n \in Nat, Newest(n, again \cup written),
         task[current].job.save <= n \/ task'[current].job.save # 0
  PROVE  Newest(n, again' \cup written')
<1>1. ASSUME NEW m \in written' PROVE m <= n
  <2>1. CASE m \in written
    BY <2>1 DEF Newest
  <2>2. CASE m \notin written
    <3>1. PICK h \in Hosts : m = task[h].job.save /\ task'[h].job.save = 0
      BY <2>2
    <3>2. CASE h = current
      BY <3>1, <3>2
    <3>3. CASE h # current
      <4>1. m \in again \cup {0}
        BY <3>1, <3>3, Numbers DEF Elsewhere
      <4> QED
        BY <4>1 DEF Newest
    <3> QED
      BY <3>2, <3>3
  <2> QED
    BY <2>1, <2>2
<1> QED
  BY <1>1 DEF Newest

\* A step that exchanges no messages and starts no save.
LEMMA OrderSame ==
  ASSUME PlacedInv, OrderInv, Bounded', UNCHANGED channel,
         \A a \in Procs : task'[a].job.save \in {task[a].job.save, 0},
         \A m \in written' : \/ m \in written
                             \/ \E h \in Hosts : m = task[h].job.save /\ task'[h].job.save = 0
  PROVE  OrderInv'
<1>1. /\ UNCHANGED <<current, inbox, resend, again>>
      /\ Elsewhere /\ TaskInOrder /\ InboxInOrder
  BY DEF channel, OrderInv
<1>2. /\ Len(saves) \in Nat /\ current \in Procs
      /\ \A a \in Procs : /\ task[a].job.save \in 0..Len(saves)
                          /\ \A k \in 1..Len(inbox[a]) : inbox[a][k].save \in 0..Len(saves)
  BY SaveNumbers
<1>3. Elsewhere'
  BY <1>1 DEF Elsewhere
<1>4. TaskInOrder'
  <2> SUFFICES ASSUME task'[current].job.save \notin again \cup {0}
               PROVE  Newest(task'[current].job.save, again' \cup written')
    BY <1>1 DEF TaskInOrder
  <2>1. task'[current].job.save = task[current].job.save /\ task'[current].job.save # 0
    BY <1>2
  <2>2. PICK n \in Nat : n = task[current].job.save
    BY <1>2
  <2>3. Newest(n, again \cup written)
    BY <1>1, <2>1, <2>2 DEF TaskInOrder
  <2>4. Newest(n, again' \cup written')
    BY <1>1, <2>1, <2>3, NewestStays
  <2> QED
    BY <2>1, <2>2, <2>4
<1>5. InboxInOrder'
  <2> SUFFICES ASSUME NEW k \in 1..Len(inbox[current]), inbox[current][k].save \notin again \cup {0}
               PROVE  /\ Newest(inbox[current][k].save, again' \cup written')
                      /\ task'[current].job.save < inbox[current][k].save
                      /\ \A j \in 1..(k - 1) : inbox[current][j].save < inbox[current][k].save
    BY <1>1 DEF InboxInOrder
  <2>1. PICK n \in Nat \ {0} : n = inbox[current][k].save
    BY <1>2
  <2>2. /\ Newest(n, again \cup written) /\ task[current].job.save < n
        /\ \A j \in 1..(k - 1) : inbox[current][j].save < n
    BY <1>1, <2>1 DEF InboxInOrder
  <2>3. task'[current].job.save < n /\ task[current].job.save <= n
    BY <1>2, <2>1, <2>2
  <2>4. Newest(n, again' \cup written')
    BY <1>1, <2>2, <2>3, NewestStays
  <2> QED
    BY <2>1, <2>2, <2>3, <2>4
<1> QED
  BY <1>3, <1>4, <1>5 DEF OrderInv

\* Blocks and saves posted again stay within the saves.
LEMMA BoundedSame ==
  ASSUME Bounded, Len(saves) \in Nat, Len(saves') \in Nat, Len(saves) <= Len(saves'),
         again' = again, files \in [Paths -> Seq(Nat)], UNCHANGED files
  PROVE  Bounded'
<1>1. ASSUME NEW p \in Paths, NEW i \in 1..Len(files[p]) PROVE files[p][i] <= Len(saves')
  <2>1. files[p][i] \in Nat /\ files[p][i] <= Len(saves)
    <3>1. files[p] \in Seq(Nat)
      OBVIOUS
    <3> QED
      BY <3>1 DEF Bounded
  <2> QED
    BY <2>1
<1>2. again' \subseteq 0..Len(saves')
  BY DEF Bounded
<1> QED
  BY <1>1, <1>2 DEF Bounded

LEMMA BoundedWrite ==
  ASSUME PlacedInv, Bounded, NEW h \in Hosts, Write(h)
  PROVE  Bounded'
<1> DEFINE m == task[h].job.save
           q == saves[m].path
           at == task[h].at + 1
<1>1. /\ q \in Paths /\ m \in 1..Len(saves) /\ Len(saves) \in Nat
      /\ at \in Nat \ {0}
      /\ files' = [files EXCEPT ![q] = Put(@, at, m)]
      /\ saves' = saves /\ again' = again
  BY WriteFacts DEF channel
<1>2. files \in [Paths -> Seq(Nat)]
  BY DEF PlacedInv, Typed
<1> HIDE DEF m, q, at
<1>3. ASSUME NEW i \in 1..Len(Put(files[q], at, m)) PROVE Put(files[q], at, m)[i] <= Len(saves)
  <2> DEFINE c == files[q]
             k == IF at > Len(c) THEN at ELSE Len(c)
  <2>1. c \in Seq(Nat) /\ Len(c) \in Nat
    BY <1>1, <1>2
  <2>2. \A j \in 1..Len(c) : c[j] <= Len(saves)
    BY <1>1 DEF Bounded
  <2>3. Put(c, at, m) = [j \in 1..k |-> IF j = at THEN m ELSE IF j <= Len(c) THEN c[j] ELSE 0]
    BY DEF Put
  <2> HIDE DEF c
  <2>4. k \in Nat
    BY <1>1, <2>1
  <2> HIDE DEF k
  <2>5. i \in 1..k
    BY <1>3, <2>3, <2>4 DEF c
  <2>6. Put(c, at, m)[i] <= Len(saves)
    BY <1>1, <2>1, <2>2, <2>3, <2>4, <2>5
  <2> QED
    BY <2>6 DEF c
<1>4. ASSUME NEW p \in Paths, NEW i \in 1..Len(files'[p]) PROVE files'[p][i] <= Len(saves')
  <2>1. CASE p = q
    <3>1. files'[p] = Put(files[q], at, m)
      BY <1>1, <1>2, <2>1
    <3> QED
      BY <1>1, <1>3, <3>1
  <2>2. CASE p # q
    <3>1. files'[p] = files[p]
      BY <1>1, <1>2, <2>2
    <3> QED
      BY <1>1, <3>1 DEF Bounded
  <2> QED
    BY <2>1, <2>2
<1>5. again' \subseteq 0..Len(saves')
  BY <1>1 DEF Bounded
<1> QED
  BY <1>4, <1>5 DEF Bounded

LEMMA BoundedOpen ==
  ASSUME PlacedInv, Bounded, NEW h \in Hosts, Open(h)
  PROVE  Bounded'
<1> DEFINE q == saves[task[h].job.save].path
<1>1. /\ q \in Paths /\ files' = [files EXCEPT ![q] = <<>>]
      /\ saves' = saves /\ again' = again
  BY OpenFacts DEF channel
<1>2. files \in [Paths -> Seq(Nat)]
  BY DEF PlacedInv, Typed
<1> HIDE DEF q
<1>3. ASSUME NEW p \in Paths, NEW i \in 1..Len(files'[p]) PROVE files'[p][i] <= Len(saves')
  <2>1. CASE p = q
    <3>1. files'[p] = <<>>
      BY <1>1, <1>2, <2>1
    <3> QED
      BY <1>3, <3>1
  <2>2. CASE p # q
    <3>1. files'[p] = files[p]
      BY <1>1, <1>2, <2>2
    <3> QED
      BY <1>1, <1>3, <3>1 DEF Bounded
  <2> QED
    BY <2>1, <2>2
<1>4. again' \subseteq 0..Len(saves')
  BY <1>1 DEF Bounded
<1> QED
  BY <1>3, <1>4 DEF Bounded

\* A new save is younger than all there is.
LEMMA OrderPostSave ==
  ASSUME PlacedInv, PlacedInv', OrderInv, PostSave
  PROVE  OrderInv'
<1>1. /\ Len(saves') = Len(saves) + 1 /\ Len(saves) \in Nat
      /\ SaveJob(Len(saves')) \in Jobs /\ current \in Procs
      /\ inbox' = [inbox EXCEPT ![current] = Enqueue(@, SaveJob(Len(saves')))]
      /\ UNCHANGED <<files, written, current, resend, again, task>>
  BY PostSaveFacts DEF PlacedInv
<1> DEFINE N == Len(saves')
           c == current
           q == inbox[c]
<1>2. /\ \A b \in Procs \ {c} : inbox'[b] = inbox[b]
      /\ Len(q) \in Nat /\ Len(inbox'[c]) = Len(q) + 1 /\ inbox'[c][Len(q) + 1].save = N
      /\ \A k \in 1..Len(q) : inbox'[c][k] = q[k]
  <2> DEFINE j == SaveJob(N)
  <2>1. j \in Jobs /\ j.save = N /\ inbox' = [inbox EXCEPT ![c] = Enqueue(@, j)]
    BY <1>1 DEF SaveJob
  <2> HIDE DEF j
  <2> QED
    BY <1>1, <2>1, PostFacts DEF PlacedInv
<1>3. /\ Elsewhere /\ TaskInOrder /\ InboxInOrder /\ Bounded
  BY DEF OrderInv
<1>4. Bounded'
  BY <1>1, <1>3, BoundedSame DEF PlacedInv, Typed
<1>5. Elsewhere'
  BY <1>1, <1>2, <1>3 DEF Elsewhere
<1>6. TaskInOrder'
  BY <1>1, <1>3 DEF TaskInOrder
<1>7. InboxInOrder'
  <2> SUFFICES ASSUME NEW k \in 1..Len(inbox'[c]), inbox'[c][k].save \notin again \cup {0}
               PROVE  /\ Newest(inbox'[c][k].save, again \cup written)
                      /\ task[c].job.save < inbox'[c][k].save
                      /\ \A j \in 1..(k - 1) : inbox'[c][j].save < inbox'[c][k].save
    BY <1>1 DEF InboxInOrder
  <2>1. CASE k \in 1..Len(q)
    <3>1. \A j \in 1..(k - 1) : j \in 1..Len(q)
      BY <1>2, <2>1
    <3> QED
      BY <1>2, <1>3, <2>1, <3>1 DEF InboxInOrder
  <2>2. CASE k = Len(q) + 1
    <3>1. inbox'[c][k].save = N
      BY <1>2, <2>2
    <3>2. Newest(N, again \cup written)
      <4>1. again \subseteq 0..Len(saves) /\ written \subseteq 1..Len(saves)
        BY <1>3, SaveNumbers DEF Bounded
      <4> QED
        BY <1>1, <4>1 DEF Newest
    <3>3. task[c].job.save < N
      BY <1>1, SaveNumbers
    <3>4. ASSUME NEW j \in 1..(k - 1) PROVE inbox'[c][j].save < N
      <4>1. j \in 1..Len(q)
        BY <1>2, <2>2
      <4>2. inbox'[c][j].save \in 0..Len(saves)
        BY <1>1, <1>2, <4>1, SaveNumbers
      <4> QED
        BY <1>1, <4>2
    <3> QED
      BY <3>1, <3>2, <3>3, <3>4
  <2> QED
    BY <1>2, <2>1, <2>2
<1> QED
  BY <1>4, <1>5, <1>6, <1>7 DEF OrderInv

\* A message that asks for no save, or for one that was posted before.
LEMMA OrderPost ==
  ASSUME PlacedInv, OrderInv, Bounded', NEW j \in Jobs, j.save \in again \cup {0},
         inbox' = [inbox EXCEPT ![current] = Enqueue(@, j)],
         UNCHANGED <<written, current, again, task>>,
         \A k \in 1..Len(resend') : resend'[k].save \in again \cup {0}
  PROVE  OrderInv'
<1> DEFINE c == current
           q == inbox[c]
<1>1. c \in Procs
  BY SaveNumbers
<1>2. /\ \A b \in Procs \ {c} : inbox'[b] = inbox[b]
      /\ Len(q) \in Nat /\ Len(inbox'[c]) = Len(q) + 1 /\ inbox'[c][Len(q) + 1] = j
      /\ \A k \in 1..Len(q) : inbox'[c][k] = q[k]
  BY <1>1, PostFacts DEF PlacedInv
<1>3. /\ Elsewhere /\ TaskInOrder /\ InboxInOrder
  BY DEF OrderInv
<1>4. Elsewhere'
  BY <1>2, <1>3 DEF Elsewhere
<1>5. TaskInOrder'
  BY <1>3 DEF TaskInOrder
<1>6. InboxInOrder'
  <2> SUFFICES ASSUME NEW k \in 1..Len(inbox'[c]), inbox'[c][k].save \notin again \cup {0}
               PROVE  /\ Newest(inbox'[c][k].save, again \cup written)
                      /\ task[c].job.save < inbox'[c][k].save
                      /\ \A i \in 1..(k - 1) : inbox'[c][i].save < inbox'[c][k].save
    BY DEF InboxInOrder
  <2>1. k \in 1..Len(q)
    BY <1>2
  <2>2. \A i \in 1..(k - 1) : i \in 1..Len(q)
    BY <1>2, <2>1
  <2> QED
    BY <1>2, <1>3, <2>1, <2>2 DEF InboxInOrder
<1> QED
  BY <1>4, <1>5, <1>6 DEF OrderInv

LEMMA OrderPostProof ==
  ASSUME PlacedInv, OrderInv, PostProof
  PROVE  OrderInv'
<1>1. PICK fs \in Requests, dev \in BOOLEAN :
        inbox' = [inbox EXCEPT ![current] = Enqueue(@, ProofJob(fs, dev))]
  BY DEF PostProof
<1>2. UNCHANGED <<files, saves, written, current, resend, again, task>>
  BY DEF PostProof, store
<1>3. ProofJob(fs, dev) \in Jobs /\ ProofJob(fs, dev).save = 0
  BY ProofJobIsJob, PipelineAssumption DEF PipelineAssumption
<1>4. Bounded'
  BY <1>2 DEF OrderInv, Bounded
<1> QED
  BY <1>1, <1>2, <1>3, <1>4, OrderPost DEF OrderInv, Elsewhere

LEMMA OrderReplay ==
  ASSUME PlacedInv, OrderInv, ReplayNext
  PROVE  OrderInv'
<1> DEFINE j == [Head(resend) EXCEPT !.again = TRUE]
<1>1. /\ j \in Jobs /\ j.save = Head(resend).save
      /\ Head(resend) = resend[1] /\ 1 \in 1..Len(resend)
      /\ \A k \in 1..Len(resend') : k + 1 \in 1..Len(resend) /\ resend'[k] = resend[k + 1]
      /\ \/ inbox' = inbox
         \/ inbox' = [inbox EXCEPT ![current] = Enqueue(@, j)]
      /\ UNCHANGED <<files, saves, written, current, again, task>>
  BY ReplayFacts DEF PlacedInv, store
<1> HIDE DEF j
<1>2. /\ j.save \in again \cup {0}
      /\ \A k \in 1..Len(resend') : resend'[k].save \in again \cup {0}
  BY <1>1 DEF OrderInv, Elsewhere
<1>3. Bounded'
  BY <1>1 DEF OrderInv, Bounded
<1>4. CASE inbox' = inbox
  BY <1>1, <1>2, <1>3, <1>4 DEF OrderInv, Elsewhere, TaskInOrder, InboxInOrder
<1> QED
  BY <1>1, <1>2, <1>3, <1>4, OrderPost

\* All that the first host had is posted again; the next one has nothing yet.
LEMMA OrderDrop ==
  ASSUME PlacedInv, PlacedInv', OrderInv, Drop
  PROVE  OrderInv'
<1>1. /\ current \in Hosts /\ current' = current + 1 /\ current' \in Hosts
      /\ resend' = Unanswered(current)
      /\ \A i \in 1..Len(resend') : resend'[i].save \in again'
      /\ again \subseteq again'
      /\ UNCHANGED <<files, saves, written, inbox, task>>
  BY DropFacts DEF PlacedInv, store
<1>2. /\ current \in Procs /\ current' \in Procs /\ current' > current
      /\ inbox[current'] = <<>>
  BY <1>1, Numbers DEF PlacedInv, Placed
<1>3. Elsewhere
  BY DEF OrderInv
<1>4. again' \subseteq 0..Len(saves')
  <2>1. again' = again \cup {Unanswered(current)[i].save : i \in DOMAIN Unanswered(current)}
    BY DEF Drop
  <2>2. Unanswered(current) \in Seq(Jobs)
    BY <1>2, UnansweredFacts DEF PlacedInv
  <2>3. DOMAIN Unanswered(current) = 1..Len(resend')
    BY <1>1, <2>2
  <2>4. \A k \in 1..Len(resend') : resend'[k].save \in 0..Len(saves')
    BY DEF PlacedInv, Placed, Known
  <2> QED
    BY <1>1, <2>1, <2>3, <2>4 DEF OrderInv, Bounded
<1>5. Bounded'
  BY <1>1, <1>4 DEF OrderInv, Bounded
<1>6. /\ task[current].job.save \in again' \cup {0}
      /\ \A k \in 1..Len(inbox[current]) : inbox[current][k].save \in again'
  <2>1. /\ task[current].job # NoJob =>
             \E i \in 1..Len(resend') : resend'[i] = task[current].job
        /\ \A k \in 1..Len(inbox[current]) :
             \E i \in 1..Len(resend') : resend'[i] = inbox[current][k]
    BY <1>1, <1>2, UnansweredFacts DEF PlacedInv
  <2> QED
    BY <1>1, <2>1, NoTaskIsTask
<1>7. Elsewhere'
  BY <1>1, <1>3, <1>6 DEF Elsewhere
<1>8. task[current'].job.save \in again' \cup {0}
  BY <1>1, <1>2, <1>3, Numbers DEF Elsewhere
<1>9. TaskInOrder' /\ InboxInOrder'
  <2>1. Len(inbox'[current']) = 0
    BY <1>1, <1>2
  <2> QED
    BY <1>1, <1>8, <2>1 DEF TaskInOrder, InboxInOrder
<1> QED
  BY <1>5, <1>7, <1>9 DEF OrderInv

\* A host takes its next message.
LEMMA OrderTake ==
  ASSUME PlacedInv, OrderInv, NEW h \in Hosts, inbox[h] # <<>>,
         inbox' = [inbox EXCEPT ![h] = Tail(@)],
         task'[h].job.save = Head(inbox[h]).save,
         \A b \in Procs \ {h} : task'[b] = task[b],
         UNCHANGED <<files, saves, written, current, resend, again>>
  PROVE  OrderInv'
<1> DEFINE c == current
<1>1. /\ h \in Procs /\ c \in Procs
      /\ \A b \in Procs \ {h} : inbox'[b] = inbox[b]
      /\ Head(inbox[h]) = inbox[h][1] /\ 1 \in 1..Len(inbox[h])
      /\ \A k \in 1..Len(inbox'[h]) :
           k + 1 \in 1..Len(inbox[h]) /\ inbox'[h][k] = inbox[h][k + 1]
  BY TakeFacts, Numbers, SaveNumbers DEF PlacedInv
<1>2. Elsewhere /\ TaskInOrder /\ InboxInOrder /\ Bounded
  BY DEF OrderInv
<1>3. Bounded'
  BY <1>2 DEF Bounded
<1>4. Elsewhere'
  <2>1. ASSUME NEW a \in Procs \ {c}
        PROVE  /\ task'[a].job.save \in again \cup {0}
               /\ \A k \in 1..Len(inbox'[a]) : inbox'[a][k].save \in again \cup {0}
    <3>1. CASE a = h
      BY <1>1, <1>2, <2>1, <3>1 DEF Elsewhere
    <3>2. CASE a # h
      BY <1>1, <1>2, <2>1, <3>2 DEF Elsewhere
    <3> QED
      BY <3>1, <3>2
  <2> QED
    BY <1>2, <2>1 DEF Elsewhere
<1>5. CASE h # c
  BY <1>1, <1>2, <1>3, <1>4, <1>5, ZenonT(60) DEF OrderInv, TaskInOrder, InboxInOrder
<1>6. CASE h = c
  <2>1. TaskInOrder'
    BY <1>1, <1>2, <1>6 DEF TaskInOrder, InboxInOrder
  <2>2. InboxInOrder'
    <3> SUFFICES ASSUME NEW k \in 1..Len(inbox'[c]), inbox'[c][k].save \notin again \cup {0}
                 PROVE  /\ Newest(inbox'[c][k].save, again \cup written)
                        /\ task'[c].job.save < inbox'[c][k].save
                        /\ \A j \in 1..(k - 1) : inbox'[c][j].save < inbox'[c][k].save
      BY DEF InboxInOrder
    <3>1. /\ k + 1 \in 1..Len(inbox[c]) /\ inbox'[c][k] = inbox[c][k + 1]
          /\ 1 \in 1..((k + 1) - 1)
          /\ \A j \in 1..(k - 1) : /\ j + 1 \in 1..((k + 1) - 1) /\ j \in 1..Len(inbox'[c])
                                   /\ inbox'[c][j] = inbox[c][j + 1]
      <4>1. \A j \in 1..(k - 1) : j \in 1..Len(inbox'[c]) /\ j + 1 \in 1..((k + 1) - 1)
        <5>1. Len(inbox'[c]) \in Nat
          BY <1>1, TakeFacts DEF PlacedInv
        <5> QED
          BY <5>1
      <4>2. \A j \in 1..Len(inbox'[c]) : j + 1 \in 1..Len(inbox[c]) /\ inbox'[c][j] = inbox[c][j + 1]
        BY <1>1, <1>6
      <4>3. 1 \in 1..((k + 1) - 1)
        OBVIOUS
      <4> HIDE DEF c
      <4> QED
        BY <4>1, <4>2, <4>3
    <3>2. /\ Newest(inbox[c][k + 1].save, again \cup written)
          /\ \A i \in 1..((k + 1) - 1) : inbox[c][i].save < inbox[c][k + 1].save
      BY <1>2, <3>1 DEF InboxInOrder
    <3> QED
      BY <1>1, <1>6, <3>1, <3>2
  <2> QED
    BY <1>3, <1>4, <2>1, <2>2 DEF OrderInv
<1> QED
  BY <1>5, <1>6


LEMMA OrderInit == Init => OrderInv
<1> SUFFICES ASSUME Init PROVE OrderInv
  OBVIOUS
<1>1. /\ Len(saves) = 0 /\ again = {} /\ Len(resend) = 0
      /\ \A p \in Paths : Len(files[p]) = 0
      /\ \A a \in Procs : Len(inbox[a]) = 0 /\ task[a].job.save = 0
      /\ current \in Procs
  BY NoTaskIsTask, Numbers DEF Init, Hosts, Procs
<1> QED
  BY <1>1 DEF OrderInv, Bounded, Elsewhere, TaskInOrder, InboxInOrder

LEMMA OrderStep == ASSUME PlacedInv, PlacedInv', OrderInv, [Next]_vars PROVE OrderInv'
<1>1. ASSUME NEW a \in Procs, CalmWork(a) PROVE OrderInv'
  <2>1. /\ UNCHANGED <<files, saves, written>> /\ UNCHANGED channel
        /\ task'[a].job.save \in {task[a].job.save, 0}
        /\ \A b \in Procs \ {a} : task'[b] = task[b]
    BY <1>1 DEF CalmWork, CalmFor, store
  <2>2. Bounded'
    BY <2>1 DEF channel, OrderInv, Bounded
  <2> QED
    BY <2>1, <2>2, OrderSame
<1>2. CASE ProofSteps
  BY <1>1, <1>2, ProofsCalm DEF PlacedInv
<1>3. ASSUME NEW h \in Hosts, TakeSave(h) PROVE OrderInv'
  BY <1>3, TakeSaveFacts, OrderTake DEF PlacedInv, store
<1>4. ASSUME NEW h \in Hosts, TakeProof(h) PROVE OrderInv'
  BY <1>4, TakeProofFacts, OrderTake DEF PlacedInv, store
<1>5. ASSUME NEW h \in Hosts, Open(h) PROVE OrderInv'
  <2>1. Bounded'
    BY <1>5, BoundedOpen DEF OrderInv
  <2>2. /\ UNCHANGED written /\ UNCHANGED channel
        /\ \A b \in Procs : task'[b].job = task[b].job
    BY <1>5, OpenFacts
  <2> QED
    BY <2>1, <2>2, OrderSame
<1>6. ASSUME NEW h \in Hosts, Write(h) PROVE OrderInv'
  <2>1. Bounded'
    BY <1>6, BoundedWrite DEF OrderInv
  <2>2. /\ UNCHANGED channel
        /\ \A b \in Procs \ {h} : task'[b].job = task[b].job
        /\ \/ written' = written \cup {task[h].job.save} /\ task'[h] = NoTask
           \/ written' = written /\ task'[h].job = task[h].job
    BY <1>6, WriteFacts
  <2>3. \A b \in Procs : task'[b].job.save \in {task[b].job.save, 0}
    BY <2>2, NoTaskIsTask
  <2>4. \A m \in written' : \/ m \in written
                            \/ \E g \in Hosts : m = task[g].job.save /\ task'[g].job.save = 0
    BY <2>2, NoTaskIsTask
  <2> QED
    BY <2>1, <2>2, <2>3, <2>4, OrderSame
<1>7. ASSUME NEW a \in Procs, Kill(a) PROVE OrderInv'
  <2>1. UNCHANGED <<files, saves, written, task>> /\ UNCHANGED channel
    BY <1>7, KillFacts DEF PlacedInv
  <2>2. Bounded'
    BY <2>1 DEF channel, OrderInv, Bounded
  <2> QED
    BY <2>1, <2>2, OrderSame
<1>8. CASE UNCHANGED vars
  BY <1>8 DEF vars, store, channel, OrderInv, Bounded, Elsewhere, TaskInOrder, InboxInOrder
<1> QED
  BY <1>2, <1>3, <1>4, <1>5, <1>6, <1>7, <1>8, NextCases,
     OrderPostSave, OrderPostProof, OrderDrop, OrderReplay

-----------------------------------------------------------------------------
(* What replaces a newer session *)

RegressOk(p) ==
  Parsed(p) # 0 /\ (\E n \in written : n > Parsed(p) /\ saves[n].path = p) =>
    Parsed(p) \in again

\* ParsedIsWhole in the next state.
LEMMA ParsedNext ==
  ASSUME Typed', NEW p \in Paths, Parsed(p)' # 0
  PROVE  \E n \in 1..Len(saves') :
           /\ files'[p] = [i \in 1..saves'[n].size |-> n] /\ Parsed(p)' = n
           /\ saves'[n].size \in Nat \ {0}
<1> DEFINE Session == [path : Paths, size : Nat \ {0}]
<1>1. saves' \in Seq(Session)
  BY DEF Typed
<1>2. DOMAIN saves' = 1..Len(saves') /\ \A n \in 1..Len(saves') : saves'[n] \in Session
  <2> HIDE DEF Session
  <2> QED
    BY <1>1
<1>3. PICK n \in 1..Len(saves') : files'[p] = [i \in 1..saves'[n].size |-> n]
  BY <1>2 DEF Parsed
<1>4. saves'[n].size \in Nat \ {0}
  BY <1>2
<1>5. files'[p][1] = n
  BY <1>3, <1>4
<1>6. Parsed(p)' = files'[p][1]
  BY <1>2, <1>3 DEF Parsed
<1> QED
  BY <1>3, <1>4, <1>5, <1>6

\* A step that leaves a file, or makes it none that parses.
LEMMA RegressSame ==
  ASSUME PlacedInv, NEW p \in Paths, RegressOk(p), again \subseteq again',
         Parsed(p)' \in {0, Parsed(p)},
         \A m \in 1..Len(saves) : saves'[m] = saves[m],
         \A n \in written' : n \in written \/ saves'[n].path # p
  PROVE  RegressOk(p)'
<1>1. \A n \in written : saves'[n] = saves[n]
  BY DEF PlacedInv, Typed
<1> QED
  BY <1>1 DEF RegressOk

\* No file holds blocks of a session that is only now posted.
LEMMA ParsedPosted ==
  ASSUME PlacedInv, PlacedInv', OrderInv, PostSave, NEW p \in Paths
  PROVE  Parsed(p)' \in {0, Parsed(p)}
<1>1. /\ Len(saves') = Len(saves) + 1 /\ Len(saves) \in Nat
      /\ \A m \in 1..Len(saves) : saves'[m] = saves[m]
      /\ UNCHANGED files
  BY PostSaveFacts DEF PlacedInv
<1> SUFFICES ASSUME Parsed(p)' # 0 PROVE Parsed(p)' = Parsed(p)
  OBVIOUS
<1>2. PICK n \in 1..Len(saves') :
        /\ files'[p] = [i \in 1..saves'[n].size |-> n] /\ Parsed(p)' = n
        /\ saves'[n].size \in Nat \ {0}
  BY ParsedNext DEF PlacedInv
<1>3. n <= Len(saves)
  <2>1. files[p] = [i \in 1..saves'[n].size |-> n]
    BY <1>1, <1>2
  <2>2. files[p][1] = n /\ 1 \in 1..Len(files[p])
    BY <1>2, <2>1
  <2> QED
    BY <2>2 DEF OrderInv, Bounded
<1>4. n \in 1..Len(saves)
  BY <1>1, <1>3
<1>5. files[p] = [i \in 1..saves[n].size |-> n]
  BY <1>1, <1>2, <1>4
<1> QED
  BY <1>2, <1>4, <1>5, ParsedWhole DEF PlacedInv

LEMMA RegressPostSave ==
  ASSUME PlacedInv, PlacedInv', OrderInv, RegressNeedsReplay, PostSave
  PROVE  RegressNeedsReplay'
<1> SUFFICES ASSUME NEW p \in Paths PROVE RegressOk(p)'
  BY DEF RegressNeedsReplay, RegressOk
<1>1. /\ \A m \in 1..Len(saves) : saves'[m] = saves[m]
      /\ UNCHANGED <<files, written, again>>
  BY PostSaveFacts DEF PlacedInv
<1> QED
  BY <1>1, ParsedPosted, RegressSame DEF RegressNeedsReplay, RegressOk

LEMMA RegressOpen ==
  ASSUME PlacedInv, PlacedInv', RegressNeedsReplay, NEW h \in Hosts, Open(h)
  PROVE  RegressNeedsReplay'
<1> DEFINE q == saves[task[h].job.save].path
<1>1. /\ q \in Paths /\ files' = [files EXCEPT ![q] = <<>>]
      /\ UNCHANGED <<saves, written, again>>
  BY OpenFacts DEF channel
<1>2. files \in [Paths -> Seq(Nat)]
  BY DEF PlacedInv, Typed
<1> HIDE DEF q
<1> SUFFICES ASSUME NEW p \in Paths PROVE RegressOk(p)'
  BY DEF RegressNeedsReplay, RegressOk
<1>3. Parsed(p)' \in {0, Parsed(p)}
  <2>1. CASE p = q
    <3>1. files'[p] = <<>>
      BY <1>1, <1>2, <2>1
    <3>2. ASSUME Parsed(p)' # 0 PROVE FALSE
      <4>1. PICK n \in 1..Len(saves') :
              /\ files'[p] = [i \in 1..saves'[n].size |-> n]
              /\ saves'[n].size \in Nat \ {0}
        BY <3>2, ParsedNext DEF PlacedInv
      <4>2. 1 \in DOMAIN files'[p]
        BY <4>1
      <4> QED
        BY <3>1, <4>2
    <3> QED
      BY <3>2
  <2>2. CASE p # q
    <3>1. files'[p] = files[p]
      BY <1>1, <1>2, <2>2
    <3>2. Parsed(p)' = Parsed(p)
      BY <1>1, <3>1 DEF Parsed
    <3> QED
      BY <3>2
  <2> QED
    BY <2>1, <2>2
<1> QED
  BY <1>1, <1>3, RegressSame DEF RegressNeedsReplay, RegressOk

\* A save that completes a file is one of the newest, or was posted again.
LEMMA RegressWrite ==
  ASSUME PlacedInv, PlacedInv', OrderInv, RegressNeedsReplay, NEW h \in Hosts, Write(h)
  PROVE  RegressNeedsReplay'
<1> DEFINE m == task[h].job.save
           q == saves[m].path
           at == task[h].at + 1
<1>1. /\ q \in Paths /\ m \in 1..Len(saves) /\ Len(saves) \in Nat
      /\ at \in Nat \ {0}
      /\ files' = [files EXCEPT ![q] = Put(@, at, m)]
      /\ written' \subseteq written \cup {m}
      /\ UNCHANGED <<saves, again>>
  BY WriteFacts DEF channel
<1>2. files \in [Paths -> Seq(Nat)]
  BY DEF PlacedInv, Typed
<1>3. m \notin again => \A n \in written' : n <= m
  <2>1. ASSUME m \notin again PROVE Newest(m, again \cup written)
    <3>1. h = current
      BY <1>1, <2>1, Numbers DEF OrderInv, Elsewhere
    <3> QED
      BY <1>1, <2>1, <3>1 DEF OrderInv, TaskInOrder
  <2> QED
    BY <1>1, <2>1 DEF Newest
<1>4. saves[m].path = q
  OBVIOUS
<1> HIDE DEF m, q, at
<1> SUFFICES ASSUME NEW p \in Paths PROVE RegressOk(p)'
  BY DEF RegressNeedsReplay, RegressOk
<1>5. CASE p # q
  <2>1. files'[p] = files[p]
    BY <1>1, <1>2, <1>5
  <2>2. Parsed(p)' = Parsed(p)
    BY <1>1, <2>1 DEF Parsed
  <2> QED
    BY <1>1, <1>4, <1>5, <2>2, RegressSame DEF RegressNeedsReplay, RegressOk
<1>6. CASE p = q
  <2> SUFFICES ASSUME Parsed(p)' # 0, NEW n \in written', n > Parsed(p)'
               PROVE  Parsed(p)' \in again
    BY <1>1 DEF RegressOk
  <2>1. PICK x \in 1..Len(saves') :
          /\ files'[p] = [i \in 1..saves'[x].size |-> x] /\ Parsed(p)' = x
          /\ saves'[x].size \in Nat \ {0}
    BY ParsedNext DEF PlacedInv
  <2> DEFINE c == files[q]
             k == IF at > Len(c) THEN at ELSE Len(c)
  <2>2. /\ c \in Seq(Nat) /\ Len(c) \in Nat
        /\ files'[p] = Put(c, at, m)
    BY <1>1, <1>2, <1>6
  <2> HIDE DEF c
  <2>3. files'[p] = [j \in 1..k |-> IF j = at THEN m ELSE IF j <= Len(c) THEN c[j] ELSE 0]
    BY <2>2 DEF Put
  <2>4. at \in 1..k
    BY <1>1, <2>2
  <2>5. files'[p][at] = m /\ at \in DOMAIN files'[p]
    BY <2>3, <2>4
  <2>6. x = m
    BY <2>1, <2>5
  <2> QED
    BY <1>1, <1>3, <2>1, <2>6, SaveNumbers
<1> QED
  BY <1>5, <1>6

LEMMA RegressStep ==
  ASSUME PlacedInv, PlacedInv', OrderInv, RegressNeedsReplay, [Next]_vars
  PROVE  RegressNeedsReplay'
<1>1. ASSUME UNCHANGED <<files, saves, written>>, again \subseteq again'
      PROVE  RegressNeedsReplay'
  <2> SUFFICES ASSUME NEW p \in Paths PROVE RegressOk(p)'
    BY DEF RegressNeedsReplay, RegressOk
  <2>1. Parsed(p)' = Parsed(p)
    BY <1>1 DEF Parsed
  <2> QED
    BY <1>1, <2>1, RegressSame DEF RegressNeedsReplay, RegressOk
<1>2. CASE PostProof \/ ReplayNext \/ UNCHANGED vars
  <2>1. UNCHANGED <<files, saves, written, again>>
    BY <1>2 DEF PostProof, ReplayNext, vars, store, channel
  <2> QED
    BY <1>1, <2>1
<1>3. CASE Drop
  BY <1>1, <1>3, DropFacts DEF PlacedInv, store
<1>4. CASE ProofSteps
  <2>1. UNCHANGED <<store, channel>>
    BY <1>4, ProofsCalm DEF PlacedInv, CalmWork, CalmFor
  <2> QED
    BY <1>1, <2>1 DEF store, channel
<1>5. ASSUME NEW h \in Hosts, TakeSave(h) \/ TakeProof(h) PROVE RegressNeedsReplay'
  BY <1>1, <1>5, TakeSaveFacts, TakeProofFacts DEF PlacedInv, store
<1>6. ASSUME NEW a \in Procs, Kill(a) PROVE RegressNeedsReplay'
  BY <1>1, <1>6, KillFacts DEF PlacedInv, channel
<1> QED
  BY <1>2, <1>3, <1>4, <1>5, <1>6, NextCases, RegressPostSave, RegressOpen, RegressWrite

\* An older session replaces a newer one that was written to its end only when a lost
\* port made the extension post it twice (background.js 215 and 273): saves that were
\* posted once are with one host, which writes them in their order.
THEOREM RegressIsReplay == Spec => []RegressNeedsReplay
<1>1. Init => PlacedInv /\ OrderInv /\ RegressNeedsReplay
  BY PlacedInit, OrderInit DEF Init, RegressNeedsReplay
<1>2. /\ PlacedInv /\ OrderInv /\ RegressNeedsReplay /\ [Next]_vars
      => PlacedInv' /\ OrderInv' /\ RegressNeedsReplay'
  BY PlacedStep, OrderStep, RegressStep
<1> QED
  BY <1>1, <1>2, PTL DEF Spec

-----------------------------------------------------------------------------
(* The entries of a fields array *)

\* Whatever entries a message holds, what is left of them are paths.
LEMMA WellFormedTyped ==
  ASSUME NEW s \in Seq(Paths \cup {Malformed})
  PROVE  WellFormed(s) \in Seq(Paths)
<1> DEFINE T == Paths
           bad == Malformed
           step == [v \in Seq(T) \X Nat |->
                      IF v[2] \in 1..Len(s) /\ s[v[2]] # bad THEN Append(v[1], s[v[2]]) ELSE v[1]]
           Def(f) == [n \in 0..Len(s) |->
                        IF n = 0 THEN <<>>
                        ELSE IF s[n] = bad THEN f[n - 1] ELSE Append(f[n - 1], s[n])]
           kept == CHOOSE f : f = Def(f)
<1>1. WellFormed(s) = kept[Len(s)]
  BY DEF WellFormed
<1>2. step \in [Seq(T) \X Nat -> Seq(T)] /\ <<>> \in Seq(T) /\ Len(s) \in Nat
  <2>1. ASSUME NEW v \in Seq(T) \X Nat
        PROVE  (IF v[2] \in 1..Len(s) /\ s[v[2]] # bad THEN Append(v[1], s[v[2]]) ELSE v[1]) \in Seq(T)
    <3>1. v[1] \in Seq(T) /\ v[2] \in Nat
      OBVIOUS
    <3>2. v[2] \in 1..Len(s) => s[v[2]] \in Paths \cup {Malformed}
      BY <3>1
    <3> QED
      BY <3>1, <3>2
  <2> QED
    BY <2>1
<1>3. PICK f \in [0..Len(s) -> Seq(T)] : f[0] = <<>> /\ \A i \in 1..Len(s) : f[i] = step[<<f[i - 1], i>>]
  <2> DEFINE U == Seq(T)
             none == <<>>
             n == Len(s)
  <2>1. none \in U /\ step \in [U \X Nat -> U] /\ n \in Nat
    BY <1>2
  <2> HIDE DEF step, U, none, n, Def, T, kept
  <2>2. \E f \in [0..n -> U] : Iterates(f, none, step, n)
    BY <2>1, Iteration
  <2> QED
    BY <2>2 DEF U, none, n, Iterates
<1>4. ASSUME NEW i \in 1..Len(s) PROVE f[i] = IF s[i] = bad THEN f[i - 1] ELSE Append(f[i - 1], s[i])
  <2>1. i - 1 \in 0..Len(s) /\ i \in Nat
    BY <1>2
  <2>2. <<f[i - 1], i>> \in Seq(T) \X Nat
    <3> HIDE DEF T
    <3> QED
      BY <2>1
  <2>3. f[i] = step[<<f[i - 1], i>>]
    BY <1>3
  <2> HIDE DEF T
  <2> QED
    BY <2>2, <2>3
<1>5. f = Def(f)
  <2>1. \A n \in 0..Len(s) : n = 0 \/ n \in 1..Len(s)
    BY <1>2
  <2>2. \A n \in 0..Len(s) : Def(f)[n] = f[n]
    BY <2>1, <1>3, <1>4
  <2>3. DOMAIN f = 0..Len(s) /\ f = [n \in 0..Len(s) |-> f[n]]
    OBVIOUS
  <2> QED
    BY <2>2, <2>3
<1>6. \A n \in Nat : n \in 0..Len(s) => kept[n] \in Seq(T)
  <2>1. kept = Def(kept)
    <3> HIDE DEF Def
    <3> QED
      BY <1>5
  <2> DEFINE A == {n \in Nat : n \in 0..Len(s) => kept[n] \in Seq(T)}
  <2>2. 0 \in A
    BY <2>1, <1>2
  <2>3. ASSUME NEW n \in Nat, n \in A PROVE n + 1 \in A
    <3> SUFFICES ASSUME n + 1 \in 0..Len(s) PROVE kept[n + 1] \in Seq(T)
      OBVIOUS
    <3>1. kept[n] \in Seq(T)
      BY <2>3, <1>2
    <3>2. kept[n + 1] = IF s[n + 1] = bad THEN kept[n] ELSE Append(kept[n], s[n + 1])
      <4>1. Def(kept)[n + 1] = IF s[n + 1] = bad THEN kept[n] ELSE Append(kept[n], s[n + 1])
        <5> HIDE DEF kept
        <5> QED
          BY <1>2
      <4> HIDE DEF kept, Def
      <4> QED
        BY <4>1, <2>1
    <3>3. s[n + 1] \in Paths \cup {Malformed}
      BY <1>2
    <3> HIDE DEF kept
    <3> QED
      BY <3>1, <3>2, <3>3
  <2> HIDE DEF A, kept
  <2>4. Nat \subseteq A
    BY <2>2, <2>3, NatSetInduction
  <2> QED
    BY <2>4 DEF A
<1> QED
  <2> HIDE DEF kept
  <2> QED
    BY <1>1, <1>2, <1>6

-----------------------------------------------------------------------------
(* What a process works on *)

\* The save that each file holds.
Sessions == [p \in Paths |-> Parsed(p)]

TaskType ==
  [job : Jobs, fields : Seq(Paths), load : Seq(Paths), salt : Nat, at : Nat,
   hints : Seq(0..MaxSaves), loaded : [Paths -> 0..MaxSaves], touched : SUBSET Paths]

\* A proof hints its fields in order, then loads in order what the fields need.
Walks(t, stage) ==
  /\ t \in TaskType /\ Len(t.hints) <= Len(t.fields)
  /\ stage = "hint" => t.at < Len(t.fields) /\ Len(t.hints) = t.at
  /\ stage \in {"load", "prove"} => Len(t.hints) = Len(t.fields)
  /\ stage = "load" => t.at < Len(t.load)
  /\ stage \in {"hint", "load", "prove"} =>
       /\ Len(t.load) > 0
       /\ \A k \in 1..Len(t.fields) : \E m \in 1..Len(t.load) : t.load[m] = t.fields[k]
  /\ stage = "load" => \A m \in 1..t.at : t.loaded[t.load[m]] # 0
  /\ stage = "prove" => \A m \in 1..Len(t.load) : t.loaded[t.load[m]] # 0

\* What was read from a file is what the file holds, or the file was written since.
Fresh(t, held) ==
  /\ \A k \in 1..Len(t.hints) :
       t.hints[k] \in {0, held[t.fields[k]]} \/ t.fields[k] \in t.touched
  /\ \A p \in Paths : t.loaded[p] \in {0, held[p]} \/ p \in t.touched

TaskOk(t, stage, held) == Walks(t, stage) /\ Fresh(t, held)

BindInv == \A a \in Procs : TaskOk(task[a], pc[a], Sessions)

\* A proof begins with nothing read.
LEMMA StartOk ==
  ASSUME NEW j \in Jobs, NEW fs \in Seq(Paths), NEW ps \in Seq(Paths), NEW salt \in Nat, NEW held,
         NEW stage \in Stages \ {"load", "prove"},
         stage = "hint" =>
           /\ fs # <<>> /\ ps # <<>>
           /\ \A k \in 1..Len(fs) : \E m \in 1..Len(ps) : ps[m] = fs[k]
  PROVE  TaskOk(TaskFor(j, fs, ps, salt), stage, held)
<1> DEFINE t == TaskFor(j, fs, ps, salt)
           none == [p \in Paths |-> 0]
           empty == <<>>
<1>1. /\ t.job = j /\ t.fields = fs /\ t.load = ps /\ t.salt = salt /\ t.at = 0
      /\ t.hints = empty /\ t.loaded = none /\ t.touched = {}
  BY DEF TaskFor
<1>2. /\ empty \in Seq(0..MaxSaves) /\ Len(empty) = 0
      /\ none \in [Paths -> 0..MaxSaves] /\ \A p \in Paths : none[p] = 0
  BY Numbers
<1>3. /\ Len(fs) \in Nat /\ Len(ps) \in Nat /\ (fs # <<>> => Len(fs) > 0)
      /\ (ps # <<>> => Len(ps) > 0)
  OBVIOUS
<1> HIDE DEF none, empty
<1>4. t \in TaskType
  BY <1>2 DEF TaskFor, TaskType, none, empty
<1> HIDE DEF t
<1>5. Walks(t, stage)
  <2>1. stage # "load" /\ stage # "prove"
    OBVIOUS
  <2>2. stage = "hint" =>
          /\ t.at < Len(t.fields) /\ Len(t.hints) = t.at /\ Len(t.load) > 0
          /\ \A k \in 1..Len(t.fields) : \E m \in 1..Len(t.load) : t.load[m] = t.fields[k]
    BY <1>1, <1>2, <1>3
  <2>3. Len(t.hints) <= Len(t.fields)
    BY <1>1, <1>2, <1>3
  <2> QED
    BY <1>4, <2>1, <2>2, <2>3 DEF Walks
<1>6. Fresh(t, held)
  BY <1>1, <1>2 DEF Fresh
<1> QED
  BY <1>5, <1>6 DEF TaskOk, t

\* A process without a message has read nothing.
LEMMA NoTaskOk ==
  ASSUME NEW held, NEW stage \in Stages \ {"hint", "load", "prove"}
  PROVE  TaskOk(NoTask, stage, held)
<1>1. NoJob \in Jobs /\ <<>> \in Seq(Paths) /\ 0 \in Nat
  BY NoTaskIsTask
<1> QED
  BY <1>1, StartOk DEF NoTask, Task

\* A stage that reads no files asks nothing of the task.
LEMMA IdleOk ==
  ASSUME NEW t, NEW old, NEW held, TaskOk(t, old, held),
         NEW stage \in Stages \ {"hint", "load", "prove"}
  PROVE  TaskOk(t, stage, held)
  BY DEF TaskOk, Walks

\* Telling a task of a write leaves it sound: less is asked of it.
LEMMA TouchedOk ==
  ASSUME NEW t, NEW stage, NEW held, NEW next, TaskOk(t, stage, held), NEW p \in Paths,
         \A q \in Paths \ {p} : next[q] = held[q]
  PROVE  TaskOk([t EXCEPT !.touched = @ \cup {p}], stage, next)
<1> DEFINE u == [t EXCEPT !.touched = @ \cup {p}]
<1>1. t \in TaskType
  BY DEF TaskOk, Walks
<1>2. /\ u \in TaskType /\ u.fields = t.fields /\ u.load = t.load /\ u.at = t.at
      /\ u.hints = t.hints /\ u.loaded = t.loaded /\ u.touched = t.touched \cup {p}
  BY <1>1 DEF TaskType
<1> HIDE DEF u
<1>3. Walks(u, stage)
  BY <1>2 DEF TaskOk, Walks
<1>4. \A k \in 1..Len(t.hints) : t.fields[k] \in Paths
  <2>1. t.fields \in Seq(Paths) /\ Len(t.hints) \in Nat /\ Len(t.hints) <= Len(t.fields)
    BY <1>1 DEF TaskOk, Walks, TaskType
  <2> QED
    BY <2>1
<1>5. Fresh(u, next)
  BY <1>2, <1>4 DEF TaskOk, Fresh
<1> QED
  BY <1>3, <1>5 DEF TaskOk, u

\* Blocks written are counted by the same field as fields and paths.
LEMMA CountedOk ==
  ASSUME NEW t, NEW held, NEW k \in Nat, TaskOk(t, "write", held)
  PROVE  TaskOk([t EXCEPT !.at = k], "write", held)
<1> DEFINE u == [t EXCEPT !.at = k]
<1>1. t \in TaskType
  BY DEF TaskOk, Walks
<1>2. /\ u \in TaskType /\ u.fields = t.fields /\ u.load = t.load
      /\ u.hints = t.hints /\ u.loaded = t.loaded /\ u.touched = t.touched
  BY <1>1 DEF TaskType
<1> HIDE DEF u
<1>3. Walks(u, "write")
  BY <1>2 DEF TaskOk, Walks
<1>4. Fresh(u, held)
  BY <1>2 DEF TaskOk, Fresh
<1> QED
  BY <1>3, <1>4 DEF TaskOk, u

\* A hint is what the file of its field holds, and the next stage comes after the last.
LEMMA HintedOk ==
  ASSUME NEW t, NEW held \in [Paths -> 0..MaxSaves], TaskOk(t, "hint", held)
  PROVE  LET k == t.at + 1
             u == [t EXCEPT !.hints = Append(@, held[t.fields[k]]),
                            !.at = IF k = Len(t.fields) THEN 0 ELSE k]
         IN TaskOk(u, IF k = Len(t.fields) THEN "load" ELSE "hint", held)
<1> DEFINE k == t.at + 1
           n == held[t.fields[k]]
           at == IF k = Len(t.fields) THEN 0 ELSE k
           hints == Append(t.hints, n)
           stage == IF k = Len(t.fields) THEN "load" ELSE "hint"
           u == [t EXCEPT !.hints = Append(@, held[t.fields[k]]),
                          !.at = IF k = Len(t.fields) THEN 0 ELSE k]
<1>1. /\ t \in TaskType /\ t.at \in Nat /\ t.hints \in Seq(0..MaxSaves) /\ t.fields \in Seq(Paths)
      /\ t.load \in Seq(Paths)
  BY DEF TaskOk, Walks, TaskType
<1>2. /\ Len(t.fields) \in Nat /\ t.at < Len(t.fields) /\ Len(t.hints) = t.at /\ Len(t.load) > 0
      /\ \A i \in 1..Len(t.fields) : \E m \in 1..Len(t.load) : t.load[m] = t.fields[i]
  BY <1>1 DEF TaskOk, Walks
<1>3. k \in 1..Len(t.fields) /\ k \in Nat /\ at \in Nat
  BY <1>1, <1>2
<1>4. t.fields[k] \in Paths /\ n \in 0..MaxSaves
  BY <1>1, <1>3
<1>5. u = [t EXCEPT !.hints = hints, !.at = at]
  BY <1>1 DEF TaskType
<1>6. /\ hints \in Seq(0..MaxSaves) /\ Len(hints) = k /\ hints[k] = n
      /\ \A i \in 1..t.at : hints[i] = t.hints[i]
  <2> HIDE DEF n
  <2> QED
    BY <1>1, <1>2, <1>4
<1> HIDE DEF u, hints, n, at
<1>7. /\ u \in TaskType /\ u.fields = t.fields /\ u.load = t.load /\ u.at = at
      /\ u.hints = hints /\ u.loaded = t.loaded /\ u.touched = t.touched
  BY <1>1, <1>3, <1>5, <1>6 DEF TaskType
<1>8. Walks(u, stage)
  BY <1>2, <1>3, <1>6, <1>7 DEF Walks, at
<1>9. Fresh(u, held)
  <2>1. \A i \in 1..k : hints[i] \in {0, held[t.fields[i]]} \/ t.fields[i] \in t.touched
    <3>1. \A i \in 1..k : i = k \/ i \in 1..t.at
      BY <1>1
    <3>2. \A i \in 1..t.at : t.hints[i] \in {0, held[t.fields[i]]} \/ t.fields[i] \in t.touched
      BY <1>2 DEF TaskOk, Fresh
    <3> QED
      BY <1>6, <3>1, <3>2 DEF n
  <2> QED
    BY <1>6, <1>7, <2>1 DEF TaskOk, Fresh
<1> QED
  BY <1>8, <1>9 DEF TaskOk, u

\* A session is what its file holds; after the last, every field has its session.
LEMMA LoadedOk ==
  ASSUME NEW t, NEW held \in [Paths -> 0..MaxSaves], TaskOk(t, "load", held)
  PROVE  LET p == t.load[t.at + 1]
             n == IF t.loaded[p] # 0 THEN t.loaded[p] ELSE held[p]
             k == t.at + 1
             u == [t EXCEPT !.loaded[p] = n, !.at = k]
         IN /\ p \in Paths
            /\ n # 0 => TaskOk(u, IF k = Len(t.load) THEN "prove" ELSE "load", held)
<1> DEFINE k == t.at + 1
           p == t.load[k]
           n == IF t.loaded[p] # 0 THEN t.loaded[p] ELSE held[p]
           loaded == [t.loaded EXCEPT ![p] = n]
           stage == IF k = Len(t.load) THEN "prove" ELSE "load"
           u == [t EXCEPT !.loaded[p] = n, !.at = k]
<1>1. /\ t \in TaskType /\ t.at \in Nat /\ t.load \in Seq(Paths)
      /\ t.loaded \in [Paths -> 0..MaxSaves]
  BY DEF TaskOk, Walks, TaskType
<1>2. /\ Len(t.load) \in Nat /\ t.at < Len(t.load)
      /\ \A m \in 1..t.at : t.loaded[t.load[m]] # 0
  BY <1>1 DEF TaskOk, Walks
<1>3. k \in 1..Len(t.load) /\ k \in Nat
  BY <1>1, <1>2
<1>4. p \in Paths /\ n \in 0..MaxSaves
  BY <1>1, <1>3
<1>5. u = [t EXCEPT !.loaded = loaded, !.at = k]
  BY <1>1 DEF TaskType
<1>6. /\ loaded \in [Paths -> 0..MaxSaves] /\ loaded[p] = n
      /\ \A q \in Paths \ {p} : loaded[q] = t.loaded[q]
  <2> HIDE DEF n, p
  <2> QED
    BY <1>1, <1>4
<1>7. n = t.loaded[p] \/ n = held[p]
  OBVIOUS
<1> HIDE DEF u, loaded, n
<1>8. /\ u \in TaskType /\ u.fields = t.fields /\ u.load = t.load /\ u.at = k
      /\ u.hints = t.hints /\ u.loaded = loaded /\ u.touched = t.touched
  <2> HIDE DEF k
  <2> QED
    BY <1>1, <1>3, <1>5, <1>6 DEF TaskType
<1>9. ASSUME n # 0 PROVE Walks(u, stage)
  <2>1. \A m \in 1..k : loaded[t.load[m]] # 0
    <3> SUFFICES ASSUME NEW m \in 1..k PROVE loaded[t.load[m]] # 0
      OBVIOUS
    <3>1. m \in 1..Len(t.load) /\ (m = k \/ m \in 1..t.at)
      BY <1>1, <1>2
    <3>2. t.load[m] \in Paths
      BY <1>1, <3>1
    <3>3. t.load[m] = p => loaded[t.load[m]] = n
      BY <1>6
    <3>4. t.load[m] # p => m \in 1..t.at /\ loaded[t.load[m]] = t.loaded[t.load[m]]
      BY <1>6, <3>1, <3>2
    <3> QED
      BY <1>2, <1>9, <3>3, <3>4
  <2>2. \A m \in 1..Len(t.load) : k = Len(t.load) => m \in 1..k
    OBVIOUS
  <2> HIDE DEF p
  <2> QED
    BY <1>2, <1>3, <1>8, <2>1, <2>2 DEF TaskOk, Walks
<1>10. Fresh(u, held)
  <2>1. \A q \in Paths : loaded[q] \in {0, held[q]} \/ q \in t.touched
    <3>1. \A q \in Paths : t.loaded[q] \in {0, held[q]} \/ q \in t.touched
      BY DEF TaskOk, Fresh
    <3> QED
      BY <1>4, <1>6, <1>7, <3>1
  <2> HIDE DEF p
  <2> QED
    BY <1>8, <2>1 DEF TaskOk, Fresh
<1> QED
  BY <1>4, <1>9, <1>10 DEF TaskOk, u, n


\* Every save is one that was posted.
LEMMA SessionsTyped == ASSUME Typed PROVE Sessions \in [Paths -> 0..MaxSaves]
<1>1. Len(saves) \in Nat /\ Len(saves) <= MaxSaves
  BY DEF Typed
<1>2. \A p \in Paths : Parsed(p) \in 0..MaxSaves
  <2> SUFFICES ASSUME NEW p \in Paths, Parsed(p) # 0 PROVE Parsed(p) \in 0..MaxSaves
    BY Numbers
  <2>1. \E n \in 1..Len(saves) : Parsed(p) = n
    BY ParsedIsWhole
  <2> QED
    BY <1>1, <2>1, Numbers
<1> QED
  BY <1>2 DEF Sessions

\* What does not write a file changes no session.
LEMMA SessionsKept ==
  ASSUME UNCHANGED <<files, saves>>
  PROVE  Sessions' = Sessions
  BY DEF Sessions, Parsed

\* Posting a session changes no file.
LEMMA SessionsPosted ==
  ASSUME PlacedInv, PlacedInv', OrderInv, PostSave
  PROVE  Sessions' = Sessions
<1> SUFFICES ASSUME NEW p \in Paths PROVE Parsed(p)' = Parsed(p)
  BY DEF Sessions
<1>1. /\ Len(saves') = Len(saves) + 1 /\ Len(saves) \in Nat
      /\ \A m \in 1..Len(saves) : saves'[m] = saves[m]
      /\ UNCHANGED <<files, written, again>>
  BY PostSaveFacts DEF PlacedInv
<1>2. Parsed(p)' \in {0, Parsed(p)}
  BY <1>1, ParsedPosted
<1>3. Parsed(p) # 0 => Parsed(p)' = Parsed(p)
  <2>1. Len(saves) <= Len(saves')
    BY <1>1
  <2> QED
    BY <1>1, <2>1, WrittenFacts DEF PlacedInv
<1> QED
  BY <1>2, <1>3

\* A file that is not written holds what it held.
LEMMA SessionsElsewhere ==
  ASSUME NEW p \in Paths, NEW c, files' = [files EXCEPT ![p] = c], UNCHANGED saves, Typed
  PROVE  \A q \in Paths \ {p} : Sessions'[q] = Sessions[q]
<1> TAKE q \in Paths \ {p}
<1>1. files'[q] = files[q]
  BY DEF Typed
<1> QED
  BY <1>1 DEF Sessions, Parsed

-----------------------------------------------------------------------------
(* The steps of a proof *)

\* A hint keeps what was read fresh ...
LEMMA BindHint ==
  ASSUME PlacedInv, BindInv, NEW a \in Procs, Hint(a)
  PROVE  TaskOk(task'[a], pc'[a], Sessions)
<1>1. DOMAIN task = Procs /\ DOMAIN pc = Procs
  BY DEF PlacedInv, Typed
<1>2. TaskOk(task[a], "hint", Sessions) /\ pc[a] = "hint"
  BY DEF BindInv, Hint
<1> DEFINE t == task[a]
           k == t.at + 1
           stage == IF k = Len(t.fields) THEN "load" ELSE "hint"
           u == [t EXCEPT !.hints = Append(@, Sessions[t.fields[k]]),
                          !.at = IF k = Len(t.fields) THEN 0 ELSE k]
<1>3. t.fields[k] \in Paths
  <2>1. t \in TaskType /\ t.at < Len(t.fields)
    BY <1>2 DEF TaskOk, Walks
  <2>2. t.fields \in Seq(Paths) /\ t.at \in Nat
    BY <2>1 DEF TaskType
  <2> HIDE DEF t
  <2>3. k \in 1..Len(t.fields)
    BY <2>1, <2>2
  <2> QED
    BY <2>2, <2>3
<1>4. Parsed(HintPath(t.fields, k)) = Sessions[t.fields[k]]
  BY <1>3 DEF HintPath, Sessions
<1>5. task' = [task EXCEPT ![a].hints = Append(@, Parsed(HintPath(t.fields, k))),
                           ![a].at = IF k = Len(t.fields) THEN 0 ELSE k]
      /\ pc' = [pc EXCEPT ![a] = stage]
  BY DEF Hint
<1>6. task'[a] = u /\ pc'[a] = stage
  BY <1>1, <1>4, <1>5
<1>7. TaskOk(u, stage, Sessions)
  <2>1. Sessions \in [Paths -> 0..MaxSaves]
    BY SessionsTyped DEF PlacedInv
  <2> HIDE DEF t
  <2> QED
    BY <1>2, <2>1, HintedOk DEF t
<1> HIDE DEF u, stage
<1> QED
  BY <1>6, <1>7

\* ... and so does a session loaded, or the error in its place.
LEMMA BindLoad ==
  ASSUME PlacedInv, BindInv, NEW a \in Procs, Load(a)
  PROVE  TaskOk(task'[a], pc'[a], Sessions)
<1>1. DOMAIN task = Procs /\ DOMAIN pc = Procs
  BY DEF PlacedInv, Typed
<1>2. TaskOk(task[a], "load", Sessions) /\ pc[a] = "load"
  BY DEF BindInv, Load
<1> DEFINE t == task[a]
           k == t.at + 1
           p == t.load[k]
           n == IF t.loaded[p] # 0 THEN t.loaded[p] ELSE Sessions[p]
           stage == IF k = Len(t.load) THEN "prove" ELSE "load"
           u == [t EXCEPT !.loaded[p] = n, !.at = k]
<1>3. p \in Paths /\ (n # 0 => TaskOk(u, stage, Sessions))
  BY <1>2, LoadedOk, SessionsTyped DEF PlacedInv
<1>4. n = IF t.loaded[p] # 0 THEN t.loaded[p] ELSE Parsed(p)
  BY <1>3 DEF Sessions
<1>5. CASE n = 0
  <2>1. Answer(a, NoReply)
    BY <1>4, <1>5 DEF Load, LoadFailed
  <2> QED
    BY <2>1, AnswerFacts, NoTaskOk DEF PlacedInv, Stages
<1>6. CASE n # 0
  <2>1. /\ task' = [task EXCEPT ![a].loaded[p] = n, ![a].at = k]
        /\ pc' = [pc EXCEPT ![a] = stage]
    BY <1>4, <1>6 DEF Load
  <2> HIDE DEF n
  <2>2. task'[a] = u /\ pc'[a] = stage
    BY <1>1, <2>1
  <2> QED
    BY <1>3, <1>6, <2>2
<1> QED
  BY <1>5, <1>6

\* A command line loads the files of all its fields, for they are among its paths.
LEMMA BindRunCli ==
  ASSUME PlacedInv, salts \in Nat, RunCli, NEW held
  PROVE  TaskOk(task'[Cli], pc'[Cli], held)
<1>1. PICK c \in Commands :
        task' = [task EXCEPT ![Cli] = TaskFor(ProofJob(Tail(c), FALSE), Tail(c), c, salts')]
  BY DEF RunCli
<1>2. pc' = [pc EXCEPT ![Cli] = "hint"] /\ salts' \in Nat
  BY DEF RunCli
<1>3. c \in Seq(Paths) /\ Len(c) > 1
  BY PipelineAssumption DEF PipelineAssumption
<1> DEFINE fs == Tail(c)
           j == ProofJob(fs, FALSE)
<1>4. /\ fs \in Seq(Paths) /\ fs # <<>> /\ c # <<>>
      /\ \A k \in 1..Len(fs) : k + 1 \in 1..Len(c) /\ c[k + 1] = fs[k]
  BY <1>3
<1>5. j \in Jobs
  <2>1. fs \in Seq(Paths \cup {Malformed})
    BY <1>4
  <2> QED
    BY <2>1, ProofJobIsJob
<1> HIDE DEF fs, j
<1>6. TaskOk(TaskFor(j, fs, c, salts'), "hint", held)
  <2>1. "hint" \in Stages \ {"load", "prove"}
    BY DEF Stages
  <2> QED
    BY <1>2, <1>3, <1>4, <1>5, <2>1, StartOk
<1>7. task' = [task EXCEPT ![Cli] = TaskFor(j, fs, c, salts')]
  BY <1>1 DEF fs, j
<1>8. task'[Cli] = TaskFor(j, fs, c, salts') /\ pc'[Cli] = "hint"
  BY <1>2, <1>7, Numbers DEF PlacedInv, Typed
<1> QED
  BY <1>6, <1>8

\* Process a is at work on a proof; nothing else but the answers changes.
LEMMA BindProofSteps ==
  ASSUME PlacedInv, BindInv, salts \in Nat, ProofSteps
  PROVE  BindInv'
<1>1. Sessions' = Sessions
  BY ProofsCalm, SessionsKept DEF PlacedInv, CalmWork, CalmFor, store
<1>2. ASSUME NEW a \in Procs, CalmWork(a), TaskOk(task'[a], pc'[a], Sessions) PROVE BindInv'
  BY <1>1, <1>2 DEF BindInv, CalmWork, CalmFor
<1>3. ASSUME NEW a \in Procs, NEW r, Answer(a, r) PROVE TaskOk(task'[a], pc'[a], Sessions)
  BY <1>3, AnswerFacts, NoTaskOk DEF PlacedInv, Stages
<1>4. CASE RunCli
  BY <1>2, <1>4, BindRunCli, RunCliCalm, Numbers DEF PlacedInv
<1>5. ASSUME NEW a \in Procs, Hint(a) PROVE BindInv'
  BY <1>2, <1>5, BindHint, HintCalm DEF PlacedInv
<1>6. ASSUME NEW a \in Procs, Load(a) PROVE BindInv'
  BY <1>2, <1>6, BindLoad, LoadCalm DEF PlacedInv
<1>7. ASSUME NEW a \in Procs, NEW r, Answer(a, r), UNCHANGED <<store, channel, faults>>
      PROVE  BindInv'
  <2>1. \A b \in Procs \ {a} : pc'[b] = pc[b] /\ task'[b] = task[b]
    BY <1>7, AnswerFacts DEF PlacedInv
  <2> QED
    BY <1>1, <1>3, <1>7, <2>1 DEF BindInv
<1>8. CASE \E a \in Procs : Abort(a) \/ (a # Cli /\ Prove(a))
  BY <1>7, <1>8 DEF Abort, Prove, counts
<1>9. CASE WriteSalt
  BY <1>7, <1>9, Numbers DEF WriteSalt, counts
<1>10. CASE WriteProof
  <2>1. /\ pc' = [pc EXCEPT ![Cli] = "salt"] /\ UNCHANGED task
    BY <1>10 DEF WriteProof
  <2>2. /\ pc'[Cli] = "salt" /\ \A b \in Procs \ {Cli} : pc'[b] = pc[b]
    BY <2>1, Numbers DEF PlacedInv, Typed
  <2>3. TaskOk(task[Cli], "salt", Sessions)
    BY IdleOk, Numbers DEF BindInv, Stages
  <2> QED
    BY <1>1, <2>1, <2>2, <2>3 DEF BindInv
<1> QED
  BY <1>4, <1>5, <1>6, <1>8, <1>9, <1>10 DEF ProofSteps


-----------------------------------------------------------------------------
(* The other steps *)

\* A message that is taken starts with nothing read.
LEMMA BindTake ==
  ASSUME PlacedInv, BindInv, salts \in Nat, NEW h \in Hosts, TakeSave(h) \/ TakeProof(h)
  PROVE  BindInv'
<1>1. h \in Procs /\ inbox[h] # <<>> /\ inbox' = [inbox EXCEPT ![h] = Tail(@)]
  BY Numbers DEF TakeSave, TakeProof
<1>2. Head(inbox[h]) \in Jobs
  BY <1>1, TakeFacts DEF PlacedInv
<1>3. UNCHANGED store /\ \A b \in Procs \ {h} : pc'[b] = pc[b] /\ task'[b] = task[b]
  BY TakeSaveFacts, TakeProofFacts DEF PlacedInv
<1>4. Sessions' = Sessions
  BY <1>3, SessionsKept DEF store
<1> DEFINE j == Head(inbox[h])
           fs == WellFormed(j.fields)
<1>5. fs \in Seq(Paths)
  <2>1. j.fields \in Seq(Paths \cup {Malformed})
    BY <1>2 DEF Jobs
  <2> QED
    BY <2>1, WellFormedTyped
<1>6. TaskOk(task'[h], pc'[h], Sessions)
  <2>1. CASE TakeSave(h)
    <3>1. task' = [task EXCEPT ![h] = Task(j)] /\ pc' = [pc EXCEPT ![h] = "open"]
      BY <2>1 DEF TakeSave
    <3>2. task'[h] = Task(j) /\ pc'[h] = "open"
      BY <1>1, <3>1 DEF PlacedInv, Typed
    <3> HIDE DEF j
    <3>3. j \in Jobs /\ <<>> \in Seq(Paths) /\ 0 \in Nat /\ "open" \in Stages \ {"hint", "load", "prove"}
      BY <1>2 DEF Stages, j
    <3>4. TaskOk(TaskFor(j, <<>>, <<>>, 0), "open", Sessions)
      BY <3>3, StartOk
    <3> QED
      BY <3>2, <3>4 DEF Task
  <2>2. CASE TakeProof(h) /\ fs = <<>>
    <3>1. Answer(h, NoReply)
      BY <2>2 DEF TakeProof
    <3> QED
      BY <1>1, <3>1, AnswerFacts, NoTaskOk DEF PlacedInv, Stages
  <2>3. CASE TakeProof(h) /\ fs # <<>>
    <3>1. task' = [task EXCEPT ![h] = TaskFor(j, fs, fs, salts')] /\ pc' = [pc EXCEPT ![h] = "hint"]
          /\ salts' \in Nat
      BY <2>3 DEF TakeProof
    <3> HIDE DEF fs, j
    <3>2. task'[h] = TaskFor(j, fs, fs, salts') /\ pc'[h] = "hint"
      BY <1>1, <3>1 DEF PlacedInv, Typed
    <3>3. j \in Jobs /\ "hint" \in Stages \ {"load", "prove"}
      BY <1>2 DEF Stages, j
    <3>4. TaskOk(TaskFor(j, fs, fs, salts'), "hint", Sessions)
      BY <1>5, <2>3, <3>1, <3>3, StartOk
    <3> QED
      BY <3>2, <3>4
  <2> QED
    BY <2>1, <2>2, <2>3
<1> QED
  BY <1>3, <1>4, <1>6 DEF BindInv

\* Every task is told of a write; what was read from other files stays what they hold.
LEMMA TouchOk ==
  ASSUME Typed, BindInv, NEW p \in Paths, NEW held,
         \A q \in Paths \ {p} : held[q] = Sessions[q]
  PROVE  /\ DOMAIN Touch(p) = Procs
         /\ \A b \in Procs : TaskOk(Touch(p)[b], pc[b], held)
<1>1. ASSUME NEW b \in Procs PROVE TaskOk(Touch(p)[b], pc[b], held)
  <2>1. Touch(p)[b] = [task[b] EXCEPT !.touched = @ \cup {p}] /\ TaskOk(task[b], pc[b], Sessions)
    BY DEF Touch, BindInv
  <2> QED
    BY <2>1, TouchedOk
<1> QED
  BY <1>1 DEF Touch

\* A file truncated under a proof is noted by the proof ...
LEMMA BindOpen == ASSUME PlacedInv, BindInv, NEW h \in Hosts, Open(h) PROVE BindInv'
<1> DEFINE p == saves[task[h].job.save].path
<1>1. /\ p \in Paths /\ files' = [files EXCEPT ![p] = <<>>] /\ UNCHANGED saves
      /\ pc' = [pc EXCEPT ![h] = "write"] /\ task' = Touch(p) /\ h \in Procs
  BY OpenFacts, Numbers DEF Open
<1> HIDE DEF p
<1>2. \A q \in Paths \ {p} : Sessions'[q] = Sessions[q]
  BY <1>1, SessionsElsewhere DEF PlacedInv
<1>3. \A b \in Procs : TaskOk(task'[b], pc[b], Sessions')
  BY <1>1, <1>2, TouchOk DEF PlacedInv
<1>4. pc'[h] = "write" /\ \A b \in Procs \ {h} : pc'[b] = pc[b]
  BY <1>1 DEF PlacedInv, Typed
<1>5. TaskOk(task'[h], "write", Sessions')
  BY <1>1, <1>3, IdleOk DEF Stages
<1> QED
  BY <1>3, <1>4, <1>5 DEF BindInv

\* ... and so is each block.
LEMMA BindWrite == ASSUME PlacedInv, BindInv, NEW h \in Hosts, Write(h) PROVE BindInv'
<1> DEFINE n == task[h].job.save
           p == saves[n].path
           k == task[h].at + 1
<1>1. /\ p \in Paths /\ files' = [files EXCEPT ![p] = Put(@, k, n)] /\ UNCHANGED saves
      /\ pc[h] = "write" /\ h \in Procs /\ k \in Nat
      /\ \A b \in Procs \ {h} : pc'[b] = pc[b]
      /\ pc' \in [Procs -> Stages]
  BY WriteFacts, Numbers
<1>2. IF k = saves[n].size
      THEN AnswerFrom(Touch(p), h, [NoReply EXCEPT !.ok = TRUE])
      ELSE task' = [Touch(p) EXCEPT ![h].at = k] /\ UNCHANGED pc
  BY DEF Write
<1>3. files' = [files EXCEPT ![p] = Put(files[p], k, n)]
  BY <1>1
<1> HIDE DEF n, p, k
<1>4. \A q \in Paths \ {p} : Sessions'[q] = Sessions[q]
  BY <1>1, <1>3, SessionsElsewhere DEF PlacedInv
<1>5. DOMAIN Touch(p) = Procs /\ \A b \in Procs : TaskOk(Touch(p)[b], pc[b], Sessions')
  BY <1>1, <1>4, TouchOk DEF PlacedInv
<1>6. CASE k = saves[n].size
  <2>1. /\ task' = [Touch(p) EXCEPT ![h] = NoTask]
        /\ pc' = [pc EXCEPT ![h] = IF h \in {Cli, current} THEN "idle" ELSE "dead"]
    BY <1>2, <1>6 DEF AnswerFrom
  <2>2. /\ task'[h] = NoTask /\ pc'[h] \in {"idle", "dead"}
        /\ \A b \in Procs \ {h} : task'[b] = Touch(p)[b]
    BY <1>1, <1>5, <2>1 DEF PlacedInv, Typed
  <2>3. TaskOk(task'[h], pc'[h], Sessions')
    BY <2>2, NoTaskOk DEF Stages
  <2> QED
    BY <1>1, <1>5, <2>2, <2>3 DEF BindInv
<1>7. CASE k # saves[n].size
  <2>1. task' = [Touch(p) EXCEPT ![h].at = k] /\ UNCHANGED pc
    BY <1>2, <1>7
  <2>2. /\ task'[h] = [Touch(p)[h] EXCEPT !.at = k]
        /\ \A b \in Procs \ {h} : task'[b] = Touch(p)[b]
    BY <1>1, <1>5, <2>1
  <2>3. TaskOk(task'[h], "write", Sessions')
    BY <1>1, <1>5, <2>2, CountedOk
  <2> QED
    BY <1>1, <1>5, <2>1, <2>2, <2>3 DEF BindInv
<1> QED
  BY <1>6, <1>7

\* Nothing was read at first.
LEMMA BindInit == Init => BindInv
<1> SUFFICES ASSUME Init, NEW a \in Procs PROVE TaskOk(task[a], pc[a], Sessions)
  BY DEF BindInv
<1>1. task[a] = NoTask /\ pc[a] \in {"idle", "dead"}
  BY DEF Init
<1> QED
  BY <1>1, NoTaskOk DEF Stages

\* Every step keeps what was read fresh.
LEMMA BindStep ==
  ASSUME PlacedInv, PlacedInv', OrderInv, BindInv, salts \in Nat, [Next]_vars
  PROVE  BindInv'
<1>1. ASSUME Sessions' = Sessions, UNCHANGED task,
             \A a \in Procs : pc'[a] = pc[a] \/ pc'[a] \in {"idle", "dead"}
      PROVE  BindInv'
  <2> SUFFICES ASSUME NEW a \in Procs PROVE TaskOk(task[a], pc'[a], Sessions)
    BY <1>1 DEF BindInv
  <2> QED
    BY <1>1, IdleOk DEF BindInv, Stages
<1>2. CASE PostSave
  BY <1>1, <1>2, SessionsPosted DEF PostSave
<1>3. CASE PostProof \/ ReplayNext \/ UNCHANGED vars
  <2>1. UNCHANGED <<files, saves, task, pc>>
    BY <1>3 DEF PostProof, ReplayNext, vars, store
  <2> QED
    BY <1>1, <2>1, SessionsKept
<1>4. CASE Drop
  <2>1. /\ UNCHANGED <<files, saves, task>>
        /\ \A a \in Procs : pc'[a] = pc[a] \/ pc'[a] \in {"idle", "dead"}
    BY <1>4, DropFacts DEF PlacedInv, store
  <2> QED
    BY <1>1, <2>1, SessionsKept
<1>5. ASSUME NEW a \in Procs, Kill(a) PROVE BindInv'
  <2>1. /\ UNCHANGED <<files, saves, task>>
        /\ \A b \in Procs : pc'[b] = pc[b] \/ pc'[b] \in {"idle", "dead"}
    BY <1>5, KillFacts DEF PlacedInv
  <2> QED
    BY <1>1, <2>1, SessionsKept
<1> QED
  BY <1>2, <1>3, <1>4, <1>5, NextCases, BindProofSteps, BindTake, BindOpen, BindWrite

\* When a proof is made, a fresh hint and a fresh session of one file are the same.
LEMMA BoundAtProve == BindInv => BindsUnlessSaved
<1> SUFFICES ASSUME BindInv, NEW a \in Procs, pc[a] = "prove", NEW k \in DOMAIN task[a].fields
             PROVE  Binds(task[a], k) \/ task[a].fields[k] \in task[a].touched
  BY DEF BindsUnlessSaved
<1> DEFINE t == task[a]
           p == t.fields[k]
<1>1. Walks(t, "prove") /\ Fresh(t, Sessions)
  BY DEF BindInv, TaskOk
<1>2. t.fields \in Seq(Paths) /\ t.load \in Seq(Paths)
  BY <1>1 DEF Walks, TaskType
<1> HIDE DEF t
<1>3. k \in 1..Len(t.fields) /\ p \in Paths /\ k \in 1..Len(t.hints)
  BY <1>1, <1>2 DEF Walks, t
<1>4. t.loaded[p] # 0
  <2>1. PICK m \in 1..Len(t.load) : t.load[m] = p
    BY <1>1, <1>3 DEF Walks
  <2> QED
    BY <1>1, <2>1 DEF Walks
<1>5. /\ t.loaded[p] = Sessions[p] \/ p \in t.touched
      /\ t.hints[k] \in {0, Sessions[p]} \/ p \in t.touched
  BY <1>1, <1>3, <1>4 DEF Fresh
<1> QED
  BY <1>5 DEF Binds, t


-----------------------------------------------------------------------------
(* All types *)

Answers == [ok : BOOLEAN, wanted : BOOLEAN, dev : BOOLEAN, salt : Nat]

\* What TypeOK says beyond Typed and BindInv.
Whole ==
  /\ files \in [Paths -> Seq(0..MaxSaves)]
  /\ spoilt \subseteq Paths /\ asked \in 0..MaxProofs
  /\ task = [a \in Procs |-> task[a]]
  /\ devMode \in [Procs -> BOOLEAN] /\ reply \in [Procs -> Answers]
  /\ salts \in Nat /\ output \in [proof : Nat, salt : Nat]

TypeInv == PlacedInv /\ OrderInv /\ BindInv /\ Whole

\* The parts give the type invariant.
LEMMA TypesOf == TypeInv => TypeOK
<1> SUFFICES ASSUME TypeInv PROVE TypeOK
  OBVIOUS
<1>1. \A a \in Procs : task[a] \in TaskType
  BY DEF TypeInv, BindInv, TaskOk, Walks
<1>2. task \in [Procs -> TaskType]
  BY <1>1 DEF TypeInv, Whole
<1>3. /\ saves \in Seq([path : Paths, size : Nat]) /\ Len(saves) <= MaxSaves /\ Len(saves) \in Nat
  <2> DEFINE Session == [path : Paths, size : Nat \ {0}]
             Wider == [path : Paths, size : Nat]
  <2>1. saves \in Seq(Session) /\ Len(saves) <= MaxSaves
    BY DEF TypeInv, PlacedInv, Typed
  <2>2. Session \subseteq Wider
    OBVIOUS
  <2> HIDE DEF Session, Wider
  <2>3. saves \in Seq(Wider) /\ Len(saves) \in Nat
    BY <2>1, <2>2
  <2> QED
    BY <2>1, <2>3 DEF Wider
<1>4. written \subseteq 1..MaxSaves /\ again \subseteq 0..MaxSaves
  BY <1>3, Numbers DEF TypeInv, OrderInv, Bounded, PlacedInv, Typed
<1> QED
  BY <1>2, <1>3, <1>4 DEF TypeOK, TypeInv, Whole, PlacedInv, Typed, Stages, TaskType, Answers

\* An answer has the type of answers.
LEMMA AnswerWhole ==
  ASSUME TypeInv, NEW a \in Procs, NEW r \in Answers, Answer(a, r)
  PROVE  reply' \in [Procs -> Answers] /\ task' = [b \in Procs |-> task'[b]]
<1>1. task' = [task EXCEPT ![a] = NoTask] /\ reply' = [reply EXCEPT ![a] = r]
  BY DEF Answer, AnswerFrom
<1>2. task' = [b \in Procs |-> IF b = a THEN NoTask ELSE task[b]]
  BY <1>1 DEF TypeInv, Whole
<1> QED
  BY <1>1, <1>2 DEF TypeInv, Whole

\* The answers that are given.
LEMMA RepliesTyped ==
  ASSUME TypeInv, NEW a \in Procs
  PROVE  /\ NoReply \in Answers /\ [NoReply EXCEPT !.ok = TRUE] \in Answers
         /\ ProofReply(a) \in Answers /\ task[a].salt \in Nat
<1>1. task[a].salt \in Nat /\ task[a].job.dev \in BOOLEAN
  BY DEF TypeInv, BindInv, TaskOk, Walks, TaskType, Jobs
<1>2. devMode[a] \in BOOLEAN
  BY DEF TypeInv, Whole
<1> QED
  BY <1>1, <1>2 DEF NoReply, ProofReply, Answers

\* The steps of proofs ...
LEMMA WholeProofSteps ==
  ASSUME TypeInv, ProofSteps
  PROVE  Whole'
<1>1. UNCHANGED <<files, spoilt, devMode>>
  BY ProofsCalm DEF TypeInv, PlacedInv, CalmWork, CalmFor, SameWork, store
<1>2. CASE RunCli
  <2>1. PICK t : task' = [task EXCEPT ![Cli] = t]
    BY <1>2 DEF RunCli
  <2>2. task' = [b \in Procs |-> IF b = Cli THEN t ELSE task[b]]
    BY <2>1 DEF TypeInv, Whole
  <2>3. asked' \in 0..MaxProofs /\ salts' \in Nat /\ UNCHANGED <<reply, output>>
    BY <1>2, Numbers DEF RunCli, TypeInv, Whole
  <2> QED
    BY <1>1, <2>2, <2>3 DEF TypeInv, Whole
<1>3. ASSUME NEW a \in Procs, Hint(a) PROVE Whole'
  <2>1. PICK t : task' = [task EXCEPT ![a] = t]
    BY <1>3 DEF Hint
  <2>2. task' = [b \in Procs |-> IF b = a THEN t ELSE task[b]]
    BY <2>1 DEF TypeInv, Whole
  <2>3. UNCHANGED <<asked, reply, salts, output>>
    BY <1>3 DEF Hint, counts, results
  <2> QED
    BY <1>1, <2>2, <2>3 DEF TypeInv, Whole
<1>4. ASSUME NEW a \in Procs, NEW r \in Answers, Answer(a, r), UNCHANGED <<asked, salts>>,
             output' \in [proof : Nat, salt : Nat]
      PROVE  Whole'
  BY <1>1, <1>4, AnswerWhole DEF TypeInv, Whole
<1>5. ASSUME NEW a \in Procs, Load(a) PROVE Whole'
  <2>1. UNCHANGED <<asked, salts, output>>
    BY <1>5 DEF Load, counts
  <2>2. CASE Answer(a, NoReply)
    BY <1>4, <2>1, <2>2, RepliesTyped DEF TypeInv, Whole
  <2>3. CASE ~Answer(a, NoReply)
    <3>1. (\E t : task' = [task EXCEPT ![a] = t]) /\ UNCHANGED reply
      BY <1>5, <2>3 DEF Load, LoadFailed
    <3>2. PICK t : task' = [task EXCEPT ![a] = t]
      BY <3>1
    <3>3. task' = [b \in Procs |-> IF b = a THEN t ELSE task[b]]
      BY <3>2 DEF TypeInv, Whole
    <3> QED
      BY <1>1, <2>1, <3>1, <3>3 DEF TypeInv, Whole
  <2> QED
    BY <2>2, <2>3
<1>6. CASE \E a \in Procs : Abort(a) \/ (a # Cli /\ Prove(a))
  <2>1. PICK a \in Procs : Answer(a, NoReply) \/ Answer(a, ProofReply(a))
    BY <1>6 DEF Abort, Prove
  <2>2. UNCHANGED <<asked, salts, output>>
    BY <1>6 DEF Abort, Prove, counts
  <2> QED
    BY <1>4, <2>1, <2>2, RepliesTyped DEF TypeInv, Whole
<1>7. CASE WriteProof
  <2>1. task[Cli].salt \in Nat
    BY RepliesTyped, Numbers
  <2>2. output' \in [proof : Nat, salt : Nat] /\ UNCHANGED <<asked, task, reply, salts>>
    BY <1>7, <2>1 DEF WriteProof, counts, TypeInv, Whole
  <2> QED
    BY <1>1, <2>2 DEF TypeInv, Whole
<1>8. CASE WriteSalt
  <2>1. task[Cli].salt \in Nat
    BY RepliesTyped, Numbers
  <2>2. output' \in [proof : Nat, salt : Nat] /\ UNCHANGED <<asked, salts>>
    BY <1>8, <2>1 DEF WriteSalt, SaltFile, counts, TypeInv, Whole
  <2>3. Answer(Cli, ProofReply(Cli))
    BY <1>8 DEF WriteSalt
  <2> QED
    BY <1>4, <2>2, <2>3, RepliesTyped, Numbers
<1> QED
  BY <1>2, <1>3, <1>5, <1>6, <1>7, <1>8 DEF ProofSteps

\* ... the messages taken ...
LEMMA WholeTake ==
  ASSUME TypeInv, NEW h \in Hosts, TakeSave(h) \/ TakeProof(h)
  PROVE  Whole'
<1>1. h \in Procs /\ UNCHANGED <<files, spoilt, asked, output>>
  BY Numbers DEF TakeSave, TakeProof, store, counts, results
<1>2. CASE TakeSave(h)
  <2>1. task' = [task EXCEPT ![h] = Task(Head(inbox[h]))] /\ UNCHANGED <<devMode, reply, salts>>
    BY <1>2 DEF TakeSave, results
  <2>2. task' = [b \in Procs |-> IF b = h THEN Task(Head(inbox[h])) ELSE task[b]]
    BY <2>1 DEF TypeInv, Whole
  <2> QED
    BY <1>1, <2>1, <2>2 DEF TypeInv, Whole
<1>3. CASE TakeProof(h)
  <2>1. Head(inbox[h]) \in Jobs
    BY <1>1, <1>3, TakeFacts DEF TypeInv, PlacedInv, TakeProof
  <2>2. Head(inbox[h]).dev \in BOOLEAN
    BY <2>1 DEF Jobs
  <2>3. salts' \in Nat /\ devMode' \in [Procs -> BOOLEAN]
    <3>1. salts' = salts + 1 /\ devMode' = [devMode EXCEPT ![h] = Head(inbox[h]).dev]
      BY <1>3 DEF TakeProof, DevModeFor
    <3>2. salts \in Nat /\ devMode \in [Procs -> BOOLEAN]
      BY DEF TypeInv, Whole
    <3>3. \A d \in BOOLEAN : [devMode EXCEPT ![h] = d] \in [Procs -> BOOLEAN]
      BY <3>2
    <3>4. devMode' \in [Procs -> BOOLEAN]
      BY <2>2, <3>1, <3>3, Zenon
    <3>5. salts' \in Nat
      BY <3>1, <3>2
    <3> QED
      BY <3>4, <3>5
  <2>4. CASE Answer(h, NoReply)
    BY <1>1, <2>3, <2>4, AnswerWhole, RepliesTyped DEF TypeInv, Whole
  <2>5. CASE ~Answer(h, NoReply)
    <3>1. (\E t : task' = [task EXCEPT ![h] = t]) /\ UNCHANGED reply
      BY <1>3, <2>5 DEF TakeProof
    <3>2. PICK t : task' = [task EXCEPT ![h] = t]
      BY <3>1
    <3>3. task' = [b \in Procs |-> IF b = h THEN t ELSE task[b]]
      BY <3>2 DEF TypeInv, Whole
    <3> QED
      BY <1>1, <2>3, <3>1, <3>3 DEF TypeInv, Whole
  <2> QED
    BY <2>4, <2>5
<1> QED
  BY <1>2, <1>3

\* A block more is still a content.
LEMMA PutTyped ==
  ASSUME NEW N \in Nat, NEW c \in Seq(0..N), NEW k \in Nat \ {0}, NEW n \in 0..N
  PROVE  Put(c, k, n) \in Seq(0..N)
<1>1. Len(c) \in Nat /\ \A i \in 1..Len(c) : c[i] \in 0..N
  OBVIOUS
<1> DEFINE m == IF k > Len(c) THEN k ELSE Len(c)
<1>2. m \in Nat
  BY <1>1
<1>3. \A i \in 1..m : (IF i = k THEN n ELSE IF i <= Len(c) THEN c[i] ELSE 0) \in 0..N
  BY <1>1
<1>4. Put(c, k, n) = [i \in 1..m |-> IF i = k THEN n ELSE IF i <= Len(c) THEN c[i] ELSE 0]
  BY DEF Put
<1> HIDE DEF m
<1>5. Put(c, k, n) \in [1..m -> 0..N]
  BY <1>3, <1>4
<1> QED
  BY <1>2, <1>5

\* ... and the writes keep the types of files and answers.
LEMMA WholeWrites ==
  ASSUME TypeInv, NEW h \in Hosts, Open(h) \/ Write(h)
  PROVE  Whole'
<1> DEFINE n == task[h].job.save
           p == saves[n].path
           k == task[h].at + 1
<1>1. h \in Procs /\ UNCHANGED <<asked, devMode, salts, output>>
  BY Numbers DEF Open, Write, counts, results
<1>2. p \in Paths /\ n \in 0..MaxSaves /\ k \in Nat \ {0}
  <2>1. pc[h] \in Saving
    BY DEF Open, Write, Saving
  <2>2. p \in Paths /\ n \in 1..Len(saves) /\ Len(saves) \in Nat
    BY <1>1, <2>1, SaveFacts DEF TypeInv
  <2>3. Len(saves) <= MaxSaves /\ task[h].at \in Nat
    BY <1>1 DEF TypeInv, PlacedInv, Typed, IsTask
  <2> QED
    BY <2>2, <2>3, Numbers
<1>3. Touch(p) = [b \in Procs |-> Touch(p)[b]]
  BY DEF Touch
<1>4. CASE Open(h)
  <2>1. /\ files' = [files EXCEPT ![p] = <<>>] /\ task' = Touch(p) /\ UNCHANGED reply
        /\ spoilt' \subseteq spoilt \cup {p}
    BY <1>4 DEF Open, Opened, results
  <2> HIDE DEF p
  <2>2. files' \in [Paths -> Seq(0..MaxSaves)]
    <3>1. <<>> \in Seq(0..MaxSaves)
      OBVIOUS
    <3>2. files \in [Paths -> Seq(0..MaxSaves)]
      BY DEF TypeInv, Whole
    <3> QED
      BY <2>1, <3>1, <3>2
  <2> QED
    BY <1>1, <1>2, <1>3, <2>1, <2>2 DEF TypeInv, Whole
<1>5. CASE Write(h)
  <2>1. /\ files' = [files EXCEPT ![p] = Put(@, k, n)] /\ UNCHANGED spoilt
        /\ IF k = saves[n].size
           THEN AnswerFrom(Touch(p), h, [NoReply EXCEPT !.ok = TRUE])
           ELSE task' = [Touch(p) EXCEPT ![h].at = k] /\ UNCHANGED reply
    BY <1>5 DEF Write
  <2> HIDE DEF p, n, k
  <2>2. files' \in [Paths -> Seq(0..MaxSaves)]
    <3>1. files \in [Paths -> Seq(0..MaxSaves)]
      BY DEF TypeInv, Whole
    <3>2. Put(files[p], k, n) \in Seq(0..MaxSaves)
      BY <1>2, <3>1, PutTyped, Numbers
    <3> QED
      BY <2>1, <3>1, <3>2
  <2>3. (\E t : task' = [Touch(p) EXCEPT ![h] = t]) /\ reply' \in [Procs -> Answers]
    <3>1. CASE k = saves[n].size
      <4>1. /\ task' = [Touch(p) EXCEPT ![h] = NoTask]
            /\ reply' = [reply EXCEPT ![h] = [NoReply EXCEPT !.ok = TRUE]]
        BY <2>1, <3>1 DEF AnswerFrom
      <4> QED
        BY <1>1, <4>1, RepliesTyped DEF TypeInv, Whole
    <3>2. CASE k # saves[n].size
      <4>1. task' = [Touch(p) EXCEPT ![h] = [Touch(p)[h] EXCEPT !.at = k]] /\ reply' = reply
        BY <2>1, <3>2
      <4> QED
        BY <1>1, <4>1, RepliesTyped DEF TypeInv, Whole
    <3> QED
      BY <3>1, <3>2
  <2>4. PICK t : task' = [Touch(p) EXCEPT ![h] = t]
    BY <2>3
  <2>5. task' = [b \in Procs |-> IF b = h THEN t ELSE Touch(p)[b]]
    BY <1>3, <2>4
  <2> QED
    BY <1>1, <2>1, <2>2, <2>3, <2>5 DEF TypeInv, Whole
<1> QED
  BY <1>4, <1>5

\* Every step does.
LEMMA WholeStep == ASSUME TypeInv, [Next]_vars PROVE Whole'
<1>1. CASE PostSave \/ Drop \/ ReplayNext \/ UNCHANGED vars
  BY <1>1 DEF PostSave, Drop, ReplayNext, vars, store, counts, channel, results, TypeInv, Whole
<1>2. CASE PostProof
  <2>1. asked' \in 0..MaxProofs
    BY <1>2, Numbers DEF PostProof, TypeInv, Whole
  <2> QED
    BY <1>2, <2>1 DEF PostProof, store, results, TypeInv, Whole
<1>3. ASSUME NEW a \in Procs, Kill(a) PROVE Whole'
  BY <1>3 DEF Kill, channel, results, TypeInv, Whole
<1> QED
  BY <1>1, <1>2, <1>3, NextCases, WholeProofSteps, WholeTake, WholeWrites

\* The invariant of the theorems holds at first ...
LEMMA TypeInit == Init => TypeInv
<1> SUFFICES ASSUME Init PROVE TypeInv
  OBVIOUS
<1>1. <<>> \in Seq(0..MaxSaves) /\ NoReply \in Answers
  BY DEF NoReply, Answers
<1>2. Whole
  BY <1>1, Numbers DEF Init, Whole
<1> QED
  BY <1>2, PlacedInit, OrderInit, BindInit DEF TypeInv

\* ... and is kept.
LEMMA TypeStep == ASSUME TypeInv, [Next]_vars PROVE TypeInv'
<1>1. salts \in Nat
  BY DEF TypeInv, Whole
<1>2. PlacedInv' /\ OrderInv'
  BY PlacedStep, OrderStep DEF TypeInv
<1>3. BindInv'
  BY <1>1, <1>2, BindStep DEF TypeInv
<1> QED
  BY <1>2, <1>3, WholeStep DEF TypeInv

\* Every variable keeps its type; in particular a hint or a session always comes
\* from a save that was posted, and a position never leaves what it counts.
THEOREM TypesKept == Spec => []TypeOK
  BY TypeInit, TypeStep, TypesOf, PTL DEF Spec

\* "Compute the value hint on the host with the SAME logic the guest uses, so the
\* guest's in-circuit binding assertion is satisfied" (main.rs 845): the two reads of
\* a file yield the same session unless the file was written since the job began.
THEOREM HintsBind == Spec => []BindsUnlessSaved
<1>1. TypeInv => BindsUnlessSaved
  BY BoundAtProve DEF TypeInv
<1> QED
  BY <1>1, TypeInit, TypeStep, PTL DEF Spec
=============================================================================
