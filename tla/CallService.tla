---------------------------- MODULE CallService ----------------------------
(***************************************************************************)
(* What a caller of nativeCall (background.js) may rely on: every call it  *)
(* issues is settled exactly once, either with an answer that follows an   *)
(* execution of that very call by the host, or with a failure; and the     *)
(* host executes the request at most twice, because a request is posted at *)
(* most twice.  How ports drop and are re-opened is not visible here.      *)
(***************************************************************************)
EXTENDS Naturals

CONSTANT MaxCalls   \* bound: number of calls issued

VARIABLES
  issued,   \* the last id handed out, background.js msgId
  result,   \* call -> "none" | "answered" | "failed"
  runs      \* call -> how many times a host executed the request

svars == <<issued, result, runs>>

CallIds == 1..MaxCalls

Init ==
  /\ issued = 0
  /\ result = [c \in CallIds |-> "none"]
  /\ runs = [c \in CallIds |-> 0]

\* A caller issues the next call.
Issue ==
  /\ issued < MaxCalls
  /\ issued' = issued + 1
  /\ UNCHANGED <<result, runs>>

\* A caller issues the next call, which fails at once.
IssueFailing ==
  /\ issued < MaxCalls
  /\ issued' = issued + 1
  /\ result' = [result EXCEPT ![issued + 1] = "failed"]
  /\ UNCHANGED runs

\* A host executes an issued call, for the first or the second time.
Execute(c) ==
  /\ c <= issued
  /\ runs[c] < 2
  /\ runs' = [runs EXCEPT ![c] = @ + 1]
  /\ UNCHANGED <<issued, result>>

\* The call resolves with the reply to its own execution.
Answer(c) ==
  /\ c <= issued
  /\ result[c] = "none"
  /\ runs[c] > 0
  /\ result' = [result EXCEPT ![c] = "answered"]
  /\ UNCHANGED <<issued, runs>>

\* The call resolves with an error the extension produced itself.
Fail(c) ==
  /\ c <= issued
  /\ result[c] = "none"
  /\ result' = [result EXCEPT ![c] = "failed"]
  /\ UNCHANGED <<issued, runs>>

Next ==
  \/ Issue \/ IssueFailing
  \/ \E c \in CallIds : Execute(c) \/ Answer(c) \/ Fail(c)

Spec == Init /\ [][Next]_svars

\* Every issued call is settled in the end.
FairSpec == Spec /\ \A c \in CallIds : WF_svars(Answer(c) \/ Fail(c))
=============================================================================
