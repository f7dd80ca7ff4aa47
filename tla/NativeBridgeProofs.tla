------------------------- MODULE NativeBridgeProofs -------------------------
(***************************************************************************)
(* Proofs about NativeBridge, for every number of calls, lost ports and    *)
(* refused connections.                                                    *)
(***************************************************************************)
EXTENDS NativeBridge, SequenceTheorems, TLAPS

-----------------------------------------------------------------------------
(* Sequences *)

\* Removing an element keeps the others, in order.
LEMMA RemoveAtProperties ==
  ASSUME NEW S, NEW s \in Seq(S), NEW k \in 1..Len(s)
  PROVE  /\ RemoveAt(s, k) \in Seq(S)
         /\ Len(RemoveAt(s, k)) = Len(s) - 1
         /\ \A j \in 1..(Len(s) - 1) :
              RemoveAt(s, k)[j] = IF j < k THEN s[j] ELSE s[j + 1]
<1> DEFINE l == SubSeq(s, 1, k - 1)
           r == SubSeq(s, k + 1, Len(s))
<1>0. Len(s) \in Nat /\ k \in Nat
  BY LenProperties
<1>1. /\ l \in Seq(S) /\ Len(l) = k - 1
      /\ \A j \in 1..(k - 1) : l[j] = s[j]
  <2>1. \A j \in 1..(k - 1) : s[j] \in S
    BY <1>0, ElementOfSeq
  <2> QED BY <1>0, <2>1, SubSeqProperties
<1>2. /\ r \in Seq(S) /\ Len(r) = Len(s) - k
      /\ \A j \in 1..(Len(s) - k) : r[j] = s[k + j]
  <2>1. \A j \in (k + 1)..Len(s) : s[j] \in S
    BY <1>0, ElementOfSeq
  <2>2. /\ r \in Seq(S)
        /\ Len(r) = IF k + 1 <= Len(s) THEN Len(s) - (k + 1) + 1 ELSE 0
        /\ \A j \in 1..(Len(s) - (k + 1) + 1) : r[j] = s[(k + 1) + j - 1]
    BY <1>0, <2>1, SubSeqProperties
  <2> QED BY <1>0, <2>2
<1>3. RemoveAt(s, k) = l \o r
  BY DEF RemoveAt
<1> HIDE DEF l, r
<1>4. /\ l \o r \in Seq(S)
      /\ Len(l \o r) = Len(l) + Len(r)
      /\ \A j \in 1..(Len(l) + Len(r)) :
           (l \o r)[j] = IF j <= Len(l) THEN l[j] ELSE r[j - Len(l)]
  BY <1>1, <1>2, ConcatProperties
<1>5. Len(l) + Len(r) = Len(s) - 1
  BY <1>0, <1>1, <1>2
<1>6. ASSUME NEW j \in 1..(Len(s) - 1)
      PROVE  RemoveAt(s, k)[j] = IF j < k THEN s[j] ELSE s[j + 1]
  <2>1. CASE j < k
    BY <2>1, <1>0, <1>1, <1>3, <1>4, <1>5
  <2>2. CASE ~(j < k)
    <3>1. j - Len(l) \in 1..(Len(s) - k) /\ k + (j - Len(l)) = j + 1 /\ ~(j <= Len(l))
      BY <2>2, <1>0, <1>1
    <3>2. r[j - Len(l)] = s[k + (j - Len(l))]
      BY <3>1, <1>2
    <3> QED BY <2>2, <3>1, <3>2, <1>3, <1>4, <1>5
  <2> QED BY <2>1, <2>2
<1> QED BY <1>3, <1>4, <1>5, <1>6

-----------------------------------------------------------------------------
(* Types *)

\* The constants of the bridge's types.
LEMMA Constants ==
  /\ MaxCalls \in Nat
  /\ PING_ID \notin Calls
  /\ Unsettled \in Outcomes
  /\ \A id \in Ids : Reply(id) \in Outcomes
  /\ \A kind \in {"lost", "unreachable", "unposted"} : Failure(kind) \in Outcomes
  /\ FreshPort \in Ports
BY BoundsAssumption
   DEF PING_ID, Calls, Ids, Unsettled, Outcomes, Reply, Failure, FreshPort, Ports

\* A timer armed with ids of calls is well typed.
LEMMA ArmType ==
  ASSUME NEW ts \in Seq(Timers), NEW ids \in SUBSET Calls,
         NEW delay \in {Reconnect, RetryConnect, Unreachable}
  PROVE  Arm(ts, delay, ids) \in Seq(Timers)
BY AppendProperties DEF Arm, Timers

\* Whether or not connectNative() succeeds, the ports stay well typed.
LEMMA ConnectType ==
  ASSUME TypeOK, NEW ok \in BOOLEAN, ConnectNative(ok)
  PROVE  /\ opened' \in Nat
         /\ nativePort' \in 0..opened'
         /\ port' \in [1..opened' -> Ports]
         /\ refusals' \in Nat
BY Constants DEF TypeOK, ConnectNative

LEMMA AfterConnectType ==
  ASSUME NEW ts \in Seq(Timers), NEW ok \in BOOLEAN
  PROVE  AfterConnect(ok, ts) \in Seq(Timers)
BY ArmType DEF AfterConnect

\* A timer that has fired leaves the others.
LEMMA FiredType ==
  ASSUME TypeOK, NEW k \in 1..Len(timers)
  PROVE  /\ timers[k] \in Timers
         /\ RemoveAt(timers, k) \in Seq(Timers)
BY RemoveAtProperties, ElementOfSeq DEF TypeOK

\* Posting on the current port keeps the types.
LEMMA PostType ==
  ASSUME TypeOK, NEW id \in Calls, nativePort # NoPort, Post(id)
  PROVE  /\ port' \in [1..opened -> Ports]
         /\ posts' \in [Calls -> Nat]
<1>1. nativePort \in 1..opened
  BY DEF TypeOK, NoPort
<1>2. port[nativePort] \in Ports
  BY <1>1 DEF TypeOK
<1>3. Append(port[nativePort].inbox, id) \in Seq(Ids)
  BY <1>2, AppendProperties DEF Ports, Ids
<1> DEFINE inbox == IF port[nativePort].state = "open" THEN Append(port[nativePort].inbox, id)
                    ELSE port[nativePort].inbox
<1>4. inbox \in Seq(Ids)
  BY <1>2, <1>3 DEF Ports
<1>5. port' = [port EXCEPT ![nativePort].inbox = inbox]
  BY DEF Post
<1> HIDE DEF inbox
<1>6. port' \in [1..opened -> Ports]
  BY <1>1, <1>2, <1>4, <1>5 DEF TypeOK, Ports
<1>7. posts' \in [Calls -> Nat]
  BY DEF Post, TypeOK
<1> QED BY <1>6, <1>7

\* Settling a call keeps the types.
LEMMA SettleType ==
  ASSUME TypeOK, NEW id \in Calls, NEW result \in Outcomes, Settle(id, result)
  PROVE  /\ pendingCallbacks' \subseteq Calls
         /\ pendingMessages' \subseteq Calls
         /\ outcome' \in [Calls -> Outcomes]
BY DEF TypeOK, Settle

LEMMA InitType == Init => TypeOK
<1> SUFFICES ASSUME Init PROVE TypeOK
  OBVIOUS
<1>1. /\ opened \in Nat /\ nativePort \in 0..opened
      /\ port \in [1..opened -> Ports] /\ refusals \in Nat
  <2>1. CASE opened = 1
    <3>1. nativePort = 1 /\ port = [p \in 1..1 |-> FreshPort] /\ refusals = 0
      BY <2>1 DEF Init
    <3> QED BY <2>1, <3>1, Constants
  <2>2. CASE opened # 1
    <3>1. /\ opened = 0 /\ nativePort = 0 /\ refusals = 1
          /\ port = [p \in 1..0 |-> FreshPort]
      BY <2>2 DEF Init, NoPort
    <3> QED BY <3>1
  <2> QED BY <2>1, <2>2
<1>2. timers \in Seq(Timers)
  BY ArmType, EmptySeq DEF Init
<1> QED BY <1>1, <1>2, Constants DEF Init, TypeOK

\* One case per action.
LEMMA NextType == TypeOK /\ [Next]_vars => TypeOK'
<1> SUFFICES ASSUME TypeOK, [Next]_vars PROVE TypeOK'
  OBVIOUS
<1> USE DEF TypeOK
<1>1. CASE NativeCall
  <2> DEFINE id == msgId + 1
  <2>1. id \in Calls /\ msgId' = id /\ msgId' \in 0..MaxCalls
    BY <1>1, Constants DEF NativeCall, Calls
  <2>2. /\ pendingCallbacks' \subseteq Calls
        /\ pendingMessages' \subseteq Calls
    BY <1>1, <2>1 DEF NativeCall
  <2>3. outcome' \in [Calls -> Outcomes]
    BY <1>1, <2>1, Constants DEF NativeCall
  <2>4. /\ opened' \in Nat /\ nativePort' \in 0..opened'
        /\ port' \in [1..opened' -> Ports] /\ refusals' \in Nat
        /\ timers' \in Seq(Timers)
        /\ posts' \in [Calls -> Nat]
    <3>1. CASE nativePort = NoPort
      <4>1. PICK ok \in BOOLEAN : /\ ConnectNative(ok)
                                  /\ timers' = Arm(AfterConnect(ok, timers), Unreachable, {id})
                                  /\ posts' = posts
        BY <1>1, <3>1 DEF NativeCall
      <4>2. timers' \in Seq(Timers)
        BY <4>1, <2>1, AfterConnectType, ArmType
      <4> QED BY <4>1, <4>2, ConnectType
    <3>2. CASE nativePort # NoPort
      <4>1. /\ UNCHANGED <<nativePort, opened, timers, refusals>>
            /\ \/ Post(id)
               \/ UNCHANGED <<port, posts>>
        BY <1>1, <3>2 DEF NativeCall
      <4> QED BY <3>2, <4>1, <2>1, PostType
    <3> QED BY <3>1, <3>2
  <2>5. UNCHANGED <<retriedOnce, replay, drops, runs>>
    BY <1>1 DEF NativeCall
  <2> HIDE DEF id
  <2> QED BY <2>1, <2>2, <2>3, <2>4, <2>5
<1>2. ASSUME NEW p \in 1..opened, OnMessage(p) PROVE TypeOK'
  <2> DEFINE id == Head(port[p].outbox)
  <2>1. /\ port[p] \in Ports
        /\ id \in Ids
        /\ Tail(port[p].outbox) \in Seq(Ids)
    BY <1>2, HeadTailProperties DEF OnMessage, Ports
  <2>2. port' = [port EXCEPT ![p].outbox = Tail(port[p].outbox)]
    BY <1>2 DEF OnMessage
  <2>3. port' \in [1..opened -> Ports]
    BY <2>1, <2>2 DEF Ports
  <2>4. UNCHANGED <<nativePort, opened, msgId, timers, replay, drops, refusals, posts, runs>>
    BY <1>2 DEF OnMessage
  <2>5. /\ pendingCallbacks' \subseteq Calls
        /\ pendingMessages' \subseteq Calls
        /\ outcome' \in [Calls -> Outcomes]
        /\ retriedOnce' \subseteq Calls
    <3>1. CASE Recipient(id) = {}
      BY <1>2, <3>1 DEF OnMessage
    <3>2. CASE Recipient(id) # {}
      <4>1. PICK c \in Recipient(id) : /\ Settle(c, Reply(id))
                                       /\ retriedOnce' = retriedOnce \ {c}
        BY <1>2, <3>2 DEF OnMessage
      <4>2. c \in Calls
        BY DEF Recipient
      <4> QED BY <4>1, <4>2, <2>1, SettleType, Constants
    <3> QED BY <3>1, <3>2
  <2> QED BY <2>3, <2>4, <2>5
<1>3. ASSUME NEW p \in 1..opened, OnDisconnect(p) PROVE TypeOK'
  <2>1. port' \in [1..opened -> Ports]
    BY <1>3, EmptySeq DEF OnDisconnect, Ports
  <2>2. timers' \in Seq(Timers)
    BY <1>3, ArmType DEF OnDisconnect, Rearm, Snapshot
  <2> QED BY <1>3, <2>1, <2>2 DEF OnDisconnect, NoPort, calls, history
<1>4. ASSUME NEW k \in 1..Len(timers), FireReconnect(k) PROVE TypeOK'
  <2>1. PICK ok \in BOOLEAN : /\ ConnectNative(ok)
                              /\ timers' = AfterConnect(ok, RemoveAt(timers, k))
    BY <1>4 DEF FireReconnect
  <2>2. timers' \in Seq(Timers)
    BY <2>1, FiredType, AfterConnectType
  <2> QED BY <1>4, <2>1, <2>2, ConnectType DEF FireReconnect, calls, history
<1>5. ASSUME NEW k \in 1..Len(timers), FireRetryConnect(k) PROVE TypeOK'
  <2>1. PICK ok \in BOOLEAN : /\ ConnectNative(ok)
                              /\ timers' = AfterConnect(ok, RemoveAt(timers, k))
    BY <1>5 DEF FireRetryConnect
  <2>2. timers' \in Seq(Timers)
    BY <2>1, FiredType, AfterConnectType
  <2> QED BY <1>5, <2>1, <2>2, ConnectType DEF FireRetryConnect, calls, history
<1>6. ASSUME NEW k \in 1..Len(timers), FireUnreachable(k) PROVE TypeOK'
  <2>1. timers' \in Seq(Timers)
    BY <1>6, FiredType DEF FireUnreachable
  <2>2. /\ pendingCallbacks' \subseteq Calls
        /\ pendingMessages' \subseteq Calls
        /\ outcome' \in [Calls -> Outcomes]
    BY <1>6, SettleType, Constants DEF FireUnreachable
  <2> QED BY <1>6, <2>1, <2>2 DEF FireUnreachable
<1>7. ASSUME NEW id \in replay, ReplayNext(id) PROVE TypeOK'
  <2>1. id \in Calls
    OBVIOUS
  <2>2. /\ pendingCallbacks' \subseteq Calls
        /\ pendingMessages' \subseteq Calls
        /\ outcome' \in [Calls -> Outcomes]
    BY <1>7, <2>1, SettleType, Constants DEF ReplayNext
  <2>3. port' \in [1..opened -> Ports] /\ posts' \in [Calls -> Nat]
    BY <1>7, <2>1, PostType DEF ReplayNext, Replayable
  <2> QED BY <1>7, <2>1, <2>2, <2>3 DEF ReplayNext
<1>8. ASSUME NEW p \in 1..opened, HostRead(p) PROVE TypeOK'
  <2> DEFINE id == Head(port[p].inbox)
  <2>1. /\ port[p] \in Ports
        /\ id \in Ids
        /\ Tail(port[p].inbox) \in Seq(Ids)
    BY <1>8, HeadTailProperties DEF HostRead, Ports
  <2>2. port' = [port EXCEPT ![p].inbox = Tail(port[p].inbox), ![p].running = {id}]
    BY <1>8 DEF HostRead
  <2>3. port' \in [1..opened -> Ports]
    BY <2>1, <2>2 DEF Ports
  <2>4. runs' \in [Calls -> Nat]
    BY <1>8, <2>1, SMTT(30) DEF HostRead, Ids
  <2> QED BY <1>8, <2>3, <2>4 DEF HostRead, calls
<1>9. ASSUME NEW p \in 1..opened, HostReply(p) PROVE TypeOK'
  <2>1. port[p] \in Ports
    OBVIOUS
  <2>2. PICK id \in port[p].running :
          port' = [port EXCEPT ![p].running = {}, ![p].outbox = Append(port[p].outbox, id)]
    BY <1>9 DEF HostReply
  <2>3. Append(port[p].outbox, id) \in Seq(Ids)
    BY <2>1, AppendProperties DEF Ports
  <2>4. port' \in [1..opened -> Ports]
    BY <2>1, <2>2, <2>3 DEF Ports
  <2> QED BY <1>9, <2>4 DEF HostReply, calls, history
<1>10. ASSUME NEW p \in 1..opened, PortDrop(p) PROVE TypeOK'
  <2>1. port' \in [1..opened -> Ports]
    BY <1>10, EmptySeq, ZenonT(60) DEF PortDrop, Ports
  <2> QED BY <1>10, <2>1 DEF PortDrop, calls, history
<1>11. CASE UNCHANGED vars
  BY <1>11 DEF vars, calls, history
<1> QED
  BY <1>1, <1>2, <1>3, <1>4, <1>5, <1>6, <1>7, <1>8, <1>9, <1>10, <1>11
  DEF Next, WorkerStep, HostStep

\* Every variable keeps its type, in every run and for all bounds.
THEOREM TypeInvariant == Spec => []TypeOK
BY InitType, NextType, PTL DEF Spec

-----------------------------------------------------------------------------
(* Calls: what is pending, what was posted *)

\* A call not yet made has no outcome and was not posted.
Numbered == \A c \in Calls : c > msgId => outcome[c] = Unsettled /\ posts[c] = 0

\* The replay loop visits pending calls only.
Visiting == replay \subseteq pendingCallbacks

CallsInv == PendingInStep /\ Numbered /\ Visiting /\ BoundedReplay

\* What a step may do to the outcomes.
Final == \A c \in Calls : outcome[c] # Unsettled => outcome'[c] = outcome[c]

\* A reply and a failure settle a promise.
LEMMA Results ==
  /\ \A id : Reply(id) # Unsettled
  /\ \A kind \in {"lost", "unreachable", "unposted"} : Failure(kind) # Unsettled
BY DEF Reply, Failure, Unsettled

LEMMA CallsFrame ==
  ASSUME CallsInv,
         UNCHANGED <<msgId, pendingCallbacks, pendingMessages, retriedOnce, replay,
                     outcome, posts>>
  PROVE  CallsInv' /\ Final
BY DEF CallsInv, PendingInStep, Numbered, Visiting, BoundedReplay, Final

\* Settling a pending call.
LEMMA CallsSettle ==
  ASSUME TypeOK, CallsInv,
         NEW id \in pendingCallbacks, NEW result, result # Unsettled, Settle(id, result),
         msgId' = msgId, posts' = posts,
         retriedOnce \ {id} \subseteq retriedOnce', replay' \subseteq replay \ {id}
  PROVE  CallsInv' /\ Final
<1>1. /\ id \in 1..msgId /\ id \in Calls /\ outcome[id] = Unsettled
      /\ msgId \in Nat
  BY DEF TypeOK, CallsInv, PendingInStep
<1>2. /\ \A c \in Calls : outcome'[c] = IF c = id THEN result ELSE outcome[c]
      /\ pendingCallbacks' = pendingCallbacks \ {id}
      /\ pendingMessages' = pendingMessages \ {id}
  BY DEF Settle, TypeOK
<1>3. \A c \in 1..msgId : c \in Calls
  BY Constants DEF TypeOK, Calls
<1>4. PendingInStep'
  BY <1>1, <1>2, <1>3 DEF CallsInv, PendingInStep
<1>5. Numbered'
  BY <1>1, <1>2 DEF CallsInv, Numbered
<1>6. Visiting'
  BY <1>2 DEF CallsInv, Visiting
<1>7. BoundedReplay'
  BY <1>2 DEF CallsInv, BoundedReplay
<1>8. Final
  BY <1>1, <1>2 DEF Final
<1> QED BY <1>4, <1>5, <1>6, <1>7, <1>8 DEF CallsInv

\* Every posted message is counted.
LEMMA PostCounts ==
  ASSUME TypeOK, NEW id \in Calls, Post(id)
  PROVE  \A c \in Calls : posts'[c] = IF c = id THEN posts[c] + 1 ELSE posts[c]
BY DEF Post, TypeOK

LEMMA CallsNext == TypeOK /\ CallsInv /\ [Next]_vars => CallsInv' /\ Final
<1> SUFFICES ASSUME TypeOK, CallsInv, [Next]_vars PROVE CallsInv' /\ Final
  OBVIOUS
<1>1. CASE NativeCall
  <2> DEFINE id == msgId + 1
  <2>1. /\ id \in Calls /\ msgId' = id /\ msgId \in Nat
        /\ outcome[id] = Unsettled /\ posts[id] = 0
        /\ id \notin pendingCallbacks
        /\ retriedOnce' = retriedOnce /\ replay = {} /\ replay' = {}
    BY <1>1, Constants
    DEF NativeCall, Calls, TypeOK, CallsInv, Numbered, PendingInStep, Quiet
  <2>2. /\ \A c \in Calls \ {id} : outcome'[c] = outcome[c] /\ posts'[c] = posts[c]
        /\ posts'[id] \in {0, 1}
        /\ \/ /\ pendingCallbacks' = pendingCallbacks \cup {id}
              /\ pendingMessages' = pendingMessages \cup {id}
              /\ outcome' = outcome
           \/ /\ UNCHANGED <<pendingCallbacks, pendingMessages>>
              /\ outcome'[id] # Unsettled
    <3>1. CASE nativePort = NoPort
      BY <1>1, <2>1, <3>1 DEF NativeCall
    <3>2. CASE nativePort # NoPort /\ Post(id) /\ outcome' = outcome
      BY <1>1, <2>1, <3>2, PostCounts DEF NativeCall
    <3>3. CASE nativePort # NoPort /\ ~(Post(id) /\ outcome' = outcome)
      <4>1. /\ outcome' = [outcome EXCEPT ![id] = Failure("unposted")]
            /\ UNCHANGED <<pendingCallbacks, pendingMessages, posts>>
        BY <1>1, <3>3 DEF NativeCall
      <4> QED BY <4>1, <2>1, Results DEF TypeOK
    <3> QED BY <3>1, <3>2, <3>3
  <2> HIDE DEF id
  <2>3. 1..msgId' = 1..msgId \cup {id} /\ id \notin 1..msgId /\ 1..msgId \subseteq Calls
    BY <2>1, Constants DEF id, TypeOK, Calls
  <2>4. PendingInStep'
    BY <2>1, <2>2, <2>3 DEF CallsInv, PendingInStep
  <2>5. Numbered'
    BY <2>1, <2>2 DEF CallsInv, Numbered, id, Calls
  <2>6. Visiting' /\ BoundedReplay'
    BY <2>1, <2>2 DEF CallsInv, Visiting, BoundedReplay
  <2>7. Final
    BY <2>1, <2>2 DEF Final
  <2> QED BY <2>4, <2>5, <2>6, <2>7 DEF CallsInv
<1>2. ASSUME NEW p \in 1..opened, OnMessage(p) PROVE CallsInv' /\ Final
  <2> DEFINE id == Head(port[p].outbox)
  <2>1. CASE Recipient(id) = {}
    BY <1>2, <2>1, CallsFrame DEF OnMessage
  <2>2. CASE Recipient(id) # {}
    <3>1. PICK c \in Recipient(id) : /\ Settle(c, Reply(id))
                                     /\ retriedOnce' = retriedOnce \ {c}
      BY <1>2, <2>2 DEF OnMessage
    <3>2. c \in pendingCallbacks
      BY DEF Recipient
    <3>3. msgId' = msgId /\ posts' = posts /\ replay = {} /\ replay' = {}
      BY <1>2 DEF OnMessage, Quiet
    <3> QED BY <3>1, <3>2, <3>3, Results, CallsSettle
  <2> QED BY <2>1, <2>2
<1>3. ASSUME NEW p \in 1..opened, OnDisconnect(p) PROVE CallsInv' /\ Final
  BY <1>3, CallsFrame DEF OnDisconnect, calls, history
<1>4. ASSUME NEW k \in 1..Len(timers), FireReconnect(k) PROVE CallsInv' /\ Final
  <2>1. /\ UNCHANGED <<msgId, pendingCallbacks, pendingMessages, retriedOnce, outcome, posts>>
        /\ replay' \subseteq pendingCallbacks
    BY <1>4 DEF FireReconnect, calls, history
  <2> QED BY <2>1 DEF CallsInv, PendingInStep, Numbered, Visiting, BoundedReplay, Final
<1>5. ASSUME NEW k \in 1..Len(timers), FireRetryConnect(k) PROVE CallsInv' /\ Final
  BY <1>5, CallsFrame DEF FireRetryConnect, calls, history
<1>6. ASSUME NEW k \in 1..Len(timers), FireUnreachable(k) PROVE CallsInv' /\ Final
  <2>1. UNCHANGED <<msgId, retriedOnce, replay, posts>> /\ replay = {}
    BY <1>6 DEF FireUnreachable, Quiet
  <2>2. CASE timers[k].ids \cap pendingCallbacks = {}
    BY <1>6, <2>1, <2>2, CallsFrame DEF FireUnreachable
  <2>3. CASE timers[k].ids \cap pendingCallbacks # {}
    <3>1. PICK id \in timers[k].ids \cap pendingCallbacks : Settle(id, Failure("unreachable"))
      BY <1>6, <2>3 DEF FireUnreachable
    <3> QED BY <2>1, <3>1, Results, CallsSettle
  <2> QED BY <2>2, <2>3
<1>7. ASSUME NEW id \in replay, ReplayNext(id) PROVE CallsInv' /\ Final
  <2>1. /\ id \in pendingCallbacks /\ id \in Calls
        /\ msgId' = msgId /\ replay' = replay \ {id}
    BY <1>7 DEF CallsInv, Visiting, TypeOK, ReplayNext
  <2>2. CASE Replayable(id) /\ Post(id) /\ retriedOnce' = retriedOnce \cup {id}
             /\ UNCHANGED <<pendingCallbacks, pendingMessages, outcome>>
    <3>1. posts[id] < 2
      BY <2>1, <2>2 DEF CallsInv, PendingInStep, BoundedReplay, Replayable, TypeOK
    <3>2. posts'[id] = posts[id] + 1 /\ \A c \in Calls \ {id} : posts'[c] = posts[c]
      BY <2>1, <2>2, PostCounts
    <3>3. BoundedReplay'
      BY <2>1, <2>2, <3>1, <3>2 DEF CallsInv, BoundedReplay, TypeOK
    <3>4. Numbered'
      <4>1. id <= msgId
        BY <2>1 DEF CallsInv, PendingInStep
      <4>2. \A c \in Calls : c > msgId => c # id
        BY <4>1 DEF TypeOK, Calls
      <4>3. posts'[id] = posts[id] + 1 /\ outcome' = outcome
        BY <2>2, <3>2
      <4> QED BY <2>1, <3>2, <4>2, <4>3 DEF CallsInv, Numbered
    <3> QED BY <2>1, <2>2, <3>3, <3>4 DEF CallsInv, PendingInStep, Visiting, Final
  <2>3. CASE posts' = posts /\ retriedOnce' = retriedOnce \ {id} /\ Settle(id, Failure("lost"))
    BY <2>1, <2>3, Results, CallsSettle
  <2>4. CASE posts' = posts /\ retriedOnce' = retriedOnce /\ Settle(id, Failure("unposted"))
    BY <2>1, <2>4, Results, CallsSettle
  <2> QED BY <1>7, <2>2, <2>3, <2>4 DEF ReplayNext
<1>8. ASSUME NEW p \in 1..opened, HostRead(p) PROVE CallsInv' /\ Final
  BY <1>8, CallsFrame DEF HostRead, calls
<1>9. ASSUME NEW p \in 1..opened, HostReply(p) PROVE CallsInv' /\ Final
  BY <1>9, CallsFrame DEF HostReply, calls, history
<1>10. ASSUME NEW p \in 1..opened, PortDrop(p) PROVE CallsInv' /\ Final
  BY <1>10, CallsFrame DEF PortDrop, calls, history
<1>11. CASE UNCHANGED vars
  BY <1>11, CallsFrame DEF vars, calls, history
<1> QED
  BY <1>1, <1>2, <1>3, <1>4, <1>5, <1>6, <1>7, <1>8, <1>9, <1>10, <1>11
  DEF Next, WorkerStep, HostStep

LEMMA CallsInit == Init => CallsInv
BY DEF Init, CallsInv, PendingInStep, Numbered, Visiting, BoundedReplay, Calls

LEMMA CallsAlways == Spec => [](TypeOK /\ CallsInv)
BY InitType, NextType, CallsInit, CallsNext, PTL DEF Spec

\* A call and the message kept for its replay are forgotten together, and a call is
\* pending exactly while its promise is unsettled (background.js 258-259, 275-276).
THEOREM PendingInStepHolds == Spec => []PendingInStep
BY CallsAlways, PTL DEF CallsInv

\* However many ports drop, a call is posted at most twice, the second time only as
\* a recorded replay (background.js 240-242, 273-284).
THEOREM BoundedReplayHolds == Spec => []BoundedReplay
BY CallsAlways, PTL DEF CallsInv

\* A settled promise keeps its outcome, whatever replies, timers and replays follow.
THEOREM OutcomeFinalHolds == Spec => OutcomeFinal
<1>1. TypeOK /\ CallsInv /\ [Next]_vars =>
        [\A c \in Calls : outcome[c] # Unsettled => outcome'[c] = outcome[c]]_vars
  BY CallsNext DEF Final
<1> QED BY <1>1, CallsAlways, PTL DEF Spec, OutcomeFinal

-----------------------------------------------------------------------------
(* Replies: every reply follows an execution of its call *)

Executed ==
  \A p \in 1..opened : \A c \in Calls :
    c \in port[p].running \/ InSeq(c, port[p].outbox) => runs[c] > 0

RepliesInv == AnswerIsOwn /\ Executed

\* connectNative() leaves the old ports alone.
LEMMA ConnectPorts ==
  ASSUME TypeOK, NEW ok \in BOOLEAN, ConnectNative(ok)
  PROVE  /\ opened' \in {opened, opened + 1}
         /\ \A p \in 1..opened : p \in 1..opened' /\ port'[p] = port[p]
         /\ \A p \in 1..opened' : p \notin 1..opened => port'[p] = FreshPort
         /\ opened' = opened => nativePort' = nativePort
         /\ opened' # opened => nativePort' = opened + 1
BY DEF ConnectNative, TypeOK

\* Posting touches the inbox of the current port only, and adds at its end.
LEMMA PostPorts ==
  ASSUME TypeOK, NEW id \in Calls, nativePort # NoPort, Post(id)
  PROVE  /\ nativePort \in 1..opened
         /\ \A p \in 1..opened :
              /\ port'[p].state = port[p].state
              /\ port'[p].running = port[p].running
              /\ port'[p].outbox = port[p].outbox
              /\ port'[p].inbox =
                   IF p = nativePort /\ port[p].state = "open"
                   THEN Append(port[p].inbox, id) ELSE port[p].inbox
<1>1. nativePort \in 1..opened
  BY DEF TypeOK, NoPort
<1>2. \A p \in 1..opened : port[p] \in Ports
  BY DEF TypeOK
<1> QED BY <1>1, <1>2 DEF TypeOK, Post, Ports

\* Settling with a failure, or not at all, keeps the answers.
LEMMA RepliesSettle ==
  ASSUME TypeOK, AnswerIsOwn, NEW id, NEW kind \in {"lost", "unreachable", "unposted"},
         outcome' = outcome \/ outcome' = [outcome EXCEPT ![id] = Failure(kind)],
         runs' = runs
  PROVE  AnswerIsOwn'
<1>1. \A c \in Calls : outcome'[c] = outcome[c] \/ outcome'[c] = Failure(kind)
  BY DEF TypeOK
<1>2. Failure(kind).kind # "reply"
  BY DEF Failure
<1> QED BY <1>1, <1>2 DEF AnswerIsOwn

\* Where nothing new runs and nothing new is answered, replies stay executed.
LEMMA RepliesPorts ==
  ASSUME TypeOK, Executed, runs' = runs,
         opened' \in {opened, opened + 1},
         \A p \in 1..opened' :
           \/ p \in 1..opened /\ port'[p].running = port[p].running
                /\ port'[p].outbox = port[p].outbox
           \/ port'[p].running = {} /\ port'[p].outbox = <<>>
  PROVE  Executed'
<1> SUFFICES ASSUME NEW p \in 1..opened', NEW c \in Calls,
                    c \in port'[p].running \/ InSeq(c, port'[p].outbox)
             PROVE  runs[c] > 0
  BY DEF Executed
<1>1. ~ InSeq(c, <<>>)
  BY DEF InSeq
<1>2. p \in 1..opened /\ port'[p].running = port[p].running /\ port'[p].outbox = port[p].outbox
  BY <1>1
<1> QED BY <1>2 DEF Executed

\* The tail of a sequence holds nothing new.
LEMMA InTail ==
  ASSUME NEW S, NEW s \in Seq(S), s # <<>>, NEW x
  PROVE  InSeq(x, s) <=> x = Head(s) \/ InSeq(x, Tail(s))
<1>1. /\ Len(s) \in Nat \ {0}
      /\ Len(Tail(s)) = Len(s) - 1
      /\ \A i \in 1..Len(Tail(s)) : Tail(s)[i] = s[i + 1]
      /\ Head(s) = s[1]
  BY HeadTailProperties, EmptySeq
<1>2. ASSUME InSeq(x, s), x # Head(s) PROVE InSeq(x, Tail(s))
  <2>1. PICK i \in 1..Len(s) : s[i] = x
    BY <1>2 DEF InSeq
  <2>2. i - 1 \in 1..Len(Tail(s)) /\ Tail(s)[i - 1] = x
    BY <1>1, <1>2, <2>1
  <2> QED BY <2>2 DEF InSeq
<1>3. ASSUME InSeq(x, Tail(s)) PROVE InSeq(x, s)
  BY <1>1, <1>3 DEF InSeq
<1>4. ASSUME x = Head(s) PROVE InSeq(x, s)
  BY <1>1, <1>4 DEF InSeq
<1> QED BY <1>2, <1>3, <1>4

\* Appending adds one element.
LEMMA InAppend ==
  ASSUME NEW S, NEW s \in Seq(S), NEW e \in S, NEW x
  PROVE  InSeq(x, Append(s, e)) <=> x = e \/ InSeq(x, s)
<1>1. /\ Len(Append(s, e)) = Len(s) + 1
      /\ \A i \in 1..Len(s) : Append(s, e)[i] = s[i]
      /\ Append(s, e)[Len(s) + 1] = e
      /\ Len(s) \in Nat
  BY AppendProperties, LenProperties
<1> QED BY <1>1 DEF InSeq

LEMMA RepliesNext == TypeOK /\ RepliesInv /\ [Next]_vars => RepliesInv'
<1> SUFFICES ASSUME TypeOK, AnswerIsOwn, Executed, [Next]_vars
             PROVE  AnswerIsOwn' /\ Executed'
  BY DEF RepliesInv
<1>0. \A p \in 1..opened : port[p] \in Ports
  BY DEF TypeOK
<1>1. CASE NativeCall
  <2>1. runs' = runs /\ msgId + 1 \in Calls
    BY <1>1, Constants DEF NativeCall, TypeOK, Calls
  <2>2. AnswerIsOwn'
    BY <1>1, <2>1, RepliesSettle DEF NativeCall
  <2>3. CASE nativePort = NoPort
    <3>1. PICK ok \in BOOLEAN : ConnectNative(ok)
      BY <1>1, <2>3 DEF NativeCall
    <3> QED BY <2>1, <2>2, <3>1, ConnectPorts, RepliesPorts DEF FreshPort
  <2>4. CASE nativePort # NoPort
    <3>1. opened' = opened /\ (port' = port \/ Post(msgId + 1))
      BY <1>1, <2>4 DEF NativeCall
    <3> QED BY <2>1, <2>2, <2>4, <3>1, PostPorts, RepliesPorts
  <2> QED BY <2>3, <2>4
<1>2. ASSUME NEW p \in 1..opened, OnMessage(p) PROVE AnswerIsOwn' /\ Executed'
  <2> DEFINE id == Head(port[p].outbox)
  <2>1. /\ port[p].outbox \in Seq(Ids) /\ port[p].outbox # <<>> /\ id \in Ids
        /\ runs' = runs /\ opened' = opened
        /\ port' = [port EXCEPT ![p].outbox = Tail(port[p].outbox)]
    BY <1>0, <1>2, HeadTailProperties DEF OnMessage, Ports
  <2>2. AnswerIsOwn'
    <3>1. CASE outcome' = outcome
      BY <2>1, <3>1 DEF AnswerIsOwn
    <3>2. CASE outcome' # outcome
      <4>1. PICK c \in Recipient(id) : Settle(c, Reply(id))
        BY <1>2, <3>2 DEF OnMessage
      <4>2. c = id /\ c \in Calls
        BY <4>1 DEF Recipient, TypeOK
      <4>3. runs[c] > 0
        BY <2>1, <4>2, InTail DEF Executed
      <4>4. \A d \in Calls : outcome'[d] = IF d = c THEN Reply(c) ELSE outcome[d]
        BY <4>1, <4>2 DEF Settle, TypeOK
      <4> QED BY <2>1, <4>2, <4>3, <4>4 DEF AnswerIsOwn, Reply
    <3> QED BY <3>1, <3>2
  <2>3. Executed'
    <3> SUFFICES ASSUME NEW q \in 1..opened, NEW c \in Calls,
                        c \in port'[q].running \/ InSeq(c, port'[q].outbox)
                 PROVE  c \in port[q].running \/ InSeq(c, port[q].outbox)
      BY <2>1 DEF Executed
    <3>1. CASE q = p
      <4>1. port'[p].running = port[p].running /\ port'[p].outbox = Tail(port[p].outbox)
        BY <1>0, <2>1 DEF TypeOK, Ports
      <4> QED BY <2>1, <3>1, <4>1, InTail
    <3>2. CASE q # p
      BY <2>1, <3>2 DEF TypeOK
    <3> QED BY <3>1, <3>2
  <2> QED BY <2>2, <2>3
<1>3. ASSUME NEW p \in 1..opened, OnDisconnect(p) PROVE AnswerIsOwn' /\ Executed'
  <2>1. /\ port' = [port EXCEPT ![p].state = "closed", ![p].outbox = <<>>]
        /\ opened' = opened /\ UNCHANGED <<outcome, runs>>
    BY <1>3 DEF OnDisconnect, history
  <2>2. ~ \E c : InSeq(c, <<>>)
    BY DEF InSeq
  <2>3. /\ port'[p].running = port[p].running /\ port'[p].outbox = <<>>
        /\ \A q \in 1..opened : q # p => port'[q] = port[q]
    BY <1>0, <2>1 DEF TypeOK, Ports
  <2>4. Executed'
    BY <2>1, <2>2, <2>3 DEF Executed
  <2> QED BY <2>1, <2>4 DEF AnswerIsOwn
<1>4. ASSUME NEW k \in 1..Len(timers), FireReconnect(k) PROVE AnswerIsOwn' /\ Executed'
  <2>1. PICK ok \in BOOLEAN : ConnectNative(ok)
    BY <1>4 DEF FireReconnect
  <2>2. UNCHANGED <<outcome, runs>>
    BY <1>4 DEF FireReconnect, history
  <2> QED BY <2>1, <2>2, ConnectPorts, RepliesPorts DEF AnswerIsOwn, FreshPort
<1>5. ASSUME NEW k \in 1..Len(timers), FireRetryConnect(k) PROVE AnswerIsOwn' /\ Executed'
  <2>1. PICK ok \in BOOLEAN : ConnectNative(ok)
    BY <1>5 DEF FireRetryConnect
  <2>2. UNCHANGED <<outcome, runs>>
    BY <1>5 DEF FireRetryConnect, history
  <2> QED BY <2>1, <2>2, ConnectPorts, RepliesPorts DEF AnswerIsOwn, FreshPort
<1>6. ASSUME NEW k \in 1..Len(timers), FireUnreachable(k) PROVE AnswerIsOwn' /\ Executed'
  <2>1. UNCHANGED <<opened, port, runs>>
    BY <1>6 DEF FireUnreachable
  <2> QED BY <1>6, <2>1, RepliesSettle DEF FireUnreachable, Settle, Executed
<1>7. ASSUME NEW id \in replay, ReplayNext(id) PROVE AnswerIsOwn' /\ Executed'
  <2>1. id \in Calls /\ opened' = opened /\ runs' = runs
    BY <1>7 DEF TypeOK, ReplayNext
  <2>2. AnswerIsOwn'
    BY <1>7, <2>1, RepliesSettle DEF ReplayNext, Settle
  <2>3. port' = port \/ (nativePort # NoPort /\ Post(id))
    BY <1>7 DEF ReplayNext, Replayable
  <2> QED BY <2>1, <2>2, <2>3, PostPorts, RepliesPorts
<1>8. ASSUME NEW p \in 1..opened, HostRead(p) PROVE AnswerIsOwn' /\ Executed'
  <2> DEFINE id == Head(port[p].inbox)
  <2>1. /\ id \in Ids /\ opened' = opened /\ outcome' = outcome
        /\ port' = [port EXCEPT ![p].inbox = Tail(port[p].inbox), ![p].running = {id}]
    BY <1>0, <1>8, HeadTailProperties DEF HostRead, Ports
  <2>2. runs' = IF id = PING_ID THEN runs ELSE [runs EXCEPT ![id] = runs[id] + 1]
    BY <1>8 DEF HostRead
  <2>3. \A c \in Calls : runs'[c] = IF c = id THEN runs[c] + 1 ELSE runs[c]
    BY <2>1, <2>2, Constants DEF TypeOK, Ids
  <2>4. \A c \in Calls : runs[c] \in Nat /\ (runs[c] > 0 \/ c = id => runs'[c] > 0)
    BY <2>3 DEF TypeOK
  <2>5. /\ port'[p].running = {id} /\ port'[p].outbox = port[p].outbox
        /\ \A q \in 1..opened : q # p => port'[q] = port[q]
    BY <1>0, <2>1 DEF TypeOK, Ports
  <2>6. AnswerIsOwn'
    BY <2>1, <2>4 DEF AnswerIsOwn
  <2>7. Executed'
    <3> SUFFICES ASSUME NEW q \in 1..opened, NEW c \in Calls,
                        c \in port'[q].running \/ InSeq(c, port'[q].outbox)
                 PROVE  runs'[c] > 0
      BY <2>1 DEF Executed
    <3>1. CASE q = p
      BY <2>5, <2>4, <3>1 DEF Executed
    <3>2. CASE q # p
      BY <2>5, <2>4, <3>2 DEF Executed
    <3> QED BY <3>1, <3>2
  <2> QED BY <2>6, <2>7
<1>9. ASSUME NEW p \in 1..opened, HostReply(p) PROVE AnswerIsOwn' /\ Executed'
  <2>1. PICK id \in port[p].running :
          port' = [port EXCEPT ![p].running = {}, ![p].outbox = Append(port[p].outbox, id)]
    BY <1>9 DEF HostReply
  <2>2. opened' = opened /\ UNCHANGED <<outcome, runs>>
    BY <1>9 DEF HostReply, history
  <2>3. /\ port'[p].running = {} /\ port'[p].outbox = Append(port[p].outbox, id)
        /\ \A q \in 1..opened : q # p => port'[q] = port[q]
    BY <1>0, <2>1 DEF TypeOK, Ports
  <2>4. \A c : InSeq(c, port'[p].outbox) => c \in port[p].running \/ InSeq(c, port[p].outbox)
    BY <1>0, <2>1, <2>3, InAppend, ZenonT(60) DEF Ports
  <2> QED BY <2>2, <2>3, <2>4 DEF AnswerIsOwn, Executed
<1>10. ASSUME NEW p \in 1..opened, PortDrop(p) PROVE AnswerIsOwn' /\ Executed'
  <2>1. /\ port' = [port EXCEPT ![p].state = "dropped", ![p].inbox = <<>>, ![p].running = {}]
        /\ opened' = opened /\ UNCHANGED <<outcome, runs>>
    BY <1>10 DEF PortDrop, history
  <2>2. /\ port'[p].running = {} /\ port'[p].outbox = port[p].outbox
        /\ \A q \in 1..opened : q # p => port'[q] = port[q]
    BY <1>0, <2>1 DEF TypeOK, Ports
  <2> QED BY <2>1, <2>2 DEF AnswerIsOwn, Executed
<1>11. CASE UNCHANGED vars
  BY <1>11 DEF vars, calls, history, AnswerIsOwn, Executed
<1> QED
  BY <1>1, <1>2, <1>3, <1>4, <1>5, <1>6, <1>7, <1>8, <1>9, <1>10, <1>11
  DEF Next, WorkerStep, HostStep

LEMMA RepliesInit == Init => RepliesInv
<1> SUFFICES ASSUME Init PROVE RepliesInv
  OBVIOUS
<1>1. \A p \in 1..opened : port[p] = FreshPort
  BY DEF Init
<1> QED BY <1>1 DEF Init, RepliesInv, AnswerIsOwn, Executed, FreshPort, InSeq, Unsettled

\* A reply settles the call it answers and no other, and only after a host executed
\* that call (background.js 253-261, host main.rs 630-636).
THEOREM AnswerIsOwnHolds == Spec => []AnswerIsOwn
<1>1. Spec => [](TypeOK /\ RepliesInv)
  BY InitType, NextType, RepliesInit, RepliesNext, PTL DEF Spec
<1> QED BY <1>1, PTL DEF RepliesInv

-----------------------------------------------------------------------------
(* Carriers: every pending call is carried or watched *)

\* The current port has not been closed.
CurrentPort == nativePort # NoPort => port[nativePort].state # "closed"

\* A host works on one request at a time.
OneAtATime == \A p \in 1..opened : \A x, y \in port[p].running : x = y

\* The invariant of the ports alone.
PortsInv == CurrentPort /\ OneAtATime

\* Some port carries call c.
Carried(c) == \E p \in 1..opened : Carries(p, c)

\* Some timer of the list will visit call c.
WatchedBy(ts, c) == \E k \in 1..Len(ts) : ts[k].delay # RetryConnect /\ c \in ts[k].ids

\* Every 5 s timer of the list is for one call.
OneCallEach(ts) ==
  \A k \in 1..Len(ts) : ts[k].delay = Unreachable => \A x, y \in ts[k].ids : x = y

\* NothingForgotten, in the operators above.
Kept == \A c \in pendingCallbacks : c \in replay \/ WatchedBy(timers, c) \/ Carried(c)

CarriersInv == PortsInv /\ OneCallEach(timers) /\ Kept

LEMMA ArmWatches ==
  ASSUME NEW ts \in Seq(Timers), NEW ids \in SUBSET Calls,
         NEW delay \in {Reconnect, RetryConnect, Unreachable}
  PROVE  /\ \A c : WatchedBy(ts, c) => WatchedBy(Arm(ts, delay, ids), c)
         /\ delay # RetryConnect => \A c \in ids : WatchedBy(Arm(ts, delay, ids), c)
         /\ OneCallEach(ts) /\ (delay = Unreachable => \A x, y \in ids : x = y)
              => OneCallEach(Arm(ts, delay, ids))
<1> DEFINE t == [delay |-> delay, ids |-> ids]
           all == Append(ts, t)
<1>1. t \in Timers /\ t.delay = delay /\ t.ids = ids
  BY DEF Timers
<1>2. Len(ts) \in Nat
  BY LenProperties
<1>3. /\ Len(all) = Len(ts) + 1
      /\ \A k \in 1..Len(ts) : all[k] = ts[k]
      /\ all[Len(ts) + 1] = t
  BY <1>1, AppendProperties
<1>4. Arm(ts, delay, ids) = all
  BY DEF Arm
<1> HIDE DEF t, all
<1> QED BY <1>1, <1>2, <1>3, <1>4 DEF WatchedBy, OneCallEach

LEMMA FiredWatches ==
  ASSUME TypeOK, NEW k \in 1..Len(timers)
  PROVE  /\ \A c : WatchedBy(timers, c) =>
               \/ WatchedBy(RemoveAt(timers, k), c)
               \/ (timers[k].delay # RetryConnect /\ c \in timers[k].ids)
         /\ OneCallEach(timers) => OneCallEach(RemoveAt(timers, k))
<1> DEFINE rest == RemoveAt(timers, k)
<1>1. /\ timers \in Seq(Timers) /\ Len(timers) \in Nat
      /\ Len(rest) = Len(timers) - 1
      /\ \A j \in 1..(Len(timers) - 1) :
           rest[j] = IF j < k THEN timers[j] ELSE timers[j + 1]
  BY RemoveAtProperties, LenProperties DEF TypeOK
<1> HIDE DEF rest
<1>2. ASSUME NEW c, NEW j \in 1..Len(timers), j # k,
             timers[j].delay # RetryConnect, c \in timers[j].ids
      PROVE  WatchedBy(rest, c)
  <2>1. CASE j < k
    <3>1. j \in 1..Len(rest) /\ rest[j] = timers[j]
      BY <1>1, <2>1
    <3> QED BY <1>2, <3>1 DEF WatchedBy
  <2>2. CASE ~(j < k)
    <3>1. /\ j - 1 \in 1..Len(rest) /\ j - 1 \in 1..(Len(timers) - 1)
          /\ ~(j - 1 < k) /\ (j - 1) + 1 = j
      BY <1>1, <1>2, <2>2
    <3>2. rest[j - 1] = timers[j]
      BY <1>1, <3>1
    <3> QED BY <1>2, <3>1, <3>2 DEF WatchedBy
  <2> QED BY <2>1, <2>2
<1>3. \A c : WatchedBy(timers, c) =>
        WatchedBy(rest, c) \/ (timers[k].delay # RetryConnect /\ c \in timers[k].ids)
  <2> SUFFICES ASSUME NEW c, WatchedBy(timers, c)
               PROVE  WatchedBy(rest, c) \/ (timers[k].delay # RetryConnect /\ c \in timers[k].ids)
    OBVIOUS
  <2>1. PICK j \in 1..Len(timers) : timers[j].delay # RetryConnect /\ c \in timers[j].ids
    BY DEF WatchedBy
  <2> QED BY <1>2, <2>1
<1>4. OneCallEach(timers) => OneCallEach(rest)
  BY <1>1 DEF OneCallEach
<1> QED BY <1>3, <1>4 DEF rest

LEMMA AfterConnectWatches ==
  ASSUME NEW ts \in Seq(Timers), NEW ok \in BOOLEAN
  PROVE  /\ \A c : WatchedBy(ts, c) => WatchedBy(AfterConnect(ok, ts), c)
         /\ OneCallEach(ts) => OneCallEach(AfterConnect(ok, ts))
<1>1. RetryConnect # Unreachable
  BY DEF RetryConnect, Unreachable
<1> QED BY <1>1, ArmWatches DEF AfterConnect

LEMMA ConnectCarries ==
  ASSUME TypeOK, PortsInv, NEW ok \in BOOLEAN, ConnectNative(ok)
  PROVE  PortsInv' /\ \A c : Carried(c) => Carried(c)'
<1>1. /\ opened' \in {opened, opened + 1} /\ opened \in Nat /\ nativePort \in 0..opened
      /\ \A p \in 1..opened : p \in 1..opened' /\ port'[p] = port[p]
      /\ \A p \in 1..opened' : p \notin 1..opened => port'[p] = FreshPort
      /\ opened' = opened => nativePort' = nativePort
      /\ opened' # opened => nativePort' = opened + 1
  BY ConnectPorts DEF TypeOK
<1>2. FreshPort.state = "open" /\ FreshPort.running = {}
  BY DEF FreshPort
<1>3. CurrentPort'
  <2>1. CASE opened' = opened
    BY <1>1, <2>1 DEF PortsInv, CurrentPort, NoPort
  <2>2. CASE opened' # opened
    <3>1. nativePort' = opened + 1 /\ port'[opened + 1] = FreshPort
      BY <1>1, <2>2
    <3> QED BY <1>2, <3>1 DEF CurrentPort
  <2> QED BY <2>1, <2>2
<1>4. OneAtATime'
  BY <1>1, <1>2 DEF PortsInv, OneAtATime
<1>5. \A c : Carried(c) => Carried(c)'
  BY <1>1 DEF Carried, Carries
<1> QED BY <1>3, <1>4, <1>5 DEF PortsInv

LEMMA PostCarries ==
  ASSUME TypeOK, PortsInv, NEW id \in Calls, nativePort # NoPort, Post(id),
         UNCHANGED <<nativePort, opened>>
  PROVE  PortsInv' /\ Carried(id)' /\ \A c : Carried(c) => Carried(c)'
<1>1. /\ nativePort \in 1..opened
      /\ \A p \in 1..opened :
           /\ port'[p].state = port[p].state
           /\ port'[p].running = port[p].running
           /\ port'[p].outbox = port[p].outbox
           /\ port'[p].inbox = IF p = nativePort /\ port[p].state = "open"
                               THEN Append(port[p].inbox, id) ELSE port[p].inbox
  BY PostPorts
<1>2. \A p \in 1..opened : port[p].inbox \in Seq(Ids) /\ port[p].state \in {"open", "dropped", "closed"}
  BY DEF TypeOK, Ports
<1>3. id \in Ids
  BY DEF Ids
<1>4. \A p \in 1..opened : \A c : InSeq(c, port[p].inbox) => InSeq(c, port'[p].inbox)
  BY <1>1, <1>2, <1>3, InAppend
<1>5. port[nativePort].state = "open" => InSeq(id, port'[nativePort].inbox)
  BY <1>1, <1>2, <1>3, InAppend
<1>6. PortsInv'
  BY <1>1 DEF PortsInv, CurrentPort, OneAtATime
<1>7. Carries(nativePort, id)'
  BY <1>1, <1>2, <1>5 DEF PortsInv, CurrentPort, Carries
<1>8. \A c : Carried(c) => Carried(c)'
  BY <1>1, <1>4 DEF Carried, Carries
<1> QED BY <1>1, <1>6, <1>7, <1>8 DEF Carried

\* What a step leaves as it is.
LEMMA CarriersFrame ==
  ASSUME PortsInv, UNCHANGED <<nativePort, opened, port>>
  PROVE  PortsInv' /\ \A c : Carried(c) => Carried(c)'
BY DEF PortsInv, CurrentPort, OneAtATime, Carried, Carries

\* A step of one port keeps what the port carries.
LEMMA PortStepCarries ==
  ASSUME TypeOK, PortsInv, NEW p \in 1..opened, NEW lost,
         UNCHANGED opened, nativePort' \in {nativePort, NoPort},
         \A q \in 1..opened : q # p => port'[q] = port[q],
         \A x, y \in port'[p].running : x = y,
         nativePort' = p => port'[p].state # "closed",
         \A c : c # lost /\ Carries(p, c) => Carries(p, c)'
  PROVE  PortsInv' /\ \A c : c # lost /\ Carried(c) => Carried(c)'
<1>1. CurrentPort'
  BY DEF PortsInv, CurrentPort, TypeOK, NoPort
<1>2. OneAtATime'
  BY DEF PortsInv, OneAtATime
<1>3. ASSUME NEW c, c # lost, NEW q \in 1..opened, Carries(q, c) PROVE Carries(q, c)'
  BY <1>3 DEF Carries
<1> QED BY <1>1, <1>2, <1>3 DEF PortsInv, Carried

LEMMA CarriersNext == TypeOK /\ CallsInv /\ CarriersInv /\ [Next]_vars => CarriersInv'
<1> SUFFICES ASSUME TypeOK, CallsInv, PortsInv, OneCallEach(timers), Kept, [Next]_vars
             PROVE  PortsInv' /\ OneCallEach(timers)' /\ Kept'
  BY DEF CarriersInv
<1> USE DEF Kept
<1>0. /\ timers \in Seq(Timers)
      /\ \A p \in 1..opened : port[p] \in Ports
      /\ pendingCallbacks \subseteq Calls
  BY DEF TypeOK
<1>d. Reconnect # RetryConnect /\ Unreachable # RetryConnect /\ Reconnect # Unreachable
  BY DEF Reconnect, RetryConnect, Unreachable
<1>1. CASE NativeCall
  <2> DEFINE id == msgId + 1
  <2>1. /\ id \in Calls /\ replay' = replay
        /\ pendingCallbacks' \in {pendingCallbacks, pendingCallbacks \cup {id}}
    BY <1>1, Constants DEF NativeCall, TypeOK, Calls
  <2>2. CASE nativePort = NoPort
    <3>1. PICK ok \in BOOLEAN : /\ ConnectNative(ok)
                                /\ timers' = Arm(AfterConnect(ok, timers), Unreachable, {id})
      BY <1>1, <2>2 DEF NativeCall
    <3>2. PortsInv' /\ \A c : Carried(c) => Carried(c)'
      BY <3>1, ConnectCarries
    <3>3. /\ \A c : WatchedBy(timers, c) => WatchedBy(timers', c)
          /\ WatchedBy(timers', id)
          /\ OneCallEach(timers')
      <4>1. AfterConnect(ok, timers) \in Seq(Timers)
        BY <1>0, AfterConnectType
      <4> QED BY <1>0, <1>d, <2>1, <3>1, <4>1, AfterConnectWatches, ArmWatches
    <3> QED BY <2>1, <3>2, <3>3
  <2>3. CASE nativePort # NoPort
    <3>1. /\ UNCHANGED <<nativePort, opened, timers>>
          /\ \/ Post(id)
             \/ UNCHANGED <<port, pendingCallbacks>>
      BY <1>1, <2>3 DEF NativeCall
    <3>2. CASE Post(id)
      BY <2>1, <2>3, <3>1, <3>2, PostCarries
    <3>3. CASE UNCHANGED <<port, pendingCallbacks>>
      BY <2>1, <3>1, <3>3, CarriersFrame
    <3> QED BY <3>1, <3>2, <3>3
  <2> QED BY <2>2, <2>3
<1>2. ASSUME NEW p \in 1..opened, OnMessage(p)
      PROVE  PortsInv' /\ OneCallEach(timers)' /\ Kept'
  <2> DEFINE id == Head(port[p].outbox)
  <2>1. /\ port[p].outbox \in Seq(Ids) /\ port[p].outbox # <<>>
        /\ UNCHANGED <<nativePort, opened, timers, replay>>
        /\ port' = [port EXCEPT ![p].outbox = Tail(port[p].outbox)]
    BY <1>0, <1>2 DEF OnMessage, Ports
  <2>2. /\ port'[p].outbox = Tail(port[p].outbox) /\ port'[p].state = port[p].state
        /\ port'[p].inbox = port[p].inbox /\ port'[p].running = port[p].running
        /\ \A q \in 1..opened : q # p => port'[q] = port[q]
    BY <1>0, <2>1 DEF TypeOK, Ports
  <2>3. \A c : c # id /\ Carries(p, c) => Carries(p, c)'
    BY <2>1, <2>2, InTail DEF Carries
  <2>4. /\ \A x, y \in port'[p].running : x = y
        /\ nativePort' = p => port'[p].state # "closed"
    BY <2>1, <2>2 DEF PortsInv, OneAtATime, CurrentPort, NoPort
  <2>5. PortsInv' /\ \A c : c # id /\ Carried(c) => Carried(c)'
    BY <2>1, <2>2, <2>3, <2>4, PortStepCarries
  <2>6. pendingCallbacks' \subseteq pendingCallbacks \ {id}
    <3>1. CASE id \in pendingCallbacks
      <4>1. id \in Recipient(id)
        BY <1>0, <3>1, Constants DEF Recipient
      <4>2. PICK c \in Recipient(id) : Settle(c, Reply(id))
        BY <1>2, <4>1 DEF OnMessage
      <4> QED BY <4>2 DEF Settle, Recipient
    <3>2. CASE id \notin pendingCallbacks
      <4>1. Recipient(id) = {}
        BY <3>2 DEF Recipient
      <4> QED BY <1>2, <3>2, <4>1 DEF OnMessage
    <3> QED BY <3>1, <3>2
  <2> QED BY <2>1, <2>5, <2>6
<1>3. ASSUME NEW p \in 1..opened, OnDisconnect(p)
      PROVE  PortsInv' /\ OneCallEach(timers)' /\ Kept'
  <2>1. /\ port' = [port EXCEPT ![p].state = "closed", ![p].outbox = <<>>]
        /\ nativePort' = NoPort /\ UNCHANGED <<opened, pendingCallbacks, replay>>
        /\ timers' = Arm(timers, Reconnect, pendingCallbacks)
    BY <1>3 DEF OnDisconnect, Rearm, Snapshot, calls
  <2>2. /\ port'[p].running = port[p].running
        /\ \A q \in 1..opened : q # p => port'[q] = port[q]
    BY <1>0, <2>1 DEF TypeOK, Ports
  <2>3. PortsInv'
    BY <2>1, <2>2 DEF PortsInv, CurrentPort, OneAtATime
  <2>4. OneCallEach(timers') /\ \A c \in pendingCallbacks : WatchedBy(timers', c)
    BY <1>0, <1>d, <2>1, ArmWatches
  <2> QED BY <2>1, <2>3, <2>4
<1>4. ASSUME NEW k \in 1..Len(timers), FireReconnect(k)
      PROVE  PortsInv' /\ OneCallEach(timers)' /\ Kept'
  <2>1. PICK ok \in BOOLEAN : /\ ConnectNative(ok)
                              /\ timers' = AfterConnect(ok, RemoveAt(timers, k))
    BY <1>4 DEF FireReconnect
  <2>2. /\ replay = {} /\ replay' = timers[k].ids \cap pendingCallbacks
        /\ pendingCallbacks' = pendingCallbacks
    BY <1>4 DEF FireReconnect, Quiet, calls
  <2>3. OneCallEach(timers')
    BY <2>1, FiredType, FiredWatches, AfterConnectWatches
  <2>4. \A c : WatchedBy(timers, c) => WatchedBy(timers', c) \/ c \in timers[k].ids
    BY <2>1, FiredType, FiredWatches, AfterConnectWatches
  <2> QED BY <2>1, <2>2, <2>3, <2>4, ConnectCarries
<1>5. ASSUME NEW k \in 1..Len(timers), FireRetryConnect(k)
      PROVE  PortsInv' /\ OneCallEach(timers)' /\ Kept'
  <2>1. PICK ok \in BOOLEAN : /\ ConnectNative(ok)
                              /\ timers' = AfterConnect(ok, RemoveAt(timers, k))
    BY <1>5 DEF FireRetryConnect
  <2>2. UNCHANGED <<replay, pendingCallbacks>> /\ timers[k].delay = RetryConnect
    BY <1>5 DEF FireRetryConnect, calls
  <2>3. OneCallEach(timers')
    BY <2>1, FiredType, FiredWatches, AfterConnectWatches
  <2>4. \A c : WatchedBy(timers, c) => WatchedBy(timers', c)
    BY <2>1, <2>2, FiredType, FiredWatches, AfterConnectWatches
  <2> QED BY <2>1, <2>2, <2>3, <2>4, ConnectCarries
<1>6. ASSUME NEW k \in 1..Len(timers), FireUnreachable(k)
      PROVE  PortsInv' /\ OneCallEach(timers)' /\ Kept'
  <2>1. /\ UNCHANGED <<nativePort, opened, port, replay>>
        /\ timers' = RemoveAt(timers, k) /\ timers[k].delay = Unreachable
    BY <1>6 DEF FireUnreachable
  <2>2. pendingCallbacks' \subseteq pendingCallbacks \ timers[k].ids
    <3>1. CASE timers[k].ids \cap pendingCallbacks = {}
      BY <1>6, <3>1 DEF FireUnreachable
    <3>2. CASE timers[k].ids \cap pendingCallbacks # {}
      <4>1. PICK id \in timers[k].ids \cap pendingCallbacks :
              pendingCallbacks' = pendingCallbacks \ {id}
        BY <1>6, <3>2 DEF FireUnreachable, Settle
      <4>2. \A x \in timers[k].ids : x = id
        BY <2>1, <4>1 DEF OneCallEach
      <4> QED BY <4>1, <4>2
    <3> QED BY <3>1, <3>2
  <2>3. /\ OneCallEach(timers')
        /\ \A c : WatchedBy(timers, c) => WatchedBy(timers', c) \/ c \in timers[k].ids
    BY <2>1, FiredWatches
  <2> QED BY <2>1, <2>2, <2>3, CarriersFrame
<1>7. ASSUME NEW id \in replay, ReplayNext(id)
      PROVE  PortsInv' /\ OneCallEach(timers)' /\ Kept'
  <2>1. /\ id \in Calls /\ replay' = replay \ {id}
        /\ UNCHANGED <<nativePort, opened, timers>>
    BY <1>7 DEF TypeOK, ReplayNext
  <2>2. \/ UNCHANGED port /\ pendingCallbacks' = pendingCallbacks \ {id}
        \/ nativePort # NoPort /\ Post(id) /\ pendingCallbacks' = pendingCallbacks
    BY <1>7 DEF ReplayNext, Replayable, Settle
  <2>3. CASE UNCHANGED port /\ pendingCallbacks' = pendingCallbacks \ {id}
    BY <2>1, <2>3, CarriersFrame
  <2>4. CASE nativePort # NoPort /\ Post(id) /\ pendingCallbacks' = pendingCallbacks
    BY <2>1, <2>4, PostCarries
  <2> QED BY <2>2, <2>3, <2>4
<1>8. ASSUME NEW p \in 1..opened, HostRead(p)
      PROVE  PortsInv' /\ OneCallEach(timers)' /\ Kept'
  <2> DEFINE id == Head(port[p].inbox)
  <2>1. /\ port[p].inbox \in Seq(Ids) /\ port[p].inbox # <<>> /\ port[p].running = {}
        /\ UNCHANGED <<nativePort, opened, timers, replay, pendingCallbacks>>
        /\ port' = [port EXCEPT ![p].inbox = Tail(port[p].inbox), ![p].running = {id}]
    BY <1>0, <1>8 DEF HostRead, Ports, calls
  <2>2. /\ port'[p].inbox = Tail(port[p].inbox) /\ port'[p].running = {id}
        /\ port'[p].state = port[p].state /\ port'[p].outbox = port[p].outbox
        /\ \A q \in 1..opened : q # p => port'[q] = port[q]
    BY <1>0, <2>1 DEF TypeOK, Ports
  <2>3. \A c : Carries(p, c) => Carries(p, c)'
    <3>1. \A c : InSeq(c, port[p].inbox) => c \in port'[p].running \/ InSeq(c, port'[p].inbox)
      <4>1. \A c : InSeq(c, port[p].inbox) => c = id \/ InSeq(c, Tail(port[p].inbox))
        BY <2>1, InTail
      <4> HIDE DEF id
      <4> QED BY <2>2, <4>1
    <3> QED BY <2>1, <2>2, <3>1 DEF Carries
  <2>4. nativePort' = p => port'[p].state # "closed"
    BY <2>1, <2>2 DEF PortsInv, CurrentPort, NoPort
  <2>5. PortsInv' /\ \A c : c # NoPort /\ Carried(c) => Carried(c)'
    BY <2>1, <2>2, <2>3, <2>4, PortStepCarries
  <2> QED BY <1>0, <2>1, <2>5, Constants DEF NoPort, PING_ID
<1>9. ASSUME NEW p \in 1..opened, HostReply(p)
      PROVE  PortsInv' /\ OneCallEach(timers)' /\ Kept'
  <2>1. PICK id \in port[p].running :
          port' = [port EXCEPT ![p].running = {}, ![p].outbox = Append(port[p].outbox, id)]
    BY <1>9 DEF HostReply
  <2>2. UNCHANGED <<nativePort, opened, timers, replay, pendingCallbacks>>
    BY <1>9 DEF HostReply, calls
  <2>3. /\ port'[p].inbox = port[p].inbox /\ port'[p].running = {}
        /\ port'[p].state = port[p].state /\ port'[p].outbox = Append(port[p].outbox, id)
        /\ \A q \in 1..opened : q # p => port'[q] = port[q]
    BY <1>0, <2>1 DEF TypeOK, Ports
  <2>4. \A c : Carries(p, c) => Carries(p, c)'
    <3>1. \A c \in port[p].running : c = id
      BY <2>1 DEF PortsInv, OneAtATime
    <3>2. port[p].outbox \in Seq(Ids) /\ id \in Ids
      BY <1>0, <2>1 DEF Ports
    <3>3. \A c : InSeq(c, Append(port[p].outbox, id)) <=> c = id \/ InSeq(c, port[p].outbox)
      BY <3>2, InAppend
    <3>4. \A c : c \in port[p].running \/ InSeq(c, port[p].outbox) => InSeq(c, port'[p].outbox)
      BY <2>3, <3>1, <3>3
    <3> QED BY <2>3, <3>4 DEF Carries
  <2>5. nativePort' = p => port'[p].state # "closed"
    BY <2>2, <2>3 DEF PortsInv, CurrentPort, NoPort
  <2>6. PortsInv' /\ \A c : c # NoPort /\ Carried(c) => Carried(c)'
    BY <2>2, <2>3, <2>4, <2>5, PortStepCarries
  <2> QED BY <1>0, <2>2, <2>6, Constants DEF NoPort, PING_ID
<1>10. ASSUME NEW p \in 1..opened, PortDrop(p)
       PROVE  PortsInv' /\ OneCallEach(timers)' /\ Kept'
  <2>1. /\ port' = [port EXCEPT ![p].state = "dropped", ![p].inbox = <<>>, ![p].running = {}]
        /\ UNCHANGED <<nativePort, opened, timers, replay, pendingCallbacks>>
    BY <1>10 DEF PortDrop, calls
  <2>2. /\ port'[p].state = "dropped" /\ port'[p].running = {}
        /\ \A q \in 1..opened : q # p => port'[q] = port[q]
    BY <1>0, <2>1 DEF TypeOK, Ports
  <2>3. \A c : Carries(p, c) => Carries(p, c)'
    BY <2>2 DEF Carries
  <2>4. PortsInv' /\ \A c : c # NoPort /\ Carried(c) => Carried(c)'
    BY <2>1, <2>2, <2>3, PortStepCarries
  <2> QED BY <1>0, <2>1, <2>4, Constants DEF NoPort, PING_ID
<1>11. CASE UNCHANGED vars
  BY <1>11, CarriersFrame DEF vars, calls
<1> QED
  BY <1>1, <1>2, <1>3, <1>4, <1>5, <1>6, <1>7, <1>8, <1>9, <1>10, <1>11
  DEF Next, WorkerStep, HostStep

LEMMA CarriersInit == Init => CarriersInv
<1> SUFFICES ASSUME Init PROVE CarriersInv
  OBVIOUS
<1>1. \A p \in 1..opened : port[p] = FreshPort
  BY DEF Init
<1>2. nativePort # NoPort => nativePort \in 1..opened
  BY DEF Init
<1>3. PortsInv
  BY <1>1, <1>2 DEF PortsInv, CurrentPort, OneAtATime, FreshPort
<1>4. OneCallEach(timers)
  <2>1. <<>> \in Seq(Timers) /\ OneCallEach(<<>>)
    BY EmptySeq DEF OneCallEach
  <2>2. OneCallEach(Arm(<<>>, RetryConnect, {}))
    <3>1. RetryConnect # Unreachable
      BY DEF RetryConnect, Unreachable
    <3> QED BY <2>1, <3>1, ArmWatches
  <2> QED BY <2>1, <2>2 DEF Init
<1> QED BY <1>3, <1>4 DEF Init, CarriersInv, Kept

\* No call is forgotten: whatever drops, fires or is answered, a pending call is on its
\* way through a port, or a timer or the running handler will visit it
\* (background.js 263-292, 308-318).
THEOREM NothingForgottenHolds == Spec => []NothingForgotten
<1>1. Spec => []CarriersInv
  BY InitType, NextType, CallsInit, CallsNext, CarriersInit, CarriersNext, PTL DEF Spec
<1>2. CarriersInv => NothingForgotten
  BY DEF CarriersInv, Kept, WatchedBy, Carried, NothingForgotten, Watched
<1> QED BY <1>1, <1>2, PTL

-----------------------------------------------------------------------------
(* Reconnect timers *)

HasReconnect(ts) == \E k \in 1..Len(ts) : ts[k].delay = Reconnect

OneReconnect(ts) ==
  \A j, k \in 1..Len(ts) : ts[j].delay = Reconnect /\ ts[k].delay = Reconnect => j = k

LEMMA ArmReconnect ==
  ASSUME NEW ts \in Seq(Timers), NEW ids \in SUBSET Calls,
         NEW delay \in {Reconnect, RetryConnect, Unreachable}
  PROVE  /\ delay # Reconnect /\ HasReconnect(Arm(ts, delay, ids)) => HasReconnect(ts)
         /\ delay # Reconnect /\ OneReconnect(ts) => OneReconnect(Arm(ts, delay, ids))
         /\ ~HasReconnect(ts) => OneReconnect(Arm(ts, delay, ids))
<1> DEFINE t == [delay |-> delay, ids |-> ids]
           all == Append(ts, t)
<1>1. t \in Timers /\ t.delay = delay
  BY DEF Timers
<1>2. Len(ts) \in Nat
  BY LenProperties
<1>3. /\ Len(all) = Len(ts) + 1
      /\ \A k \in 1..Len(ts) : all[k] = ts[k]
      /\ all[Len(ts) + 1] = t
  BY <1>1, AppendProperties
<1>4. Arm(ts, delay, ids) = all
  BY DEF Arm
<1> HIDE DEF t, all
<1>5. \A k \in 1..Len(all) : k \in 1..Len(ts) \/ k = Len(ts) + 1
  BY <1>2, <1>3
<1> QED
  BY <1>1, <1>3, <1>4, <1>5 DEF HasReconnect, OneReconnect

LEMMA FiredReconnect ==
  ASSUME NEW ts \in Seq(Timers), NEW k \in 1..Len(ts)
  PROVE  /\ HasReconnect(RemoveAt(ts, k)) => HasReconnect(ts)
         /\ OneReconnect(ts) => OneReconnect(RemoveAt(ts, k))
         /\ OneReconnect(ts) /\ ts[k].delay = Reconnect => ~HasReconnect(RemoveAt(ts, k))
<1> DEFINE rest == RemoveAt(ts, k)
           at(j) == IF j < k THEN j ELSE j + 1
<1>1. /\ Len(ts) \in Nat
      /\ Len(rest) = Len(ts) - 1
      /\ \A j \in 1..(Len(ts) - 1) : rest[j] = IF j < k THEN ts[j] ELSE ts[j + 1]
  BY RemoveAtProperties, LenProperties
<1> HIDE DEF rest
<1>2. \A j \in 1..Len(rest) : at(j) \in 1..Len(ts) /\ at(j) # k /\ rest[j] = ts[at(j)]
  BY <1>1
<1>3. \A j, l \in 1..Len(rest) : at(j) = at(l) => j = l
  BY <1>1
<1> HIDE DEF at
<1>4. HasReconnect(rest) => HasReconnect(ts)
  BY <1>2 DEF HasReconnect
<1>5. OneReconnect(ts) => OneReconnect(rest)
  BY <1>2, <1>3 DEF OneReconnect
<1>6. OneReconnect(ts) /\ ts[k].delay = Reconnect => ~HasReconnect(rest)
  BY <1>2 DEF OneReconnect, HasReconnect
<1> QED
  BY <1>4, <1>5, <1>6 DEF rest

\* connectNative() arms no reconnect.
LEMMA AfterConnectReconnect ==
  ASSUME NEW ts \in Seq(Timers), NEW ok \in BOOLEAN
  PROVE  /\ HasReconnect(AfterConnect(ok, ts)) => HasReconnect(ts)
         /\ OneReconnect(ts) => OneReconnect(AfterConnect(ok, ts))
  BY ArmReconnect DEF AfterConnect, Reconnect, RetryConnect

-----------------------------------------------------------------------------
(* The phases of the one drop *)

\* A port is lost and unnoticed, or the reconnect of the only lost port is armed.
Recovering == HasReconnect(timers) \/ \E p \in 1..opened : port[p].state = "dropped"

\* With at most one drop there is at most one reconnect, at whose time no call has been
\* replayed: while the port is lost, and while the timer is armed, nothing is visited.
Phase ==
  /\ \A p \in 1..opened : port[p].state # "open" => drops = 1
  /\ \A p, q \in 1..opened : port[p].state # "open" /\ port[q].state # "open" => p = q
  /\ HasReconnect(timers) => drops = 1 /\ \A p \in 1..opened : port[p].state # "dropped"
  /\ OneReconnect(timers)
  /\ drops = 0 \/ Recovering => replay = {} /\ retriedOnce = {}
  /\ replay \cap retriedOnce = {}
  /\ replay # {} => nativePort # NoPort

NoneLost == \A c \in Calls : outcome[c].kind # "lost"

RecoveryInv == drops <= 1 /\ refusals = 0 => Phase /\ NoneLost

\* Ports keep their states, and those added are open.
StatesKept ==
  \A p \in 1..opened' :
    port'[p].state # "open" => p \in 1..opened /\ port[p].state = port'[p].state

LEMMA RecoveryFrame ==
  ASSUME RecoveryInv, drops' = drops, refusals' = 0 => refusals = 0,
         StatesKept,
         HasReconnect(timers') => HasReconnect(timers),
         OneReconnect(timers) => OneReconnect(timers'),
         replay' = replay, retriedOnce' \subseteq retriedOnce,
         replay # {} => nativePort' = nativePort,
         NoneLost => NoneLost'
  PROVE  RecoveryInv'
<1>1. SUFFICES ASSUME drops <= 1, refusals = 0
      PROVE  Phase' /\ NoneLost'
  BY DEF RecoveryInv
<1>2. Phase /\ NoneLost
  BY <1>1 DEF RecoveryInv
<1>3. Recovering' => Recovering
  BY DEF Recovering, StatesKept
<1> QED
  BY <1>2, <1>3 DEF Phase, StatesKept

LEMMA ConnectStates ==
  ASSUME TypeOK, NEW ok \in BOOLEAN, ConnectNative(ok)
  PROVE  /\ StatesKept
         /\ refusals' = 0 => refusals = 0 /\ ok
         /\ ok => nativePort' # NoPort
<1>1. StatesKept
  BY ConnectPorts DEF StatesKept, FreshPort
<1>2. refusals \in Nat /\ opened \in Nat
  BY DEF TypeOK
<1> QED
  BY <1>1, <1>2 DEF ConnectNative, NoPort

LEMMA PostStates ==
  ASSUME TypeOK, NEW id \in Calls, nativePort # NoPort, Post(id), opened' = opened
  PROVE  StatesKept
  BY PostPorts DEF StatesKept

LEMMA RecoveryNext == TypeOK /\ CallsInv /\ RecoveryInv /\ [Next]_vars => RecoveryInv'
<1> SUFFICES ASSUME TypeOK, CallsInv, RecoveryInv, [Next]_vars
             PROVE  RecoveryInv'
  OBVIOUS
<1> USE DEF calls, history
<1>0. timers \in Seq(Timers) /\ outcome \in [Calls -> Outcomes] /\ drops \in Nat
  BY DEF TypeOK
<1>1. CASE NativeCall
  <2>1. msgId + 1 \in Calls /\ {msgId + 1} \in SUBSET Calls
    BY <1>1, BoundsAssumption DEF NativeCall, TypeOK, Calls
  <2>2. /\ drops' = drops /\ replay' = replay /\ retriedOnce' = retriedOnce /\ replay = {}
    BY <1>1 DEF NativeCall, Quiet
  <2>3. CASE /\ UNCHANGED outcome
             /\ \E ok \in BOOLEAN :
                  /\ ConnectNative(ok)
                  /\ timers' = Arm(AfterConnect(ok, timers), Unreachable, {msgId + 1})
    <3>1. PICK ok \in BOOLEAN :
            /\ ConnectNative(ok)
            /\ timers' = Arm(AfterConnect(ok, timers), Unreachable, {msgId + 1})
      BY <2>3
    <3>2. StatesKept /\ (refusals' = 0 => refusals = 0)
      BY <3>1, ConnectStates
    <3>3. Unreachable # Reconnect
      BY DEF Unreachable, Reconnect
    <3>4. /\ HasReconnect(timers') => HasReconnect(timers)
          /\ OneReconnect(timers) => OneReconnect(timers')
      BY <1>0, <2>1, <3>1, <3>3, AfterConnectType, AfterConnectReconnect, ArmReconnect
    <3>5. NoneLost => NoneLost'
      BY <2>3 DEF NoneLost
    <3> QED
      BY <2>2, <3>2, <3>4, <3>5, RecoveryFrame
  <2>4. CASE /\ nativePort # NoPort /\ Post(msgId + 1)
             /\ UNCHANGED <<nativePort, opened, timers, refusals, outcome>>
    <3>1. StatesKept
      BY <2>1, <2>4, PostStates
    <3> QED
      BY <2>2, <2>4, <3>1, RecoveryFrame DEF NoneLost
  <2>5. CASE /\ outcome' = [outcome EXCEPT ![msgId + 1] = Failure("unposted")]
             /\ UNCHANGED <<nativePort, opened, port, timers, refusals>>
    <3>1. StatesKept
      BY <2>5 DEF StatesKept
    <3>2. NoneLost => NoneLost'
      BY <1>0, <2>5 DEF NoneLost, Failure
    <3> QED
      BY <2>2, <2>5, <3>1, <3>2, RecoveryFrame
  <2> QED
    BY <1>1, <2>3, <2>4, <2>5 DEF NativeCall
<1>2. ASSUME NEW p \in 1..opened, OnMessage(p) PROVE RecoveryInv'
  <2>1. /\ drops' = drops /\ refusals' = refusals /\ replay' = replay /\ timers' = timers
        /\ opened' = opened /\ nativePort' = nativePort
        /\ port' = [port EXCEPT ![p].outbox = Tail(@)]
    BY <1>2 DEF OnMessage
  <2>2. StatesKept
    BY <2>1 DEF TypeOK, Ports, StatesKept
  <2>3. retriedOnce' \subseteq retriedOnce
    BY <1>2 DEF OnMessage
  <2>4. NoneLost => NoneLost'
    <3>1. outcome' = outcome \/ \E c, id : outcome' = [outcome EXCEPT ![c] = Reply(id)]
      BY <1>2 DEF OnMessage, Settle
    <3> QED
      BY <1>0, <3>1 DEF NoneLost, Reply
  <2> QED
    BY <2>1, <2>2, <2>3, <2>4, RecoveryFrame
<1>3. ASSUME NEW p \in 1..opened, OnDisconnect(p) PROVE RecoveryInv'
  <2>1. SUFFICES ASSUME drops <= 1, refusals = 0
        PROVE  Phase' /\ NoneLost'
    BY <1>3 DEF OnDisconnect, RecoveryInv
  <2>2. Phase /\ NoneLost
    BY <2>1 DEF RecoveryInv
  <2>3. /\ port[p].state = "dropped" /\ Recovering
        /\ drops = 1 /\ replay = {} /\ retriedOnce = {} /\ ~HasReconnect(timers)
    BY <1>3, <2>2 DEF OnDisconnect, Recovering, Phase
  <2>4. \A q \in 1..opened : q # p => port[q].state = "open"
    BY <2>2, <2>3 DEF Phase
  <2>5. /\ opened' = opened /\ port'[p].state = "closed"
        /\ \A q \in 1..opened : q # p => port'[q].state = "open"
    BY <1>3, <2>4 DEF OnDisconnect, TypeOK, Ports
  <2>6. OneReconnect(timers')
    BY <1>0, <1>3, <2>3, ArmReconnect DEF OnDisconnect, Rearm, Snapshot, TypeOK
  <2>7. drops' = 1 /\ replay' = {} /\ retriedOnce' = {} /\ outcome' = outcome
    BY <1>3, <2>3 DEF OnDisconnect
  <2> QED
    BY <2>2, <2>5, <2>6, <2>7 DEF Phase, Recovering, NoneLost
<1>4. ASSUME NEW k \in 1..Len(timers), FireReconnect(k) PROVE RecoveryInv'
  <2>1. PICK ok \in BOOLEAN :
          ConnectNative(ok) /\ timers' = AfterConnect(ok, RemoveAt(timers, k))
    BY <1>4 DEF FireReconnect
  <2>2. SUFFICES ASSUME drops <= 1, refusals' = 0
        PROVE  Phase' /\ NoneLost'
    BY <1>4 DEF FireReconnect, RecoveryInv
  <2>3. StatesKept /\ refusals = 0 /\ nativePort' # NoPort
    BY <2>1, <2>2, ConnectStates
  <2>4. Phase /\ NoneLost
    BY <2>2, <2>3 DEF RecoveryInv
  <2>5. HasReconnect(timers) /\ Recovering
    BY <1>4 DEF FireReconnect, HasReconnect, Recovering
  <2>6. drops = 1 /\ retriedOnce = {} /\ \A p \in 1..opened : port[p].state # "dropped"
    BY <2>4, <2>5 DEF Phase
  <2>7. ~HasReconnect(timers') /\ OneReconnect(timers')
    <3>1. RemoveAt(timers, k) \in Seq(Timers)
      BY FiredType
    <3>2. ~HasReconnect(RemoveAt(timers, k)) /\ OneReconnect(RemoveAt(timers, k))
      BY <1>0, <1>4, <2>4, FiredReconnect DEF FireReconnect, Phase
    <3> QED
      BY <2>1, <3>1, <3>2, AfterConnectReconnect
  <2>8. drops' = 1 /\ retriedOnce' = {} /\ outcome' = outcome
    BY <1>4, <2>6 DEF FireReconnect
  <2>9. ~Recovering'
    BY <2>3, <2>6, <2>7 DEF Recovering, StatesKept
  <2> QED
    BY <2>3, <2>4, <2>7, <2>8, <2>9 DEF Phase, StatesKept, NoneLost
<1>5. ASSUME NEW id \in replay, ReplayNext(id) PROVE RecoveryInv'
  <2>1. SUFFICES ASSUME drops <= 1, refusals = 0
        PROVE  Phase' /\ NoneLost'
    BY <1>5 DEF ReplayNext, RecoveryInv
  <2>2. Phase /\ NoneLost
    BY <2>1 DEF RecoveryInv
  <2>3. /\ drops # 0 /\ ~Recovering /\ id \notin retriedOnce /\ nativePort # NoPort
    BY <2>2 DEF Phase
  <2>4. id \in Calls /\ id \in pendingMessages
    BY DEF CallsInv, Visiting, PendingInStep, TypeOK
  <2>5. Replayable(id)
    BY <2>3, <2>4 DEF Replayable
  <2>6. /\ opened' = opened /\ timers' = timers /\ drops' = drops
        /\ nativePort' = nativePort /\ replay' = replay \ {id}
    BY <1>5 DEF ReplayNext
  <2>7. StatesKept
    <3>1. CASE Post(id)
      BY <2>3, <2>4, <2>6, <3>1, PostStates
    <3>2. CASE port' = port
      BY <2>6, <3>2 DEF StatesKept
    <3> QED
      BY <1>5, <2>5, <3>1, <3>2 DEF ReplayNext
  <2>8. retriedOnce' \subseteq retriedOnce \cup {id}
    BY <1>5, <2>5 DEF ReplayNext
  <2>9. NoneLost'
    <3>1. outcome' = outcome \/ outcome' = [outcome EXCEPT ![id] = Failure("unposted")]
      BY <1>5, <2>5 DEF ReplayNext, Settle
    <3> QED
      BY <1>0, <2>2, <3>1 DEF NoneLost, Failure
  <2>10. ~Recovering'
    BY <2>3, <2>6, <2>7 DEF Recovering, StatesKept
  <2> QED
    BY <2>2, <2>3, <2>6, <2>7, <2>8, <2>9, <2>10 DEF Phase, StatesKept
<1>6. ASSUME NEW k \in 1..Len(timers), FireRetryConnect(k) PROVE RecoveryInv'
  <2>1. PICK ok \in BOOLEAN :
          ConnectNative(ok) /\ timers' = AfterConnect(ok, RemoveAt(timers, k))
    BY <1>6 DEF FireRetryConnect
  <2>2. StatesKept /\ (refusals' = 0 => refusals = 0)
    BY <2>1, ConnectStates
  <2>3. /\ HasReconnect(timers') => HasReconnect(timers)
        /\ OneReconnect(timers) => OneReconnect(timers')
    BY <1>0, <2>1, FiredType, FiredReconnect, AfterConnectReconnect
  <2>4. /\ drops' = drops /\ replay' = replay /\ retriedOnce' = retriedOnce /\ replay = {}
        /\ outcome' = outcome
    BY <1>6 DEF FireRetryConnect, Quiet
  <2> QED
    BY <2>2, <2>3, <2>4, RecoveryFrame DEF NoneLost
<1>7. ASSUME NEW k \in 1..Len(timers), FireUnreachable(k) PROVE RecoveryInv'
  <2>1. /\ drops' = drops /\ replay' = replay /\ retriedOnce' = retriedOnce /\ replay = {}
        /\ refusals' = refusals /\ opened' = opened /\ port' = port
        /\ timers' = RemoveAt(timers, k)
    BY <1>7 DEF FireUnreachable, Quiet
  <2>2. /\ HasReconnect(timers') => HasReconnect(timers)
        /\ OneReconnect(timers) => OneReconnect(timers')
    BY <1>0, <2>1, FiredReconnect
  <2>3. NoneLost => NoneLost'
    <3>1. outcome' = outcome \/ \E c : outcome' = [outcome EXCEPT ![c] = Failure("unreachable")]
      BY <1>7 DEF FireUnreachable, Settle
    <3> QED
      BY <1>0, <3>1 DEF NoneLost, Failure
  <2> QED
    BY <2>1, <2>2, <2>3, RecoveryFrame DEF StatesKept
<1>8. ASSUME NEW p \in 1..opened, HostStep(p) PROVE RecoveryInv'
  <2>1. /\ drops' = drops /\ replay' = replay /\ retriedOnce' = retriedOnce
        /\ refusals' = refusals /\ opened' = opened /\ nativePort' = nativePort
        /\ timers' = timers /\ outcome' = outcome
    BY <1>8 DEF HostStep, HostRead, HostReply
  <2>2. StatesKept
    <3>1. CASE HostRead(p)
      BY <2>1, <3>1 DEF HostRead, TypeOK, Ports, StatesKept
    <3>2. CASE HostReply(p)
      BY <2>1, <3>2 DEF HostReply, TypeOK, Ports, StatesKept
    <3> QED
      BY <1>8, <3>1, <3>2 DEF HostStep
  <2> QED
    BY <2>1, <2>2, RecoveryFrame DEF NoneLost
<1>9. ASSUME NEW p \in 1..opened, PortDrop(p) PROVE RecoveryInv'
  <2>1. SUFFICES ASSUME drops = 0, refusals = 0
        PROVE  Phase' /\ NoneLost'
    BY <1>0, <1>9 DEF PortDrop, RecoveryInv
  <2>2. Phase /\ NoneLost
    BY <2>1 DEF RecoveryInv
  <2>3. /\ \A q \in 1..opened : port[q].state = "open"
        /\ ~HasReconnect(timers) /\ replay = {} /\ retriedOnce = {}
    BY <2>1, <2>2 DEF Phase
  <2>4. /\ opened' = opened
        /\ \A q \in 1..opened : q # p => port'[q].state = "open"
    BY <1>9, <2>3 DEF PortDrop, TypeOK, Ports
  <2>5. /\ drops' = 1 /\ timers' = timers /\ replay' = {} /\ retriedOnce' = {}
        /\ outcome' = outcome
    BY <1>9, <2>1, <2>3 DEF PortDrop
  <2> QED
    BY <2>2, <2>3, <2>4, <2>5 DEF Phase, NoneLost
<1>10. CASE UNCHANGED vars
  BY <1>10, RecoveryFrame DEF vars, StatesKept, NoneLost
<1> QED
  BY <1>1, <1>2, <1>3, <1>4, <1>5, <1>6, <1>7, <1>8, <1>9, <1>10 DEF Next, WorkerStep

LEMMA RecoveryInit == Init => RecoveryInv
<1> SUFFICES ASSUME Init, refusals = 0
             PROVE  Phase /\ NoneLost
  BY DEF RecoveryInv
<1>1. opened = 1 /\ port[1].state = "open" /\ timers = <<>>
  BY DEF Init, FreshPort
<1>2. ~HasReconnect(timers) /\ OneReconnect(timers)
  BY <1>1 DEF HasReconnect, OneReconnect
<1> QED
  BY <1>1, <1>2 DEF Init, Phase, Recovering, NoneLost, Unsettled

\* A single dropped port is recoverable (background.js 236-239): for every number of
\* calls, none is reported lost unless a second port drops or a connection is refused.
THEOREM OneDropRecovers == Spec => []OneDropIsRecovered
<1>1. RecoveryInv => OneDropIsRecovered
  BY DEF RecoveryInv, NoneLost, OneDropIsRecovered
<1> QED
  BY <1>1, CallsAlways, RecoveryInit, RecoveryNext, PTL DEF Spec
=============================================================================
