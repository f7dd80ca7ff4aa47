----------------------- MODULE NativeBridgeRefinement -----------------------
(***************************************************************************)
(* A proof that NativeBridge implements CallService, but for its liveness: *)
(* whatever ports drop, the bridge does nothing a caller would not expect  *)
(* of the service, for any number of calls, drops and refusals.            *)
(***************************************************************************)
EXTENDS NativeBridgeProofs

-----------------------------------------------------------------------------
(* Sets of at most two elements *)

\* S has at most n elements, for n up to two.
Fits(S, n) ==
  /\ n \in 0..2
  /\ n = 0 => S = {}
  /\ n = 1 => \A x, y \in S : x = y
  /\ n = 2 => \A x, y, z \in S : x = y \/ y = z \/ x = z

LEMMA FitsAdd ==
  ASSUME NEW S, NEW T, NEW x, NEW n \in 0..1, Fits(S, n), T \subseteq S \cup {x}
  PROVE  Fits(T, n + 1)
  BY DEF Fits

LEMMA FitsSub ==
  ASSUME NEW S, NEW T, NEW n, Fits(S, n), T \subseteq S
  PROVE  Fits(T, n)
  BY DEF Fits

LEMMA FitsRemove ==
  ASSUME NEW S, NEW x \in S, NEW n, Fits(S, n)
  PROVE  n > 0 /\ Fits(S \ {x}, n - 1)
  BY DEF Fits

LEMMA FitsInjection ==
  ASSUME NEW S, NEW T, NEW n, Fits(S, n), NEW f,
         \A x \in T : f[x] \in S, \A x, y \in T : f[x] = f[y] => x = y
  PROVE  Fits(T, n)
<1>1. CASE n = 0
  BY <1>1 DEF Fits
<1>2. CASE n = 1
  <2>1. \A x, y \in T : f[x] = f[y]
    BY <1>2 DEF Fits
  <2> QED
    BY <1>2, <2>1 DEF Fits
<1>3. CASE n = 2
  <2>1. \A x, y, z \in T : f[x] = f[y] \/ f[y] = f[z] \/ f[x] = f[z]
    BY <1>3 DEF Fits
  <2> QED
    BY <1>3, <2>1 DEF Fits
<1> QED
  BY <1>1, <1>2, <1>3 DEF Fits

-----------------------------------------------------------------------------
(* A call is executed no more often than it was posted *)

\* The places of call c in the inboxes of the ports.
Copies(c) ==
  {x \in (1..opened) \X Nat : x[2] \in 1..Len(port[x[1]].inbox) /\ port[x[1]].inbox[x[2]] = c}

Room(c) == posts[c] - runs[c]

\* Each post was executed, is waiting in an inbox, or was lost.
PostsInv == \A c \in Calls : Fits(Copies(c), Room(c))

LEMMA InboxType ==
  ASSUME TypeOK, NEW p \in 1..opened
  PROVE  /\ port[p] \in Ports /\ port[p].inbox \in Seq(Ids) /\ Len(port[p].inbox) \in Nat
  BY DEF TypeOK, Ports

\* A step that posts and executes nothing.
LEMMA PostsFrame ==
  ASSUME PostsInv, UNCHANGED <<posts, runs>>,
         \A c \in Calls : Copies(c)' \subseteq Copies(c)
  PROVE  PostsInv'
<1> SUFFICES ASSUME NEW c \in Calls PROVE Fits(Copies(c), Room(c))'
  BY DEF PostsInv
<1>1. Fits(Copies(c), Room(c)) /\ Room(c)' = Room(c) /\ Copies(c)' \subseteq Copies(c)
  BY DEF PostsInv, Room
<1>2. Fits(Copies(c)', Room(c))
  BY <1>1, FitsSub
<1> QED
  BY <1>1, <1>2 DEF Fits

LEMMA PostsPorts ==
  ASSUME TypeOK, PostsInv, UNCHANGED <<posts, runs>>, opened' = opened,
         \A q \in 1..opened : port'[q].inbox = port[q].inbox \/ port'[q].inbox = <<>>
  PROVE  PostsInv'
<1>1. ASSUME NEW c \in Calls, NEW x \in Copies(c)' PROVE x \in Copies(c)
  <2>1. /\ x \in (1..opened) \X Nat /\ x[2] \in 1..Len(port'[x[1]].inbox)
        /\ port'[x[1]].inbox[x[2]] = c /\ x[1] \in 1..opened
    BY <1>1 DEF Copies
  <2>2. Len(<<>>) = 0
    OBVIOUS
  <2>3. port'[x[1]].inbox = port[x[1]].inbox
    BY <2>1, <2>2
  <2> QED
    BY <2>1, <2>3 DEF Copies
<1> QED
  BY <1>1, PostsFrame

LEMMA PostsConnect ==
  ASSUME TypeOK, PostsInv, UNCHANGED <<posts, runs>>, NEW ok \in BOOLEAN, ConnectNative(ok)
  PROVE  PostsInv'
<1>1. ASSUME NEW c \in Calls, NEW x \in Copies(c)' PROVE x \in Copies(c)
  <2>1. /\ x \in (1..opened') \X Nat /\ x[2] \in 1..Len(port'[x[1]].inbox)
        /\ port'[x[1]].inbox[x[2]] = c /\ x[1] \in 1..opened'
    BY <1>1 DEF Copies
  <2>2. x[1] \in 1..opened
    <3> SUFFICES ASSUME x[1] \notin 1..opened PROVE FALSE
      OBVIOUS
    <3>1. port'[x[1]].inbox = <<PING_ID>>
      BY <2>1, ConnectPorts DEF FreshPort
    <3>2. Len(<<PING_ID>>) = 1 /\ <<PING_ID>>[1] = PING_ID
      OBVIOUS
    <3>3. c = PING_ID
      BY <2>1, <3>1, <3>2
    <3> QED
      BY <3>3, Constants
  <2>3. port'[x[1]] = port[x[1]]
    BY <2>2, ConnectPorts
  <2>4. x \in (1..opened) \X Nat
    BY <2>1, <2>2
  <2> QED
    BY <2>1, <2>3, <2>4 DEF Copies
<1> QED
  BY <1>1, PostsFrame

\* Posting adds one copy at most.
LEMMA PostsPost ==
  ASSUME TypeOK, PostsInv, BoundedReplay', NEW id \in Calls, nativePort # NoPort, Post(id),
         UNCHANGED <<opened, runs>>
  PROVE  PostsInv'
<1> DEFINE p == nativePort
           last == <<p, Len(port[p].inbox) + 1>>
<1>1. /\ p \in 1..opened
      /\ \A q \in 1..opened :
           port'[q].inbox = IF q = p /\ port[q].state = "open"
                            THEN Append(port[q].inbox, id) ELSE port[q].inbox
  BY PostPorts
<1>2. /\ Len(port[p].inbox) \in Nat
      /\ Len(Append(port[p].inbox, id)) = Len(port[p].inbox) + 1
      /\ \A k \in 1..Len(port[p].inbox) : Append(port[p].inbox, id)[k] = port[p].inbox[k]
      /\ Append(port[p].inbox, id)[Len(port[p].inbox) + 1] = id
  <2> DEFINE q == port[p].inbox
  <2>1. q \in Seq(Ids) /\ id \in Ids
    BY <1>1, InboxType DEF Ids
  <2> HIDE DEF q
  <2>2. /\ Len(q) \in Nat /\ Len(Append(q, id)) = Len(q) + 1
        /\ \A k \in 1..Len(q) : Append(q, id)[k] = q[k]
        /\ Append(q, id)[Len(q) + 1] = id
    BY <2>1, AppendProperties, LenProperties
  <2> QED
    BY <2>2 DEF q
<1> HIDE DEF p
<1>3. ASSUME NEW c \in Calls, NEW x \in Copies(c)', x \notin Copies(c)
      PROVE  c = id /\ x = last
  <2>1. /\ x \in (1..opened) \X Nat /\ x[2] \in 1..Len(port'[x[1]].inbox)
        /\ port'[x[1]].inbox[x[2]] = c /\ x[1] \in 1..opened
    BY <1>3 DEF Copies
  <2>2. x[1] = p /\ port'[p].inbox = Append(port[p].inbox, id)
    <3> SUFFICES ASSUME ~(x[1] = p /\ port'[p].inbox = Append(port[p].inbox, id))
                 PROVE  FALSE
      OBVIOUS
    <3>1. port'[x[1]].inbox = port[x[1]].inbox
      BY <1>1, <2>1
    <3> QED
      BY <1>3, <2>1, <3>1 DEF Copies
  <2>3. x[2] \notin 1..Len(port[p].inbox)
    <3> SUFFICES ASSUME x[2] \in 1..Len(port[p].inbox) PROVE FALSE
      OBVIOUS
    <3>1. port[x[1]].inbox[x[2]] = c
      BY <1>2, <2>1, <2>2
    <3> QED
      BY <1>3, <2>1, <2>2, <3>1 DEF Copies
  <2>4. x[2] = Len(port[p].inbox) + 1
    BY <1>2, <2>1, <2>2, <2>3
  <2>5. x = <<x[1], x[2]>>
    BY <2>1
  <2> QED
    BY <1>2, <2>1, <2>2, <2>4, <2>5
<1> HIDE DEF last
<1> SUFFICES ASSUME NEW c \in Calls PROVE Fits(Copies(c), Room(c))'
  BY DEF PostsInv
<1>4. Fits(Copies(c), Room(c))
  BY DEF PostsInv
<1>5. CASE c # id
  <2>1. Room(c)' = Room(c)
    BY <1>5 DEF Room, Post, TypeOK
  <2>2. Copies(c)' \subseteq Copies(c)
    BY <1>3, <1>5
  <2>3. Fits(Copies(c)', Room(c))
    BY <1>4, <2>2, FitsSub
  <2> QED
    BY <2>1, <2>3 DEF Fits
<1>6. CASE c = id
  <2>1. Room(c) \in 0..1 /\ Room(c)' = Room(c) + 1
    <3>1. /\ posts'[c] = posts[c] + 1 /\ posts[c] \in Nat /\ runs[c] \in Nat /\ posts'[c] <= 2
      BY <1>6, PostCounts DEF TypeOK, BoundedReplay
    <3>2. posts[c] - runs[c] \in 0..2
      BY <1>4 DEF Fits, Room
    <3> QED
      BY <3>1, <3>2 DEF Room
  <2>2. Copies(c)' \subseteq Copies(c) \cup {last}
    BY <1>3
  <2>3. Fits(Copies(c)', Room(c) + 1)
    BY <1>4, <2>1, <2>2, FitsAdd
  <2> QED
    BY <2>1, <2>3 DEF Fits
<1> QED
  BY <1>5, <1>6

\* A host that executes a call takes one of its copies.
LEMMA PostsRead ==
  ASSUME TypeOK, PostsInv, NEW p \in 1..opened, HostRead(p)
  PROVE  /\ PostsInv'
         /\ Head(port[p].inbox) \in Ids
         /\ \A c \in Calls : c = Head(port[p].inbox) => Copies(c) # {} /\ Room(c) > 0
<1> DEFINE q == port[p].inbox
           id == Head(q)
           first == <<p, 1>>
           f == [x \in (1..opened) \X Nat |-> IF x[1] = p THEN <<x[1], x[2] + 1>> ELSE x]
<1>1. /\ q \in Seq(Ids) /\ q # <<>> /\ opened' = opened
      /\ port' = [port EXCEPT ![p].inbox = Tail(q), ![p].running = {id}]
      /\ runs' = IF id = PING_ID THEN runs ELSE [runs EXCEPT ![id] = runs[id] + 1]
      /\ posts' = posts
  BY InboxType DEF HostRead
<1>2. /\ port'[p].inbox = Tail(q)
      /\ \A r \in 1..opened : r # p => port'[r] = port[r]
  <2>1. \A r \in 1..opened : port[r] \in Ports
    BY DEF TypeOK
  <2> QED
    BY <1>1, <2>1 DEF TypeOK, Ports
<1>3. /\ id \in Ids /\ id = q[1] /\ 1 \in 1..Len(q) /\ Len(q) \in Nat
      /\ \A k \in 1..Len(Tail(q)) : k + 1 \in 1..Len(q) /\ k + 1 # 1 /\ Tail(q)[k] = q[k + 1]
  <2> HIDE DEF q
  <2>1. /\ Len(q) \in Nat \ {0} /\ id = q[1] /\ id \in Ids
        /\ Len(Tail(q)) = Len(q) - 1
        /\ \A k \in 1..Len(Tail(q)) : Tail(q)[k] = q[k + 1]
    BY <1>1, HeadTailProperties, EmptySeq, LenProperties
  <2> QED
    BY <2>1
<1>4. ASSUME NEW c \in Calls, NEW x \in Copies(c)'
      PROVE  /\ f[x] \in Copies(c) \ {first} /\ x \in (1..opened) \X Nat
  <2>1. /\ x \in (1..opened) \X Nat /\ x[2] \in 1..Len(port'[x[1]].inbox)
        /\ port'[x[1]].inbox[x[2]] = c /\ x[1] \in 1..opened /\ x[2] \in Nat
    BY <1>1, <1>4 DEF Copies
  <2>2. CASE x[1] = p
    <3>1. f[x] = <<p, x[2] + 1>>
      BY <2>1, <2>2
    <3>2. x[2] + 1 \in 1..Len(q) /\ q[x[2] + 1] = c /\ x[2] + 1 # 1
      BY <1>2, <1>3, <2>1, <2>2
    <3>3. <<p, x[2] + 1>> \in (1..opened) \X Nat /\ <<p, x[2] + 1>> # first
      BY <2>1, <3>2
    <3>4. <<p, x[2] + 1>> \in Copies(c)
      BY <3>2, <3>3 DEF Copies
    <3> QED
      BY <2>1, <3>1, <3>3, <3>4
  <2>3. CASE x[1] # p
    <3>1. f[x] = x /\ port'[x[1]] = port[x[1]]
      BY <1>2, <2>1, <2>3
    <3>2. x # first
      BY <2>3
    <3> QED
      BY <2>1, <3>1, <3>2 DEF Copies
  <2> QED
    BY <2>2, <2>3
<1>5. ASSUME NEW x \in (1..opened) \X Nat, NEW y \in (1..opened) \X Nat, f[x] = f[y]
      PROVE  x = y
  <2>1. x = <<x[1], x[2]>> /\ y = <<y[1], y[2]>> /\ x[2] \in Nat /\ y[2] \in Nat
    OBVIOUS
  <2>2. /\ f[x] = IF x[1] = p THEN <<x[1], x[2] + 1>> ELSE x
        /\ f[y] = IF y[1] = p THEN <<y[1], y[2] + 1>> ELSE y
    OBVIOUS
  <2>3. f[x][1] = x[1] /\ f[y][1] = y[1]
    BY <2>1, <2>2
  <2>4. x[2] = y[2]
    BY <1>5, <2>1, <2>2, <2>3
  <2> QED
    BY <1>5, <2>1, <2>3, <2>4
<1> HIDE DEF f
<1>6. \A c \in Calls : Fits(Copies(c), Room(c))
  BY DEF PostsInv
<1>7. ASSUME NEW c \in Calls, c = id
      PROVE  first \in Copies(c) /\ Room(c) > 0 /\ Fits(Copies(c) \ {first}, Room(c) - 1)
  <2>1. first \in (1..opened) \X Nat
    OBVIOUS
  <2>2. first \in Copies(c)
    BY <1>3, <1>7, <2>1 DEF Copies
  <2> QED
    BY <1>6, <2>2, FitsRemove
<1>8. ASSUME NEW c \in Calls PROVE Fits(Copies(c), Room(c))'
  <2>1. CASE c = id
    <3>1. Room(c)' = Room(c) - 1
      <4>1. runs'[c] = runs[c] + 1 /\ runs[c] \in Nat /\ posts[c] \in Nat
        BY <1>1, <2>1, Constants DEF TypeOK
      <4> QED
        BY <1>1, <4>1 DEF Room
    <3> DEFINE S == Copies(c) \ {first}
               T == Copies(c)'
    <3>2. /\ Fits(S, Room(c) - 1)
          /\ \A x \in T : f[x] \in S
          /\ \A x, y \in T : f[x] = f[y] => x = y
      BY <1>4, <1>5, <1>7, <2>1
    <3> HIDE DEF S, T
    <3>3. Fits(T, Room(c) - 1)
      BY <3>2, FitsInjection
    <3> QED
      BY <3>1, <3>3 DEF Fits, T
  <2>2. CASE c # id
    <3>1. Room(c)' = Room(c)
      BY <1>1, <1>3, <2>2 DEF TypeOK, Room
    <3>2. Fits(Copies(c)', Room(c))
      BY <1>4, <1>5, <1>6, FitsInjection
    <3> QED
      BY <3>1, <3>2 DEF Fits
  <2> QED
    BY <2>1, <2>2
<1> QED
  BY <1>3, <1>7, <1>8 DEF PostsInv

LEMMA PostsNext == TypeOK /\ PostsInv /\ BoundedReplay' /\ [Next]_vars => PostsInv'
<1> SUFFICES ASSUME TypeOK, PostsInv, BoundedReplay', [Next]_vars PROVE PostsInv'
  OBVIOUS
<1>0. \A p \in 1..opened : port[p] \in Ports
  BY DEF TypeOK
<1>1. CASE NativeCall
  <2>1. runs' = runs /\ msgId + 1 \in Calls
    BY <1>1, Constants DEF NativeCall, TypeOK, Calls
  <2>2. CASE nativePort = NoPort
    <3>1. PICK ok \in BOOLEAN : ConnectNative(ok)
      BY <1>1, <2>2 DEF NativeCall
    <3>2. posts' = posts
      BY <1>1, <2>2 DEF NativeCall
    <3> QED
      BY <2>1, <3>1, <3>2, PostsConnect
  <2>3. CASE nativePort # NoPort /\ Post(msgId + 1) /\ opened' = opened
    BY <2>1, <2>3, PostsPost
  <2>4. CASE UNCHANGED <<opened, port, posts>>
    BY <2>1, <2>4, PostsPorts
  <2> QED
    BY <1>1, <2>2, <2>3, <2>4 DEF NativeCall
<1>2. ASSUME NEW p \in 1..opened, OnMessage(p) PROVE PostsInv'
  <2>1. /\ port' = [port EXCEPT ![p].outbox = Tail(port[p].outbox)]
        /\ UNCHANGED <<opened, posts, runs>>
    BY <1>2 DEF OnMessage
  <2>2. \A q \in 1..opened : port'[q].inbox = port[q].inbox
    BY <1>0, <2>1 DEF TypeOK, Ports
  <2> QED
    BY <2>1, <2>2, PostsPorts
<1>3. ASSUME NEW p \in 1..opened, OnDisconnect(p) PROVE PostsInv'
  <2>1. /\ port' = [port EXCEPT ![p].state = "closed", ![p].outbox = <<>>]
        /\ UNCHANGED <<opened, posts, runs>>
    BY <1>3 DEF OnDisconnect, history
  <2>2. \A q \in 1..opened : port'[q].inbox = port[q].inbox
    BY <1>0, <2>1 DEF TypeOK, Ports
  <2> QED
    BY <2>1, <2>2, PostsPorts
<1>4. ASSUME NEW k \in 1..Len(timers), FireReconnect(k) \/ FireRetryConnect(k) PROVE PostsInv'
  <2>1. PICK ok \in BOOLEAN : ConnectNative(ok)
    BY <1>4 DEF FireReconnect, FireRetryConnect
  <2>2. UNCHANGED <<posts, runs>>
    BY <1>4 DEF FireReconnect, FireRetryConnect, history
  <2> QED
    BY <2>1, <2>2, PostsConnect
<1>5. ASSUME NEW k \in 1..Len(timers), FireUnreachable(k) PROVE PostsInv'
  <2>1. UNCHANGED <<opened, port, posts, runs>>
    BY <1>5 DEF FireUnreachable
  <2> QED
    BY <2>1, PostsPorts
<1>6. ASSUME NEW id \in replay, ReplayNext(id) PROVE PostsInv'
  <2>1. id \in Calls /\ opened' = opened /\ runs' = runs
    BY <1>6 DEF TypeOK, ReplayNext
  <2>2. UNCHANGED <<port, posts>> \/ (nativePort # NoPort /\ Post(id))
    BY <1>6 DEF ReplayNext, Replayable
  <2> QED
    BY <2>1, <2>2, PostsPost, PostsPorts
<1>7. ASSUME NEW p \in 1..opened, HostRead(p) PROVE PostsInv'
  BY <1>7, PostsRead
<1>8. ASSUME NEW p \in 1..opened, HostReply(p) PROVE PostsInv'
  <2>1. PICK id \in port[p].running :
          port' = [port EXCEPT ![p].running = {}, ![p].outbox = Append(port[p].outbox, id)]
    BY <1>8 DEF HostReply
  <2>2. UNCHANGED <<opened, posts, runs>>
    BY <1>8 DEF HostReply, history
  <2>3. \A q \in 1..opened : port'[q].inbox = port[q].inbox
    BY <1>0, <2>1 DEF TypeOK, Ports
  <2> QED
    BY <2>2, <2>3, PostsPorts
<1>9. ASSUME NEW p \in 1..opened, PortDrop(p) PROVE PostsInv'
  <2>1. /\ port' = [port EXCEPT ![p].state = "dropped", ![p].inbox = <<>>, ![p].running = {}]
        /\ UNCHANGED <<opened, posts, runs>>
    BY <1>9 DEF PortDrop, history
  <2>2. \A q \in 1..opened : port'[q].inbox = port[q].inbox \/ port'[q].inbox = <<>>
    BY <1>0, <2>1 DEF TypeOK, Ports
  <2> QED
    BY <2>1, <2>2, PostsPorts
<1>10. CASE UNCHANGED vars
  <2>1. UNCHANGED <<opened, port, posts, runs>>
    BY <1>10 DEF vars, history
  <2> QED
    BY <2>1, PostsPorts
<1> QED
  BY <1>1, <1>2, <1>3, <1>4, <1>5, <1>6, <1>7, <1>8, <1>9, <1>10
  DEF Next, WorkerStep, HostStep

LEMMA PostsInit == Init => PostsInv
<1> SUFFICES ASSUME Init, NEW c \in Calls PROVE Fits(Copies(c), Room(c))
  BY DEF PostsInv
<1>1. \A p \in 1..opened : port[p].inbox = <<PING_ID>>
  BY DEF Init, FreshPort
<1>2. Len(<<PING_ID>>) = 1 /\ <<PING_ID>>[1] # c
  BY Constants
<1>3. Copies(c) = {}
  BY <1>1, <1>2 DEF Copies
<1>4. Room(c) = 0
  BY DEF Init, Room
<1> QED
  BY <1>3, <1>4 DEF Fits

-----------------------------------------------------------------------------
(* Every step is one of the service, or invisible to its callers *)

LEMMA ResultOf ==
  ASSUME TypeOK, NEW c \in Calls
  PROVE  /\ Result(c) = "none" <=> outcome[c] = Unsettled
         /\ outcome'[c] = outcome[c] => Result(c)' = Result(c)
         /\ \A id : outcome'[c] = Reply(id) => Result(c)' = "answered"
         /\ \A kind \in {"lost", "unreachable", "unposted"} :
              outcome'[c] = Failure(kind) => Result(c)' = "failed"
  BY DEF Result, Reply, Failure, Unsettled

\* A step that settles no call and executes none.
LEMMA ServiceStutters ==
  ASSUME TypeOK, UNCHANGED <<msgId, outcome, runs>>
  PROVE  UNCHANGED Service!svars
<1>1. \A c \in Calls : Result(c)' = Result(c)
  BY ResultOf
<1> QED
  BY <1>1 DEF Service!svars

\* A call that is settled by the step.
LEMMA ServiceSettles ==
  ASSUME TypeOK, CallsInv, RepliesInv', UNCHANGED <<msgId, runs>>,
         NEW c \in pendingCallbacks, NEW r, Settle(c, r),
         \/ \E id : r = Reply(id)
         \/ \E kind \in {"lost", "unreachable", "unposted"} : r = Failure(kind)
  PROVE  Service!Next
<1>1. c \in Calls /\ c <= msgId /\ outcome[c] = Unsettled
  BY DEF TypeOK, CallsInv, PendingInStep
<1>2. /\ outcome'[c] = r
      /\ \A d \in Calls \ {c} : outcome'[d] = outcome[d]
  BY <1>1 DEF Settle, TypeOK
<1> DEFINE before == [d \in Calls |-> Result(d)]
           after == [d \in Calls |-> Result(d)']
<1>3. before[c] = "none" /\ \A d \in Calls \ {c} : after[d] = before[d]
  BY <1>1, <1>2, ResultOf
<1>4. CASE \E id : r = Reply(id)
  <2>1. after[c] = "answered"
    BY <1>1, <1>2, <1>4, ResultOf
  <2>2. after = [before EXCEPT ![c] = "answered"]
    BY <1>3, <2>1
  <2>3. runs[c] > 0
    <3>1. outcome'[c].kind = "reply"
      BY <1>2, <1>4 DEF Reply
    <3> QED
      BY <1>1, <3>1 DEF RepliesInv, AnswerIsOwn
  <2>4. Service!Answer(c)
    BY <1>1, <1>3, <2>2, <2>3 DEF Service!Answer
  <2> QED
    BY <1>1, <2>4 DEF Service!Next, Service!CallIds, Calls
<1>5. CASE \E kind \in {"lost", "unreachable", "unposted"} : r = Failure(kind)
  <2>1. after[c] = "failed"
    BY <1>1, <1>2, <1>5, ResultOf
  <2>2. after = [before EXCEPT ![c] = "failed"]
    BY <1>3, <2>1
  <2>3. Service!Fail(c)
    BY <1>1, <1>3, <2>2 DEF Service!Fail
  <2> QED
    BY <1>1, <2>3 DEF Service!Next, Service!CallIds, Calls
<1> QED
  BY <1>4, <1>5

LEMMA ServiceNext ==
  ASSUME TypeOK, CallsInv, RepliesInv', PostsInv, BoundedReplay, [Next]_vars
  PROVE  [Service!Next]_Service!svars
<1> DEFINE before == [d \in Calls |-> Result(d)]
           after == [d \in Calls |-> Result(d)']
<1>1. CASE NativeCall
  <2> DEFINE id == msgId + 1
  <2>1. /\ id \in Calls /\ msgId' = id /\ msgId < MaxCalls /\ runs' = runs
    BY <1>1, Constants DEF NativeCall, TypeOK, Calls
  <2>2. CASE outcome' = outcome
    <3>1. after = before
      BY <2>2, ResultOf
    <3>2. Service!Issue
      BY <2>1, <3>1 DEF Service!Issue
    <3> QED
      BY <3>2 DEF Service!Next
  <2>3. CASE outcome' = [outcome EXCEPT ![id] = Failure("unposted")]
    <3>1. /\ outcome'[id] = Failure("unposted")
          /\ \A d \in Calls \ {id} : outcome'[d] = outcome[d]
      BY <2>1, <2>3 DEF TypeOK
    <3>2. after[id] = "failed" /\ \A d \in Calls \ {id} : after[d] = before[d]
      BY <2>1, <3>1, ResultOf
    <3>3. after = [before EXCEPT ![id] = "failed"]
      BY <3>2
    <3>4. Service!IssueFailing
      BY <2>1, <3>3 DEF Service!IssueFailing
    <3> QED
      BY <3>4 DEF Service!Next
  <2> QED
    BY <1>1, <2>2, <2>3 DEF NativeCall
<1>2. ASSUME NEW p \in 1..opened, OnMessage(p) PROVE [Service!Next]_Service!svars
  <2>1. UNCHANGED <<msgId, runs>>
    BY <1>2 DEF OnMessage
  <2>2. CASE outcome' = outcome
    BY <2>1, <2>2, ServiceStutters
  <2>3. CASE \E c \in Recipient(Head(port[p].outbox)) : Settle(c, Reply(Head(port[p].outbox)))
    BY <2>1, <2>3, ServiceSettles DEF Recipient
  <2> QED
    BY <1>2, <2>2, <2>3 DEF OnMessage
<1>3. ASSUME NEW k \in 1..Len(timers), FireUnreachable(k) PROVE [Service!Next]_Service!svars
  <2>1. UNCHANGED <<msgId, runs>>
    BY <1>3 DEF FireUnreachable
  <2>2. CASE outcome' = outcome
    BY <2>1, <2>2, ServiceStutters
  <2>3. CASE \E id \in timers[k].ids \cap pendingCallbacks : Settle(id, Failure("unreachable"))
    BY <2>1, <2>3, ServiceSettles
  <2> QED
    BY <1>3, <2>2, <2>3 DEF FireUnreachable
<1>4. ASSUME NEW id \in replay, ReplayNext(id) PROVE [Service!Next]_Service!svars
  <2>1. UNCHANGED <<msgId, runs>> /\ id \in pendingCallbacks
    BY <1>4 DEF ReplayNext, CallsInv, Visiting
  <2>2. CASE outcome' = outcome
    BY <2>1, <2>2, ServiceStutters
  <2>3. CASE Settle(id, Failure("lost")) \/ Settle(id, Failure("unposted"))
    BY <2>1, <2>3, ServiceSettles
  <2> QED
    BY <1>4, <2>2, <2>3 DEF ReplayNext
<1>5. ASSUME NEW p \in 1..opened, HostRead(p) PROVE [Service!Next]_Service!svars
  <2> DEFINE c == Head(port[p].inbox)
  <2>1. /\ UNCHANGED <<msgId, outcome>>
        /\ runs' = IF c = PING_ID THEN runs ELSE [runs EXCEPT ![c] = @ + 1]
    BY <1>5 DEF HostRead, calls
  <2>2. c \in Ids /\ \A d \in Calls : d = c => Room(d) > 0
    BY <1>5, PostsRead
  <2> HIDE DEF c
  <2>3. CASE c = PING_ID
    BY <2>1, <2>3, ServiceStutters
  <2>4. CASE c # PING_ID
    <3>1. c \in Calls /\ Room(c) > 0
      BY <2>2, <2>4 DEF Ids
    <3>2. /\ posts[c] \in Nat /\ runs[c] \in Nat /\ posts[c] <= 2
          /\ posts[c] > runs[c]
      BY <3>1 DEF TypeOK, BoundedReplay, Room
    <3>3. c <= msgId
      BY <3>1, <3>2 DEF CallsInv, Numbered, TypeOK, Calls
    <3>4. after = before
      BY <2>1, ResultOf
    <3>5. Service!Execute(c)
      BY <2>1, <2>4, <3>1, <3>2, <3>3, <3>4 DEF Service!Execute
    <3> QED
      BY <3>1, <3>5 DEF Service!Next, Service!CallIds, Calls
  <2> QED
    BY <2>3, <2>4
<1>6. CASE \/ \E p \in 1..opened : OnDisconnect(p) \/ HostReply(p) \/ PortDrop(p)
           \/ \E k \in 1..Len(timers) : FireReconnect(k) \/ FireRetryConnect(k)
           \/ UNCHANGED vars
  <2>1. UNCHANGED <<msgId, outcome, runs>>
    BY <1>6 DEF OnDisconnect, HostReply, PortDrop, FireReconnect, FireRetryConnect,
                vars, calls, history
  <2> QED
    BY <2>1, ServiceStutters
<1> QED
  BY <1>1, <1>2, <1>3, <1>4, <1>5, <1>6 DEF Next, WorkerStep, HostStep

LEMMA ServiceInit == Init => Service!Init
<1> SUFFICES ASSUME Init PROVE Service!Init
  OBVIOUS
<1>1. \A c \in Calls : Result(c) = "none"
  BY DEF Init, Result
<1> QED
  BY <1>1 DEF Init, Service!Init, Service!CallIds, Calls

\* What callers of nativeCall rely on (background.js 231-327): a call is settled once, by
\* an answer that follows an execution of that call or by a failure, and the host
\* executes it at most twice, whatever happens to the ports in between.
THEOREM BridgeImplementsService == Spec => Service!Spec
<1>1. Spec => [](TypeOK /\ CallsInv /\ RepliesInv)
  BY CallsAlways, InitType, NextType, RepliesInit, RepliesNext, PTL DEF Spec
<1>2. Spec => []PostsInv
  <2>1. CallsInv => BoundedReplay
    BY DEF CallsInv
  <2> QED
    BY <1>1, <2>1, PostsInit, PostsNext, PTL DEF Spec
<1>3. CallsInv => BoundedReplay
  BY DEF CallsInv
<1> QED
  BY <1>1, <1>2, <1>3, ServiceInit, ServiceNext, PTL DEF Spec, Service!Spec
=============================================================================
