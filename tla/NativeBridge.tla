---------------------------- MODULE NativeBridge ----------------------------
(***************************************************************************)
(* The native-messaging bridge of the extension's background worker        *)
(* (src/extension/background/background.js, 231-327) and the host          *)
(* processes at its far end (src/zkvm/host/src/main.rs, 619-644).          *)
(*                                                                         *)
(* Every connectNative() starts one host process with a pipe each way.     *)
(* JavaScript handlers run to completion, hosts run beside them.  The loop *)
(* that replays calls after a reconnect is the only handler that takes     *)
(* several steps here (replay # {}), and no other handler runs meanwhile.  *)
(***************************************************************************)
EXTENDS Naturals, SequencesExt

CONSTANTS
  MaxCalls,     \* bound: calls issued by the extension
  MaxDrops,     \* bound: ports lost
  MaxRefusals   \* bound: connectNative() calls that throw

ASSUME BoundsAssumption ==
  /\ MaxCalls \in Nat
  /\ MaxDrops \in Nat
  /\ MaxRefusals \in Nat

VARIABLES
  nativePort,        \* the port new messages go to, or NoPort
  opened,            \* how many ports were ever opened; ports are 1..opened
  port,              \* port -> state of the connection and of its host
  msgId,             \* the last call id handed out
  pendingCallbacks,  \* ids whose promise is unsettled
  pendingMessages,   \* ids whose message is kept for a replay
  retriedOnce,       \* ids already replayed
  timers,            \* armed setTimeout callbacks, in the order they were armed
  replay,            \* ids the running reconnect handler has still to visit
  drops, refusals,   \* environment counters, bounded
  outcome,           \* call -> how its promise was settled
  posts,             \* call -> postMessage calls that did not throw
  runs               \* call -> executions begun by a host

calls == <<msgId, pendingCallbacks, pendingMessages, retriedOnce>>
history == <<outcome, posts, runs>>
vars == <<nativePort, opened, port, calls, timers, replay, drops, refusals, history>>

NoPort == 0
PING_ID == 0
Calls == 1..MaxCalls
Ids == Calls \cup {PING_ID}

\* The three setTimeout delays of the bridge, in milliseconds.
Reconnect == 250
RetryConnect == 2000
Unreachable == 5000

\* running holds the request the host works on: {} or one id.
Ports == [state : {"open", "dropped", "closed"}, inbox : Seq(Ids),
          running : SUBSET Ids, outbox : Seq(Ids)]

\* A fresh port already carries the unsolicited ping.
FreshPort == [state |-> "open", inbox |-> <<PING_ID>>, running |-> {}, outbox |-> <<>>]

Unsettled == [kind |-> "none", of |-> PING_ID]
Failure(kind) == [kind |-> kind, of |-> PING_ID]
Reply(id) == [kind |-> "reply", of |-> id]

-----------------------------------------------------------------------------
(* Timers *)

Arm(ts, delay, ids) == Append(ts, [delay |-> delay, ids |-> ids])

\* Mutant: onDisconnect registered twice arms two reconnects for one drop.
RearmTwice(ids) == Arm(Arm(timers, Reconnect, ids), Reconnect, ids)

\* onDisconnect arms the 250 ms reconnect with its snapshot.
Rearm(ids) == Arm(timers, Reconnect, ids)

\* A timer fires only after those armed earlier with a delay no longer than its own.
Due(k) == \A j \in 1..(k - 1) : timers[j].delay > timers[k].delay

-----------------------------------------------------------------------------
(* connectNative, settling and posting: shared by the handlers *)

\* connectNative(): a new port replaces nativePort, whatever it was, or the
\* browser throws and nativePort stays.
ConnectNative(ok) ==
  IF ok
  THEN /\ opened' = opened + 1
       /\ nativePort' = opened + 1
       /\ port' = [p \in 1..(opened + 1) |-> IF p = opened + 1 THEN FreshPort ELSE port[p]]
       /\ UNCHANGED refusals
  ELSE /\ refusals < MaxRefusals
       /\ refusals' = refusals + 1
       /\ UNCHANGED <<opened, nativePort, port>>

\* The catch of connectNative arms another attempt.
AfterConnect(ok, ts) == IF ok THEN ts ELSE Arm(ts, RetryConnect, {})

\* Mutant: the message is kept when the call is forgotten.
SettleKeepingMessage(id, result) ==
  /\ pendingCallbacks' = pendingCallbacks \ {id}
  /\ UNCHANGED pendingMessages
  /\ outcome' = [outcome EXCEPT ![id] = result]

\* Forget a call and settle its promise.
Settle(id, result) ==
  /\ pendingCallbacks' = pendingCallbacks \ {id}
  /\ pendingMessages' = pendingMessages \ {id}
  /\ outcome' = [outcome EXCEPT ![id] = result]

\* postMessage on the current port.  On a port whose host is gone, but whose
\* onDisconnect has not run yet, the message is lost or the call throws.
Post(id) ==
  /\ posts' = [posts EXCEPT ![id] = @ + 1]
  /\ port' = [port EXCEPT ![nativePort].inbox =
                IF port[nativePort].state = "open" THEN Append(@, id) ELSE @]

PostThrows == port[nativePort].state # "open"

-----------------------------------------------------------------------------
(* Handlers of the background worker *)

\* No handler is in the middle of its run.
Quiet == replay = {}

\* nativeCall: register the call, then post it if there is a port.  Without a
\* port it connects, leaves the message unposted and arms the 5 s timer.
NativeCall ==
  /\ Quiet
  /\ msgId < MaxCalls
  /\ msgId' = msgId + 1
  /\ LET id == msgId + 1
         Registered == /\ pendingCallbacks' = pendingCallbacks \cup {id}
                       /\ pendingMessages' = pendingMessages \cup {id}
     IN \/ /\ nativePort = NoPort
           /\ Registered
           /\ \E ok \in BOOLEAN :
                /\ ConnectNative(ok)
                /\ timers' = Arm(AfterConnect(ok, timers), Unreachable, {id})
           /\ UNCHANGED <<outcome, posts>>
        \/ /\ nativePort # NoPort
           /\ Registered
           /\ Post(id)
           /\ UNCHANGED <<nativePort, opened, timers, refusals, outcome>>
        \/ /\ nativePort # NoPort
           /\ PostThrows
           /\ outcome' = [outcome EXCEPT ![id] = Failure("unposted")]
           /\ UNCHANGED <<nativePort, opened, port, pendingCallbacks, pendingMessages,
                          timers, refusals, posts>>
  /\ UNCHANGED <<retriedOnce, replay, drops, runs>>

\* Mutant: an unmatched reply goes to the oldest pending call.
RecipientFifo(id) ==
  IF id \in pendingCallbacks THEN {id}
  ELSE {c \in pendingCallbacks : \A other \in pendingCallbacks : c <= other}

\* Mutant: the callback is not looked up among the pending ones.
RecipientUnchecked(id) == {id} \ {PING_ID}

\* The call a reply is delivered to, if any.
Recipient(id) == {id} \cap (pendingCallbacks \ {PING_ID})

\* onMessage: route strictly by _id; the ping's reply and a reply nobody waits
\* for are dropped.
OnMessage(p) ==
  /\ Quiet
  /\ port[p].state # "closed"
  /\ port[p].outbox # <<>>
  /\ port' = [port EXCEPT ![p].outbox = Tail(@)]
  /\ LET id == Head(port[p].outbox)
     IN \/ \E c \in Recipient(id) :
             /\ Settle(c, Reply(id))
             /\ retriedOnce' = retriedOnce \ {c}
        \/ /\ Recipient(id) = {}
           /\ UNCHANGED <<pendingCallbacks, pendingMessages, outcome, retriedOnce>>
  /\ UNCHANGED <<nativePort, opened, msgId, timers, replay, drops, refusals, posts, runs>>

\* Mutant: a call already replayed is left out of the snapshot.
SnapshotFirstTime == pendingCallbacks \ retriedOnce

\* Mutant: the ping is registered like a call.
SnapshotWithPing == pendingCallbacks \cup {PING_ID}

\* The calls a lost port may leave unanswered: all that are pending.
Snapshot == pendingCallbacks

\* onDisconnect of any port, current or not: drop nativePort, snapshot every
\* pending call, and reconnect in 250 ms.
OnDisconnect(p) ==
  /\ Quiet
  /\ port[p].state = "dropped"
  /\ port' = [port EXCEPT ![p].state = "closed", ![p].outbox = <<>>]
  /\ nativePort' = NoPort
  /\ timers' = Rearm(Snapshot)
  /\ UNCHANGED <<opened, calls, replay, drops, refusals, history>>

\* The 250 ms callback begins: connect, then visit the calls of the snapshot
\* that are still pending.
FireReconnect(k) ==
  /\ Quiet
  /\ timers[k].delay = Reconnect
  /\ Due(k)
  /\ \E ok \in BOOLEAN :
       /\ ConnectNative(ok)
       /\ timers' = AfterConnect(ok, RemoveAt(timers, k))
  /\ replay' = timers[k].ids \cap pendingCallbacks
  /\ UNCHANGED <<calls, drops, history>>

\* Mutant: replays are not recorded against a second one.
ReplayableAlways(id) == id \in pendingMessages /\ nativePort # NoPort

\* A call is replayed if it has not been, its message is kept and there is a port.
Replayable(id) ==
  id \notin retriedOnce /\ id \in pendingMessages /\ nativePort # NoPort

\* One round of its loop: replay the call once, or report it lost.
ReplayNext(id) ==
  /\ id \in replay
  /\ \A other \in replay : id <= other
  /\ replay' = replay \ {id}
  /\ \/ /\ ~Replayable(id)
        /\ Settle(id, Failure("lost"))
        /\ retriedOnce' = retriedOnce \ {id}
        /\ UNCHANGED <<port, posts>>
     \/ /\ Replayable(id)
        /\ retriedOnce' = retriedOnce \cup {id}
        /\ Post(id)
        /\ UNCHANGED <<pendingCallbacks, pendingMessages, outcome>>
     \/ /\ Replayable(id)
        /\ PostThrows
        /\ Settle(id, Failure("unposted"))
        /\ UNCHANGED <<retriedOnce, port, posts>>
  /\ UNCHANGED <<nativePort, opened, msgId, timers, drops, refusals, runs>>

\* The 2 s callback: try to connect again.
FireRetryConnect(k) ==
  /\ Quiet
  /\ timers[k].delay = RetryConnect
  /\ Due(k)
  /\ \E ok \in BOOLEAN :
       /\ ConnectNative(ok)
       /\ timers' = AfterConnect(ok, RemoveAt(timers, k))
  /\ UNCHANGED <<calls, replay, drops, history>>

\* The 5 s callback: a call issued without a port and still pending fails.
\* retriedOnce keeps the id.
FireUnreachable(k) ==
  /\ Quiet
  /\ timers[k].delay = Unreachable
  /\ Due(k)
  /\ timers' = RemoveAt(timers, k)
  /\ \/ \E id \in timers[k].ids \cap pendingCallbacks : Settle(id, Failure("unreachable"))
     \/ /\ timers[k].ids \cap pendingCallbacks = {}
        /\ UNCHANGED <<pendingCallbacks, pendingMessages, outcome>>
  /\ UNCHANGED <<nativePort, opened, port, msgId, retriedOnce, replay, drops, refusals,
                 posts, runs>>

-----------------------------------------------------------------------------
(* The host process behind a port: one request at a time, in order *)

\* Read the next frame and start on it.
HostRead(p) ==
  /\ port[p].state = "open"
  /\ port[p].running = {}
  /\ port[p].inbox # <<>>
  /\ LET id == Head(port[p].inbox)
     IN /\ port' = [port EXCEPT ![p].inbox = Tail(@), ![p].running = {id}]
        /\ runs' = IF id = PING_ID THEN runs ELSE [runs EXCEPT ![id] = @ + 1]
  /\ UNCHANGED <<nativePort, opened, calls, timers, replay, drops, refusals, outcome, posts>>

\* Write the reply, which echoes the request's _id.
HostReply(p) ==
  /\ port[p].state = "open"
  /\ \E id \in port[p].running :
       port' = [port EXCEPT ![p].running = {}, ![p].outbox = Append(@, id)]
  /\ UNCHANGED <<nativePort, opened, calls, timers, replay, drops, refusals, history>>

\* The host dies: what it had not answered is lost.  Replies already written
\* may still be delivered until onDisconnect runs.
PortDrop(p) ==
  /\ port[p].state = "open"
  /\ drops < MaxDrops
  /\ drops' = drops + 1
  /\ port' = [port EXCEPT ![p].state = "dropped", ![p].inbox = <<>>, ![p].running = {}]
  /\ UNCHANGED <<nativePort, opened, calls, timers, replay, refusals, history>>

-----------------------------------------------------------------------------
\* The script's last act is connectNative().
Init ==
  /\ \/ /\ nativePort = 1 /\ opened = 1 /\ port = [p \in 1..1 |-> FreshPort]
        /\ refusals = 0 /\ timers = <<>>
     \/ /\ MaxRefusals > 0
        /\ nativePort = NoPort /\ opened = 0 /\ port = [p \in 1..0 |-> FreshPort]
        /\ refusals = 1 /\ timers = Arm(<<>>, RetryConnect, {})
  /\ msgId = 0
  /\ pendingCallbacks = {} /\ pendingMessages = {} /\ retriedOnce = {}
  /\ replay = {}
  /\ drops = 0
  /\ outcome = [c \in Calls |-> Unsettled]
  /\ posts = [c \in Calls |-> 0]
  /\ runs = [c \in Calls |-> 0]

\* The browser's event loop.
WorkerStep ==
  \/ \E p \in 1..opened : OnMessage(p) \/ OnDisconnect(p)
  \/ \E k \in 1..Len(timers) : FireReconnect(k) \/ FireRetryConnect(k) \/ FireUnreachable(k)
  \/ \E id \in replay : ReplayNext(id)

HostStep(p) == HostRead(p) \/ HostReply(p)

Next ==
  \/ NativeCall
  \/ WorkerStep
  \/ \E p \in 1..opened : HostStep(p) \/ PortDrop(p)

Spec == Init /\ [][Next]_vars

\* The event loop delivers what is queued, and a living host goes on to answer.
\* Nothing obliges a caller to call or a port to drop.
Fairness ==
  /\ WF_vars(WorkerStep)
  /\ WF_vars(\E p \in 1..opened : HostStep(p))

FairSpec == Spec /\ Fairness

-----------------------------------------------------------------------------
(* Properties *)

Timers == [delay : {Reconnect, RetryConnect, Unreachable}, ids : SUBSET Calls]
Outcomes == [kind : {"none", "reply", "lost", "unreachable", "unposted"}, of : Ids]

\* Every variable has its type; ports are numbered without gaps.
TypeOK ==
  /\ opened \in Nat
  /\ nativePort \in 0..opened
  /\ port \in [1..opened -> Ports]
  /\ msgId \in 0..MaxCalls
  /\ pendingCallbacks \subseteq Calls
  /\ pendingMessages \subseteq Calls
  /\ retriedOnce \subseteq Calls
  /\ timers \in Seq(Timers)
  /\ replay \subseteq Calls
  /\ drops \in Nat
  /\ refusals \in Nat
  /\ outcome \in [Calls -> Outcomes]
  /\ posts \in [Calls -> Nat]
  /\ runs \in [Calls -> Nat]

InSeq(x, s) == \E i \in 1..Len(s) : s[i] = x

\* Port p still owes call c a reply or a disconnect event: the call is on its
\* way to the host, being executed, or answered; or the port has dropped and its
\* onDisconnect, which will snapshot the call, has not run.
Carries(p, c) ==
  \/ /\ port[p].state = "open"
     /\ InSeq(c, port[p].inbox) \/ c \in port[p].running \/ InSeq(c, port[p].outbox)
  \/ port[p].state = "dropped"

\* A callback or the running handler will visit call c.
Watched(c) ==
  \/ c \in replay
  \/ \E k \in 1..Len(timers) : timers[k].delay # RetryConnect /\ c \in timers[k].ids

\* No call is forgotten: whatever ports dropped and whatever timers fired, a
\* pending call is carried by some port or watched by some timer (the promise
\* nativeCall returns has someone left to settle it, background.js 253-296).
NothingForgotten ==
  \A c \in pendingCallbacks : Watched(c) \/ \E p \in 1..opened : Carries(p, c)

\* A call and the message kept for its replay are forgotten together, and a call
\* is pending exactly while its promise is unsettled: the branch of the replay
\* loop that finds no message is dead (background.js 263).
PendingInStep ==
  /\ pendingMessages = pendingCallbacks
  /\ pendingCallbacks = {c \in 1..msgId : outcome[c] = Unsettled}

\* A flapping port cannot loop a two-minute proof (background.js 240-241):
\* however many ports drop, a call is posted at most twice, and the second time
\* only as a recorded replay.
BoundedReplay ==
  \A c \in Calls :
    /\ posts[c] <= 2
    /\ posts[c] = 2 /\ outcome[c] = Unsettled => c \in retriedOnce

\* A reply settles the call it answers and no other, and only after a host
\* executed that call (background.js 243-246, 252-260; host main.rs 630-636).
\* Replays make duplicate and late replies; none reaches another caller.
AnswerIsOwn ==
  \A c \in Calls : outcome[c].kind = "reply" => outcome[c].of = c /\ runs[c] > 0

\* A single dropped port is recoverable (background.js 236-239): with one drop
\* and no refused connection, no call is reported lost, whatever other ports the
\* reconnect timers and nativeCall opened meanwhile.
OneDropIsRecovered ==
  drops <= 1 /\ refusals = 0 => \A c \in Calls : outcome[c].kind # "lost"

\* A promise is settled once: a duplicate reply, a late timer or a second replay
\* loop never changes what the caller was told.
OutcomeFinal ==
  [][\A c \in Calls : outcome[c] # Unsettled => outcome'[c] = outcome[c]]_vars

\* Every call made is settled in the end: by a reply, or by an error once the
\* port was lost again or the 5 s timer fired.
EverySettled ==
  \A c \in Calls : msgId >= c ~> outcome[c] # Unsettled

\* background.js 236-239: "each pending call keeps its message and is re-sent
\* once before failing".  So a call the worker gives up on was handed to a port.
GivenUpWasSent ==
  \A c \in Calls : outcome[c].kind \in {"lost", "unreachable"} => posts[c] > 0

\* The bridge implements the service its callers rely on.
Result(c) ==
  IF outcome[c] = Unsettled THEN "none"
  ELSE IF outcome[c].kind = "reply" THEN "answered" ELSE "failed"

Service == INSTANCE CallService WITH
  issued <- msgId,
  result <- [c \in Calls |-> Result(c)]

\* Every step of ports, timers and hosts is a step of CallService or invisible to
\* the caller, and under the fairness above every issued call is settled.
ImplementsService == Service!FairSpec
=============================================================================
