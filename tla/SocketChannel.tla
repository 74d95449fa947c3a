---------------------------- MODULE SocketChannel ----------------------------
(***************************************************************************)
(* The subscription protocol of one SocketChannel (channel/socket.go):     *)
(* Subscribe, Unsubscribe, Resubscribe and Reset called by application     *)
(* goroutines, the read loops that handle the server's answers and run the *)
(* queued operations, and the goroutines that call Connect.  One step is   *)
(* one critical section of c.mu, one ws.Send or one return from waitAck,   *)
(* so every interleaving of the goroutines that the mutex allows is a      *)
(* behaviour.                                                              *)
(*                                                                         *)
(* Connect may be called at any time: by the application, by the listener  *)
(* of AuthTokenExpired, by a goroutine that reconnects.  It closes a       *)
(* socket that still works, whose read loop then finds out on its own, or  *)
(* leaves because it was cancelled, while the next one is in use.  Sockets *)
(* are numbered, and read loops have the number of the socket their        *)
(* Connect dialled.                                                        *)
(*                                                                         *)
(* Abstractions.  A handler is its identity (the code compares code        *)
(* pointers) and the callbacks of an event are a set.  The done channel a  *)
(* call creates is named by its goroutine: a goroutine makes one call at a *)
(* time.  The server handles a frame when it is sent; its answer waits in  *)
(* the socket's inbox, which stands for the delay in both directions.      *)
(* MESSAGE frames, pausing and handler invocation change none of this      *)
(* state.  Lifecycle listeners that call back into the channel are not     *)
(* modelled; the unlocked accesses of startReadLoop are in Connection, and *)
(* one step here.                                                          *)
(***************************************************************************)
EXTENDS Naturals, Sequences

CONSTANTS
    Callers,        \* application goroutines
    Connectors,     \* goroutines that run Connect, then resubscribe
    Events,         \* event names of event-specific subscriptions
    Whole,          \* opts.Event == "": the whole channel
    Handlers,
    NoHandler,      \* a nil MessageHandler
    None,           \* no goroutine: a nil done channel, an unlocked mutex
    CallerOps,      \* the operations the callers may start
    MaxCalls,       \* bound on the calls the callers start
    MaxConnects,    \* bound on the sockets dialled
    MaxFaults       \* bound on the working sockets lost or closed, the contexts of
                    \* Connect that end and the ERROR answers, together

Sockets == 1 .. MaxConnects     \* and their read loops
Goroutines == Callers \cup Connectors \cup Sockets
NoOp == [kind |-> "none", event |-> Whole, handler |-> NoHandler]
Operations ==
    [kind : {"subscribe", "unsubscribe", "reset"},
     event : Events \cup {Whole}, handler : Handlers \cup {NoHandler}]

ASSUME ChannelAssumption ==
    /\ Callers \cap Connectors = {} /\ Sockets \cap (Callers \cup Connectors) = {}
    /\ None \notin Goroutines
    /\ Whole \notin Events
    /\ NoHandler \notin Handlers
    /\ CallerOps \subseteq Operations
    /\ {MaxCalls, MaxConnects, MaxFaults} \subseteq Nat

VARIABLES
    \* the transport and the server
    conn,               \* the socket ws.Client.conn points to, 0 when nil
    connects,           \* how many were dialled
    alive,              \* the peer of conn still receives what is written
    serverSub,          \* the server has this connection subscribed
    inbox,              \* of every socket: frames for this channel, not yet read
    \* the read loops and Connect
    source,             \* the socket a read loop reads, 0 before it starts
    readCancel,         \* the loop Conn.readCancel cancels, 0 when nil
    cancelled,          \* loops whose context is done
    dialled,            \* the socket a Connect has dialled
    \* the fields of SocketChannel
    subscribed, pendingSubscribe, pendingUnsubscribe, reconnectPending,
    catchAllHandler, eventCallbacks, operationQueue, subDone, unsubDone,
    mu,                 \* the goroutine that keeps c.mu locked between steps
    \* the goroutines
    pc, op,             \* where each one is, and in which operation
    saved,              \* handlers a Resubscribe has copied
    late,               \* goroutines whose Send may have a socket closed since
    acked,              \* goroutines whose current done channel is signalled
    calls, losses, rejects,
    resets              \* history: calls of Reset

transport == <<conn, connects, alive, serverSub, inbox>>
loops     == <<source, readCancel, cancelled, dialled>>
flags     == <<subscribed, pendingSubscribe, pendingUnsubscribe, reconnectPending>>
handlers  == <<catchAllHandler, eventCallbacks>>
dones     == <<subDone, unsubDone>>
channel   == <<flags, handlers, operationQueue, dones, mu>>
threads   == <<pc, op, saved, acked, late>>
counters  == <<calls, losses, rejects, resets>>
others    == <<transport, loops, saved, late, counters>>
vars      == <<transport, loops, channel, threads, counters>>

NoCallbacks == [e \in Events |-> {}]
NoCopy == [catchAll |-> NoHandler, callbacks |-> NoCallbacks]
HasCallback == catchAllHandler # NoHandler \/ eventCallbacks # NoCallbacks

Init ==
    /\ conn = 0 /\ connects = 0 /\ alive = FALSE /\ serverSub = FALSE
    /\ inbox = [k \in Sockets |-> <<>>]
    /\ source = [k \in Sockets |-> 0] /\ readCancel = 0 /\ cancelled = {}
    /\ dialled = [g \in Connectors |-> 0]
    /\ subscribed = FALSE /\ pendingSubscribe = FALSE
    /\ pendingUnsubscribe = FALSE /\ reconnectPending = FALSE
    /\ catchAllHandler = NoHandler /\ eventCallbacks = NoCallbacks
    /\ operationQueue = <<>> /\ subDone = None /\ unsubDone = None
    /\ mu = None
    /\ pc = [g \in Goroutines |-> IF g \in Sockets THEN "none" ELSE "idle"]
    /\ op = [g \in Goroutines |-> NoOp]
    /\ saved = [g \in Connectors |-> NoCopy]
    /\ acked = {} /\ late = {}
    /\ calls = 0 /\ losses = 0 /\ rejects = 0 /\ resets = 0

MoreFaults == losses + rejects < MaxFaults

-----------------------------------------------------------------------------
(* Control of a goroutine.  "idle" is between calls, and for a read loop the *)
(* blocking ReadMessage, which it comes to when it finds its context not     *)
(* done ("checkDone").  Locked(g, l): g is about to lock c.mu at label l.    *)

At(g, label) == pc[g] = label
Goto(g, label) == pc' = [pc EXCEPT ![g] = label] /\ UNCHANGED <<op, acked>>
Return(g) ==
    /\ pc' = [pc EXCEPT ![g] = IF g \in Sockets THEN "checkDone" ELSE "idle"]
    /\ op' = [op EXCEPT ![g] = NoOp]
    /\ acked' = acked \ {g}
(* What is left of a call to the network needs no more of its arguments.     *)
GotoSend(g, label) ==
    /\ pc' = [pc EXCEPT ![g] = label]
    /\ op' = [op EXCEPT ![g] = NoOp]
    /\ UNCHANGED acked
Locked(g, label) == At(g, label) /\ mu = None

EnqueueWithoutKind(o) ==
    operationQueue' = Append(operationQueue, [event |-> o.event, handler |-> o.handler])
Enqueue(o) == operationQueue' = Append(operationQueue, o)

(* IsConnected is the first thing Subscribe does, before it locks c.mu.     *)
Start(g, o) ==
    /\ pc' = [pc EXCEPT ![g] = o.kind]
    /\ op' = [op EXCEPT ![g] = o]
    /\ UNCHANGED acked

Call(g) ==
    /\ At(g, "idle") /\ calls < MaxCalls
    /\ \E o \in CallerOps :
        /\ o.kind = "subscribe" => conn # 0
        /\ Start(g, o)
    /\ calls' = calls + 1
    /\ UNCHANGED <<transport, loops, channel, saved, late, losses, rejects, resets>>

-----------------------------------------------------------------------------
(* Subscribe *)

SubscribeBranch(g) ==
    /\ Locked(g, "subscribe")
    /\ LET whole == op[g].event = Whole
           queue == pendingUnsubscribe \/ (whole /\ pendingSubscribe)
           known == subscribed \/ pendingSubscribe
       IN \/ queue /\ Enqueue(op[g]) /\ Return(g) /\ UNCHANGED mu
          \/ /\ ~queue /\ ~whole /\ known
             /\ Goto(g, "addEventHandler") /\ UNCHANGED <<operationQueue, mu>>
          \* line 139 locks c.mu again: the goroutine waits for itself
          \/ /\ ~queue /\ whole /\ known
             /\ mu' = g /\ Goto(g, "relock") /\ UNCHANGED operationQueue
          \/ /\ ~queue /\ ~known
             /\ Goto(g, "subscribeNetwork") /\ UNCHANGED <<operationQueue, mu>>
    /\ UNCHANGED <<others, flags, handlers, dones>>

AddEventHandlerLocked(o) ==
    /\ eventCallbacks' = [eventCallbacks EXCEPT ![o.event] = @ \cup {o.handler}]
    /\ UNCHANGED catchAllHandler

AddEventHandler(g) ==
    /\ Locked(g, "addEventHandler")
    /\ AddEventHandlerLocked(op[g])
    /\ Return(g)
    /\ UNCHANGED <<others, flags, operationQueue, dones, mu>>

SubscribeNetwork(g) ==
    /\ Locked(g, "subscribeNetwork")
    /\ IF op[g].event = Whole
       THEN catchAllHandler' = op[g].handler /\ eventCallbacks' = NoCallbacks
       ELSE AddEventHandlerLocked(op[g])
    /\ pendingSubscribe' = TRUE
    /\ subDone' = g
    /\ GotoSend(g, "sendSubscribe")
    /\ UNCHANGED <<others, subscribed, pendingUnsubscribe,
                   reconnectPending, operationQueue, unsubDone, mu>>

(* ws.Send of a SUBSCRIBE or an UNSUBSCRIBE: the server does it and answers, *)
(* or refuses; a write after the peer is gone may still succeed locally.    *)
(* A Send that took its socket before a Connect closed it fails.            *)
Answered(answer) ==
    /\ conn # 0 /\ alive
    /\ \/ /\ inbox' = [inbox EXCEPT ![conn] = Append(@, answer)]
          /\ serverSub' = (answer = "SUBSCRIBED")
          /\ UNCHANGED rejects
       \/ /\ MoreFaults
          /\ inbox' = [inbox EXCEPT ![conn] = Append(@, "ERROR")]
          /\ rejects' = rejects + 1
          /\ UNCHANGED serverSub
    /\ UNCHANGED <<conn, connects, alive>>
Vanished == conn # 0 /\ ~alive /\ UNCHANGED <<transport, rejects>>
SendError(g) == (~alive \/ g \in late) /\ UNCHANGED <<transport, rejects>>

SendWire(g, label, answer, waitLabel, failLabel) ==
    /\ At(g, label)
    /\ \/ (Answered(answer) \/ Vanished) /\ Goto(g, waitLabel)
       \/ SendError(g) /\ Goto(g, failLabel)
    /\ late' = late \ {g}
    /\ UNCHANGED <<loops, channel, saved, calls, losses, resets>>

SendSubscribe(g) ==
    SendWire(g, "sendSubscribe", "SUBSCRIBED", "waitSubscribed", "subscribeFailed")

SubscribeFailed(g) ==
    /\ Locked(g, "subscribeFailed")
    /\ pendingSubscribe' = FALSE
    /\ Return(g)
    /\ UNCHANGED <<others, subscribed, pendingUnsubscribe,
                   reconnectPending, handlers, operationQueue,
                   dones, mu>>

(* waitAck: the answer, or the timeout or the caller's context.  Neither     *)
(* touches the channel: a timed-out call leaves its pending flag set.       *)
WaitAckDone(g) ==
    /\ pc[g] \in {"waitSubscribed", "waitUnsubscribed"} /\ g \in acked
    /\ Return(g)
    /\ UNCHANGED <<others, channel>>

WaitAckWithoutDefault(g) ==
    /\ pc[g] \in {"waitSubscribed", "waitUnsubscribed"} /\ g \notin acked
    /\ g \notin Sockets
    /\ Return(g)
    /\ UNCHANGED <<others, channel>>
WaitAckTimeout(g) ==
    /\ pc[g] \in {"waitSubscribed", "waitUnsubscribed"} /\ g \notin acked
    /\ Return(g)
    /\ UNCHANGED <<others, channel>>

-----------------------------------------------------------------------------
(* Unsubscribe *)

(* removeEventHandlerLocked: the callbacks left, and whether the last one    *)
(* went, so that the server must be told.                                   *)
Remaining(o) ==
    [eventCallbacks EXCEPT ![o.event] =
        IF o.handler = NoHandler THEN {} ELSE @ \ {o.handler}]
NeedsNetwork(o) ==
    /\ eventCallbacks[o.event] # {}
    /\ Remaining(o) = NoCallbacks /\ catchAllHandler = NoHandler /\ subscribed

UnsubscribeEvent(g) ==
    /\ Locked(g, "unsubscribe") /\ op[g].event # Whole
    /\ \/ /\ subscribed /\ ~pendingUnsubscribe
          /\ eventCallbacks' = Remaining(op[g])
          /\ IF NeedsNetwork(op[g]) THEN Goto(g, "unsubscribeNetwork") ELSE Return(g)
          /\ UNCHANGED operationQueue
       \/ /\ pendingUnsubscribe \/ (~subscribed /\ pendingSubscribe)
          /\ Enqueue(op[g]) /\ Return(g) /\ UNCHANGED eventCallbacks
       \/ /\ ~subscribed /\ ~pendingSubscribe /\ ~pendingUnsubscribe
          /\ Goto(g, "unsubscribeNetwork")
          /\ UNCHANGED <<eventCallbacks, operationQueue>>
    /\ UNCHANGED <<others, flags, catchAllHandler, dones, mu>>

UnsubscribeWhole(g) ==
    /\ Locked(g, "unsubscribe") /\ op[g].event = Whole
    /\ \/ ~subscribed /\ ~pendingSubscribe /\ Return(g) /\ UNCHANGED operationQueue
       \/ /\ pendingSubscribe \/ (subscribed /\ pendingUnsubscribe)
          /\ Enqueue(op[g]) /\ Return(g)
       \/ /\ subscribed /\ ~pendingSubscribe /\ ~pendingUnsubscribe
          /\ Goto(g, "unsubscribeNetwork") /\ UNCHANGED operationQueue
    /\ UNCHANGED <<others, flags, handlers, dones, mu>>

UnsubscribeNetwork(g) ==
    /\ Locked(g, "unsubscribeNetwork")
    /\ pendingUnsubscribe' = TRUE
    /\ unsubDone' = g
    /\ GotoSend(g, "sendUnsubscribe")
    /\ UNCHANGED <<others, subscribed, pendingSubscribe, reconnectPending,
                   handlers, operationQueue, subDone, mu>>

SendUnsubscribe(g) ==
    SendWire(g, "sendUnsubscribe", "UNSUBSCRIBED", "waitUnsubscribed", "unsubscribeFailed")

UnsubscribeFailed(g) ==
    /\ Locked(g, "unsubscribeFailed")
    /\ pendingUnsubscribe' = FALSE
    /\ Return(g)
    /\ UNCHANGED <<others, subscribed, pendingSubscribe, reconnectPending,
                   handlers, operationQueue, dones, mu>>

-----------------------------------------------------------------------------
(* Resubscribe, by the goroutine that has connected, and Reset              *)

NeedsResubscribe == reconnectPending /\ HasCallback

ResubscribeAfterReconnect(g) ==
    /\ Locked(g, "afterReconnect")
    /\ IF NeedsResubscribe THEN Goto(g, "resubscribe") ELSE Return(g)
    /\ UNCHANGED <<others, channel>>

ResubscribeCopy(g) ==
    /\ Locked(g, "resubscribe")
    /\ saved' = [saved EXCEPT ![g] = [catchAll |-> catchAllHandler,
                                     callbacks |-> eventCallbacks]]
    /\ subscribed' = FALSE /\ pendingSubscribe' = FALSE /\ pendingUnsubscribe' = FALSE
    /\ IF HasCallback THEN Goto(g, "resubscribeNetwork") ELSE Return(g)
    /\ UNCHANGED <<transport, loops, late, reconnectPending, handlers,
                   operationQueue, dones, mu, counters>>

ResubscribeNetwork(g) ==
    /\ Locked(g, "resubscribeNetwork")
    /\ catchAllHandler' = saved[g].catchAll
    /\ eventCallbacks' = saved[g].callbacks
    /\ saved' = [saved EXCEPT ![g] = NoCopy]
    /\ pendingSubscribe' = TRUE
    /\ subDone' = g
    /\ GotoSend(g, "sendSubscribe")
    /\ UNCHANGED <<transport, loops, late, subscribed, pendingUnsubscribe,
                   reconnectPending, operationQueue, unsubDone, mu, counters>>

(* Reset keeps reconnectPending and both done channels.                      *)
Reset(g) ==
    /\ Locked(g, "reset")
    /\ catchAllHandler' = NoHandler /\ eventCallbacks' = NoCallbacks
    /\ subscribed' = FALSE /\ pendingSubscribe' = FALSE /\ pendingUnsubscribe' = FALSE
    /\ operationQueue' = <<>>
    /\ resets' = resets + 1
    /\ Return(g)
    /\ UNCHANGED <<transport, loops, reconnectPending, dones, mu, saved, late, calls,
                   losses, rejects>>

-----------------------------------------------------------------------------
(* The read loop: HandleIncoming, then processOperationQueue                *)

(* Between two messages the loop looks at its context, and once that is done *)
(* it leaves without onClose.                                               *)
CheckDone(r) ==
    /\ At(r, "checkDone")
    /\ Goto(r, IF r \in cancelled THEN "left" ELSE "idle")
    /\ UNCHANGED <<others, channel>>

(* signalDone: buffered and non-blocking, so it wakes g only if g is still   *)
(* in the call that created the channel.                                    *)
Signal(g, labels) == acked' = IF g # None /\ pc[g] \in labels THEN acked \cup {g} ELSE acked

Receive(r, answer) ==
    /\ Locked(r, "idle")
    /\ inbox[source[r]] # <<>> /\ Head(inbox[source[r]]) = answer
    /\ inbox' = [inbox EXCEPT ![source[r]] = Tail(@)]
    /\ UNCHANGED <<conn, connects, alive, serverSub, loops, operationQueue, mu, op,
                   saved, late, counters>>

HandleSubscribedIfPending(r) ==
    /\ Receive(r, "SUBSCRIBED")
    /\ subscribed' = pendingSubscribe /\ pendingSubscribe' = FALSE /\ reconnectPending' = FALSE
    /\ subDone' = None
    /\ Signal(subDone, {"sendSubscribe", "waitSubscribed"})
    /\ pc' = [pc EXCEPT ![r] = "processQueue"]
    /\ UNCHANGED <<pendingUnsubscribe, handlers, unsubDone>>
HandleSubscribed(r) ==
    /\ Receive(r, "SUBSCRIBED")
    /\ subscribed' = TRUE /\ pendingSubscribe' = FALSE /\ reconnectPending' = FALSE
    /\ subDone' = None
    /\ Signal(subDone, {"sendSubscribe", "waitSubscribed"})
    /\ pc' = [pc EXCEPT ![r] = "processQueue"]
    /\ UNCHANGED <<pendingUnsubscribe, handlers, unsubDone>>

HandleUnsubscribedKeepsPending(r) ==
    /\ Receive(r, "UNSUBSCRIBED")
    /\ subscribed' = FALSE /\ UNCHANGED pendingUnsubscribe
    /\ catchAllHandler' = NoHandler /\ eventCallbacks' = NoCallbacks
    /\ unsubDone' = None
    /\ Signal(unsubDone, {"sendUnsubscribe", "waitUnsubscribed"})
    /\ pc' = [pc EXCEPT ![r] = "processQueue"]
    /\ UNCHANGED <<pendingSubscribe, reconnectPending, subDone>>
HandleUnsubscribed(r) ==
    /\ Receive(r, "UNSUBSCRIBED")
    /\ subscribed' = FALSE /\ pendingUnsubscribe' = FALSE
    /\ catchAllHandler' = NoHandler /\ eventCallbacks' = NoCallbacks
    /\ unsubDone' = None
    /\ Signal(unsubDone, {"sendUnsubscribe", "waitUnsubscribed"})
    /\ pc' = [pc EXCEPT ![r] = "processQueue"]
    /\ UNCHANGED <<pendingSubscribe, reconnectPending, subDone>>

HandleError(r) ==
    /\ Receive(r, "ERROR")
    /\ pc' = [pc EXCEPT ![r] = "checkDone"]
    /\ UNCHANGED <<flags, handlers, dones, acked>>

(* One operation per answer, run on the read loop's own goroutine.          *)
ProcessOperationQueue(r) ==
    /\ Locked(r, "processQueue")
    /\ \/ /\ pendingSubscribe \/ pendingUnsubscribe \/ operationQueue = <<>>
          /\ Return(r) /\ UNCHANGED operationQueue
       \/ /\ ~pendingSubscribe /\ ~pendingUnsubscribe /\ operationQueue # <<>>
          /\ operationQueue' = Tail(operationQueue)
          /\ IF Head(operationQueue).kind = "subscribe" /\ conn = 0
             THEN Return(r)
             ELSE Start(r, Head(operationQueue))
    /\ UNCHANGED <<others, flags, handlers, dones, mu>>

(* ReadMessage fails once the peer is gone or the socket was closed, and     *)
(* what could still be read of it has been: onClose,                        *)
(* SetPendingSubscribe(true), and the end of the loop, which cancels its     *)
(* context.                                                                 *)
LoopEnds(r) ==
    /\ Locked(r, "idle") /\ inbox[source[r]] = <<>> /\ (source[r] # conn \/ ~alive)
    /\ Goto(r, "exited")
    /\ cancelled' = cancelled \cup {r}
    /\ UNCHANGED <<transport, source, readCancel, dialled, saved, late, counters,
                   pendingUnsubscribe, handlers, operationQueue, dones, mu>>
OnCloseForgetsReconnect(r) ==
    /\ LoopEnds(r)
    /\ pendingSubscribe' = TRUE /\ subscribed' = FALSE
    /\ UNCHANGED reconnectPending
OnCloseStaysSubscribed(r) ==
    /\ LoopEnds(r)
    /\ reconnectPending' = TRUE /\ pendingSubscribe' = TRUE
    /\ UNCHANGED subscribed
OnClose(r) ==
    /\ LoopEnds(r)
    /\ reconnectPending' = TRUE /\ pendingSubscribe' = TRUE /\ subscribed' = FALSE

-----------------------------------------------------------------------------
(* The connection                                                           *)

(* When a socket ends, what its peer had sent may still be read, up to a     *)
(* point.                                                                   *)
CloseSocket ==
    /\ IF conn = 0 THEN UNCHANGED inbox
       ELSE \E n \in 0 .. Len(inbox[conn]) :
               inbox' = [inbox EXCEPT ![conn] = SubSeq(@, 1, n)]
    /\ alive => MoreFaults
    /\ losses' = IF alive THEN losses + 1 ELSE losses

(* ws.Connect, which nothing keeps from closing a socket that works.         *)
Connect(g) ==
    /\ At(g, "idle") /\ connects < MaxConnects
    /\ CloseSocket
    /\ connects' = connects + 1 /\ conn' = connects + 1
    /\ dialled' = [dialled EXCEPT ![g] = connects + 1]
    /\ alive' = TRUE /\ serverSub' = FALSE
    /\ late' = late \cup
          {x \in Goroutines : pc[x] \in {"sendSubscribe", "sendUnsubscribe"}}
    /\ Goto(g, "startReadLoop")
    /\ UNCHANGED <<source, readCancel, cancelled, channel, saved, calls, rejects, resets>>

(* startReadLoop: cancels the loop before, takes the socket of the moment.   *)
StartReadLoop(g) ==
    /\ At(g, "startReadLoop")
    /\ LET k == dialled[g]
       IN /\ cancelled' = cancelled \cup ({readCancel} \ {0})
          /\ readCancel' = k
          /\ source' = [source EXCEPT ![k] = conn]
          /\ pc' = [pc EXCEPT ![g] = "afterReconnect",
                              ![k] = IF conn = 0 THEN "left" ELSE "checkDone"]
    /\ UNCHANGED <<transport, dialled, channel, op, saved, late, acked, counters>>

ConnectionLost ==
    /\ alive /\ CloseSocket
    /\ alive' = FALSE /\ serverSub' = FALSE
    /\ UNCHANGED <<conn, connects, loops, channel, threads, calls, rejects, resets>>

(* Disconnect, and a Connect whose dial fails.                               *)
Disconnect ==
    /\ conn # 0 /\ CloseSocket
    /\ conn' = 0 /\ alive' = FALSE /\ serverSub' = FALSE
    /\ UNCHANGED <<connects, loops, channel, threads, calls, rejects, resets>>

(* The context given to Connect ends, or Conn.Reset calls readCancel.        *)
ContextEnds ==
    /\ MoreFaults
    /\ \E k \in (1 .. connects) \ cancelled : cancelled' = cancelled \cup {k}
    /\ losses' = losses + 1
    /\ UNCHANGED <<transport, source, readCancel, dialled, channel, threads, calls,
                   rejects, resets>>

-----------------------------------------------------------------------------
Step(g) ==
    \/ SubscribeBranch(g) \/ AddEventHandler(g) \/ SubscribeNetwork(g)
    \/ SendSubscribe(g) \/ SubscribeFailed(g)
    \/ WaitAckDone(g) \/ WaitAckTimeout(g)
    \/ UnsubscribeEvent(g) \/ UnsubscribeWhole(g) \/ UnsubscribeNetwork(g)
    \/ SendUnsubscribe(g) \/ UnsubscribeFailed(g)
    \/ Reset(g)

Connecting(g) ==
    \/ StartReadLoop(g)
    \/ ResubscribeAfterReconnect(g) \/ ResubscribeCopy(g) \/ ResubscribeNetwork(g)

ReadLoop(r) ==
    \/ CheckDone(r)
    \/ HandleSubscribed(r) \/ HandleUnsubscribed(r) \/ HandleError(r)
    \/ ProcessOperationQueue(r) \/ OnClose(r)

Run(g) ==
    \/ Step(g)
    \/ g \in Connectors /\ Connecting(g)
    \/ g \in Sockets /\ ReadLoop(g)

Environment == ConnectionLost \/ Disconnect \/ ContextEnds

Next ==
    \/ \E g \in Goroutines : Run(g)
    \/ \E g \in Callers : Call(g)
    \/ \E g \in Connectors : Connect(g)
    \/ Environment

Spec == Init /\ [][Next]_vars

(* A goroutine that can run eventually does: the Go scheduler, a fair mutex  *)
(* and the timeout of every wait.  Nothing forces a call, a Connect, a loss  *)
(* or an answer.  Every step of a goroutine moves its pc.                    *)
Fairness == \A g \in Goroutines : WF_pc(Run(g))

FairSpec == Spec /\ Fairness

-----------------------------------------------------------------------------
(* Properties *)

Labels ==
    {"none", "idle", "checkDone", "exited", "left", "subscribe", "addEventHandler",
     "relock", "subscribeNetwork", "sendSubscribe", "subscribeFailed",
     "waitSubscribed", "unsubscribe", "unsubscribeNetwork", "sendUnsubscribe",
     "unsubscribeFailed", "waitUnsubscribed", "startReadLoop", "afterReconnect",
     "resubscribe", "resubscribeNetwork", "reset", "processQueue"}
Frames == {"SUBSCRIBED", "UNSUBSCRIBED", "ERROR"}
MaybeSocket == {0} \cup Sockets

TransportOK ==
    /\ connects \in 0 .. MaxConnects /\ conn \in 0 .. connects
    /\ alive \in BOOLEAN /\ serverSub \in BOOLEAN
    /\ inbox \in [Sockets -> Seq(Frames)]
LoopsOK ==
    /\ source \in [Sockets -> MaybeSocket] /\ readCancel \in MaybeSocket
    /\ cancelled \subseteq Sockets /\ dialled \in [Connectors -> MaybeSocket]
FlagsOK ==
    /\ subscribed \in BOOLEAN /\ pendingSubscribe \in BOOLEAN
    /\ pendingUnsubscribe \in BOOLEAN /\ reconnectPending \in BOOLEAN
MaybeHandler == Handlers \cup {NoHandler}
CallbackMaps == [Events -> SUBSET MaybeHandler]
Copies == [catchAll : MaybeHandler, callbacks : CallbackMaps]
HandlersOK == catchAllHandler \in MaybeHandler /\ eventCallbacks \in CallbackMaps
MaybeGoroutine == Goroutines \cup {None}
DonesOK == subDone \in MaybeGoroutine /\ unsubDone \in MaybeGoroutine
ThreadsOK ==
    /\ pc \in [Goroutines -> Labels]
    /\ op \in [Goroutines -> Operations \cup {NoOp}]
    /\ \A g \in Goroutines : pc[g] \in {"subscribe", "unsubscribe"} => op[g] \in Operations
    /\ acked \subseteq Goroutines /\ late \subseteq Goroutines
    /\ saved \in [Connectors -> Copies]
CountersOK == calls \in Nat /\ losses \in Nat /\ rejects \in Nat /\ resets \in Nat

TypeOK ==
    /\ TransportOK /\ LoopsOK /\ FlagsOK /\ HandlersOK /\ DonesOK /\ ThreadsOK
    /\ CountersOK
    /\ operationQueue \in Seq(Operations)
    /\ mu \in MaybeGoroutine

(* Connects that overlap can leave a connection that nobody reads, or one    *)
(* closed whose loop was cancelled before it noticed.  Otherwise, and once   *)
(* the loops of the connections before have noticed: every connection but    *)
(* the last was read by its own loop, up to onClose, and the last one is, or *)
(* is about to be.  The properties below speak of these states, reached by   *)
(* whatever Connects overlapped on the way.                                 *)
Closed(k) == At(k, "exited") /\ source[k] = k
Settled ==
    \A k \in 1 .. connects :
        IF k = conn THEN source[k] \in {0, k} /\ ~At(k, "left") ELSE Closed(k)

AnswersIn(frames) == {i \in DOMAIN frames : frames[i] \in {"SUBSCRIBED", "UNSUBSCRIBED"}}
Answers == AnswersIn(inbox[conn])

(* The channel never believes more than the server said: while the          *)
(* connection works, once no answer is on its way a subscribed channel is    *)
(* one the server has subscribed, whatever calls, timeouts and reconnects    *)
(* crossed, among them a Connect over a socket that worked and the onClose   *)
(* of its loop after the next connection's resubscription.                   *)
ViewAgreesWithServer ==
    Settled /\ alive /\ Answers = {} /\ subscribed => serverSub

(* The last answer on its way tells what the server holds.                   *)
LastTells(frames, holds) ==
    \A i \in AnswersIn(frames) :
        (\A j \in AnswersIn(frames) : j <= i) => (holds <=> frames[i] = "SUBSCRIBED")
LastAnswerIsServerState == alive => LastTells(inbox[conn], serverSub)

(* A connection whose loop ran onClose has nothing left to read.             *)
ClosedIsQuiet ==
    \A k \in Sockets : Closed(k) => inbox[k] = <<>> /\ (k = conn => ~alive)

(* No belief outlives the connection it was about.                           *)
BeliefEnds ==
    Settled /\ (\A k \in Sockets : pc[k] \in {"none", "exited"}) => ~subscribed

(* Loops and sockets that no Connect has made yet.                           *)
FutureIsBlank ==
    /\ alive => conn # 0
    /\ \A k \in Sockets : source[k] <= connects
    /\ \A k \in Sockets : k > connects => At(k, "none") /\ source[k] = 0 /\ inbox[k] = <<>>
    /\ \A k \in Sockets : source[k] = 0 => pc[k] \in {"none", "left"}
    /\ \A g \in Connectors : dialled[g] <= connects
    /\ \A g, h \in Connectors : g # h /\ dialled[g] # 0 => dialled[h] # dialled[g]
    /\ \A g \in Connectors : At(g, "startReadLoop") =>
          dialled[g] # 0 /\ source[dialled[g]] = 0 /\ At(dialled[g], "none")

ViewInv ==
    /\ ViewAgreesWithServer /\ LastAnswerIsServerState /\ ClosedIsQuiet
    /\ BeliefEnds /\ FutureIsBlank

(* The converse, on the first connection and as long as nobody used Reset: a *)
(* channel that the server delivers to knows it, however the calls, their    *)
(* timeouts and failures and the queued operations crossed.  Otherwise it    *)
(* would drop its messages for ever.                                        *)
NeverDeaf ==
    connects = 1 /\ resets = 0 /\ alive /\ serverSub /\ Answers = {} => subscribed

(* A call that gives up leaves its pending flag, which makes later calls     *)
(* wait in the queue or send nothing.  If the server refuses nothing the     *)
(* flag is never left for good: the answer that clears it is on its way or   *)
(* about to be asked for.  A lost connection is the only exception: for one  *)
(* flag until the next SUBSCRIBED, which reconnectPending marks, and for the *)
(* other for good.                                                          *)
Subscribing(g) == pc[g] \in {"sendSubscribe", "subscribeFailed"}
Unsubscribing(g) == pc[g] \in {"sendUnsubscribe", "unsubscribeFailed"}
Underway(answer) == conn # 0 /\ \E i \in DOMAIN inbox[conn] : inbox[conn][i] = answer
PendingIsAnswered ==
    alive /\ rejects = 0 =>
        /\ Settled /\ pendingSubscribe /\ ~reconnectPending =>
              Underway("SUBSCRIBED") \/ \E g \in Goroutines : Subscribing(g)
        /\ connects = 1 /\ pendingUnsubscribe =>
              Underway("UNSUBSCRIBED") \/ \E g \in Goroutines : Unsubscribing(g)

-----------------------------------------------------------------------------
(* Liveness *)

(* Every call returns, and a read loop comes back to reading or ends: once   *)
(* nobody makes another call or Connect, which the bounds see to, all come   *)
(* to rest, as long as no catch-all update has locked c.mu a second time.    *)
AtRest == {"none", "idle", "exited", "left"}
CallsReturn ==
    (\E g \in Goroutines : pc[g] \notin AtRest)
        ~> (\A g \in Goroutines : pc[g] \in AtRest) \/ mu # None

(* "Catch-all update when already subscribed" (implementation-status.md).    *)
CatchAllReturns ==
    (\E g \in Goroutines : pc[g] \notin AtRest)
        ~> (\A g \in Goroutines : pc[g] \in AtRest)

(* A channel with callbacks that lost its connection is subscribed again     *)
(* after a Connect that finds the loops before ended, on a connection that   *)
(* lasts, if the server refuses nothing.                                    *)
ReconnectRestoresSubscription ==
    \A g \in Connectors :
        At(g, "afterReconnect") /\ connects > 1 /\ alive /\ HasCallback /\ Settled
            ~> \/ subscribed \/ ~alive \/ ~Settled \/ ~HasCallback
               \/ mu # None \/ rejects > 0

=============================================================================
