------------------------- MODULE SocketChannelProofs -------------------------
(***************************************************************************)
(* Proofs about SocketChannel for every number of callers, connecting      *)
(* goroutines, connections, events and handlers and without the bounds of  *)
(* the TLC instances: the type invariant, that the channel's belief never  *)
(* runs ahead of the server, nor on its first connection behind it, and    *)
(* that a pending flag is answered.                                        *)
(***************************************************************************)
EXTENDS SocketChannel, SequenceTheorems, TLAPS

-----------------------------------------------------------------------------
(* Type correctness.  Every action of a call or a read loop moves one        *)
(* goroutine with Goto, GotoSend, Return or Start; the lemma on them is      *)
(* shared by all.                                                           *)

Moves(g) ==
    \/ \E l \in Labels \ {"subscribe", "unsubscribe"} : Goto(g, l)
    \/ \E l \in Labels \ {"subscribe", "unsubscribe"} : GotoSend(g, l)
    \/ Return(g)
    \/ \E o \in Operations : Start(g, o)

LEMMA MovesTypes ==
    ASSUME ThreadsOK, NEW g \in Goroutines, Moves(g),
           late' \subseteq Goroutines, saved' \in [Connectors -> Copies]
    PROVE  ThreadsOK'
<1>1. CASE \E l \in Labels \ {"subscribe", "unsubscribe"} : Goto(g, l)
  BY <1>1 DEF ThreadsOK, Goto
<1>2. CASE \E l \in Labels \ {"subscribe", "unsubscribe"} : GotoSend(g, l)
  BY <1>2 DEF ThreadsOK, GotoSend
<1>3. CASE Return(g)
  BY <1>3 DEF ThreadsOK, Return, Labels
<1>4. CASE \E o \in Operations : Start(g, o)
  <2>1. PICK o \in Operations : Start(g, o)
    BY <1>4
  <2>2. o.kind \in Labels
    BY DEF Operations, Labels
  <2>3. pc' \in [Goroutines -> Labels] /\ op' \in [Goroutines -> Operations \cup {NoOp}]
    BY <2>1, <2>2 DEF ThreadsOK, Start
  <2>4. \A q \in Goroutines : pc'[q] \in {"subscribe", "unsubscribe"} => op'[q] \in Operations
    BY <2>1 DEF ThreadsOK, Start
  <2> QED
    BY <2>1, <2>3, <2>4 DEF ThreadsOK, Start
<1> QED
  BY <1>1, <1>2, <1>3, <1>4 DEF Moves

LEMMA InitTypes == ASSUME Init PROVE TypeOK
<1>0. MaxConnects \in Nat
  BY ChannelAssumption
<1>1. TransportOK
  <2>1. inbox \in [Sockets -> Seq(Frames)]
    BY EmptySeq DEF Init
  <2>2. connects \in 0 .. MaxConnects /\ conn \in 0 .. connects
    BY <1>0 DEF Init
  <2> QED
    BY <2>1, <2>2 DEF Init, TransportOK
<1>5. LoopsOK /\ FlagsOK /\ DonesOK /\ CountersOK /\ mu \in MaybeGoroutine
  BY DEF Init, LoopsOK, FlagsOK, DonesOK, CountersOK, MaybeGoroutine, MaybeSocket
<1>2. HandlersOK /\ NoCopy \in Copies
  BY DEF Init, HandlersOK, NoCallbacks, CallbackMaps, MaybeHandler, NoCopy, Copies
<1>3. ThreadsOK
  BY <1>2 DEF Init, ThreadsOK, Labels
<1>4. operationQueue \in Seq(Operations)
  BY EmptySeq DEF Init
<1> QED
  BY <1>1, <1>2, <1>3, <1>4, <1>5 DEF TypeOK

LEMMA QueueTypes ==
    ASSUME TypeOK, NEW o \in Operations
    PROVE  /\ Append(operationQueue, o) \in Seq(Operations)
           /\ operationQueue # <<>> =>
                 Head(operationQueue) \in Operations /\ Tail(operationQueue) \in Seq(Operations)
  BY AppendProperties, HeadTailProperties DEF TypeOK

LEMMA OpHandlerType ==
    ASSUME TypeOK, NEW g \in Goroutines
    PROVE  op[g].handler \in MaybeHandler
<1>1. op[g] \in Operations \cup {NoOp}
  BY DEF TypeOK, ThreadsOK
<1> QED
  BY <1>1 DEF Operations, NoOp, MaybeHandler

LEMMA CallbackTypes ==
    ASSUME TypeOK, NEW o, o.handler \in MaybeHandler
    PROVE  /\ NoCallbacks \in CallbackMaps
           /\ Remaining(o) \in CallbackMaps
           /\ [eventCallbacks EXCEPT ![o.event] = @ \cup {o.handler}] \in CallbackMaps
  BY DEF TypeOK, HandlersOK, NoCallbacks, Remaining, CallbackMaps

(* What a step that leaves the transport and the read loops alone leaves     *)
(* typed.                                                                   *)
LEMMA OthersTypes ==
    ASSUME TypeOK, UNCHANGED others
    PROVE  /\ TransportOK' /\ LoopsOK' /\ CountersOK'
           /\ late' \subseteq Goroutines /\ saved' \in [Connectors -> Copies]
  BY DEF TypeOK, others, transport, loops, counters, TransportOK, LoopsOK, CountersOK, ThreadsOK

LEMMA SubscribeTypes ==
    ASSUME TypeOK, NEW g \in Goroutines,
           \/ SubscribeBranch(g) \/ AddEventHandler(g) \/ SubscribeNetwork(g)
           \/ SubscribeFailed(g) \/ WaitAckDone(g) \/ WaitAckTimeout(g)
    PROVE  TypeOK'
<1> USE DEF flags, handlers, dones, channel
<1>0. UNCHANGED others
  BY DEF SubscribeBranch, AddEventHandler, SubscribeNetwork, SubscribeFailed, WaitAckDone,
         WaitAckTimeout
<1> SUFFICES /\ FlagsOK' /\ DonesOK' /\ HandlersOK' /\ operationQueue' \in Seq(Operations)
             /\ mu' \in MaybeGoroutine /\ Moves(g)
  BY <1>0, OthersTypes, MovesTypes DEF TypeOK
<1>1. CASE SubscribeBranch(g)
  <2>1. FlagsOK' /\ DonesOK' /\ HandlersOK'
    BY <1>1 DEF SubscribeBranch, TypeOK, FlagsOK, DonesOK, HandlersOK
  <2>2. op[g] \in Operations
    BY <1>1 DEF SubscribeBranch, Locked, At, TypeOK, ThreadsOK
  <2>3. operationQueue' \in Seq(Operations) /\ mu' \in MaybeGoroutine
    BY <1>1, <2>2, QueueTypes DEF SubscribeBranch, Enqueue, MaybeGoroutine, TypeOK
  <2>4. Moves(g)
    BY <1>1 DEF SubscribeBranch, Labels, Moves
  <2> QED
    BY <2>1, <2>3, <2>4
<1>2. CASE AddEventHandler(g)
  <2>1. HandlersOK'
    BY <1>2, CallbackTypes, OpHandlerType
    DEF AddEventHandler, AddEventHandlerLocked, HandlersOK, TypeOK
  <2>2. Moves(g)
    BY <1>2 DEF AddEventHandler, Moves
  <2> QED
    BY <1>2, <2>1, <2>2 DEF AddEventHandler, TypeOK, FlagsOK, DonesOK
<1>3. CASE SubscribeNetwork(g)
  <2>1. HandlersOK'
    BY <1>3, CallbackTypes, OpHandlerType
    DEF SubscribeNetwork, AddEventHandlerLocked, HandlersOK, TypeOK
  <2>2. Moves(g)
    BY <1>3 DEF SubscribeNetwork, Moves, Labels
  <2> QED
    BY <1>3, <2>1, <2>2
    DEF SubscribeNetwork, TypeOK, FlagsOK, DonesOK, MaybeGoroutine
<1>4. CASE SubscribeFailed(g)
  BY <1>4 DEF SubscribeFailed, TypeOK, FlagsOK, DonesOK, HandlersOK, Moves
<1>5. CASE WaitAckDone(g) \/ WaitAckTimeout(g)
  BY <1>5 DEF WaitAckDone, WaitAckTimeout, TypeOK, FlagsOK, DonesOK, HandlersOK, Moves
<1> QED
  BY <1>1, <1>2, <1>3, <1>4, <1>5

LEMMA UnsubscribeTypes ==
    ASSUME TypeOK, NEW g \in Goroutines,
           \/ UnsubscribeEvent(g) \/ UnsubscribeWhole(g)
           \/ UnsubscribeNetwork(g) \/ UnsubscribeFailed(g)
    PROVE  TypeOK'
<1> USE DEF flags, handlers, dones, channel
<1>0. UNCHANGED others
  BY DEF UnsubscribeEvent, UnsubscribeWhole, UnsubscribeNetwork, UnsubscribeFailed
<1> SUFFICES /\ FlagsOK' /\ DonesOK' /\ HandlersOK' /\ operationQueue' \in Seq(Operations)
             /\ mu' \in MaybeGoroutine /\ Moves(g)
  BY <1>0, OthersTypes, MovesTypes DEF TypeOK
<1>1. CASE UnsubscribeEvent(g)
  <2>1. FlagsOK' /\ DonesOK' /\ mu' \in MaybeGoroutine
    BY <1>1 DEF UnsubscribeEvent, TypeOK, FlagsOK, DonesOK
  <2>2. op[g] \in Operations
    BY <1>1 DEF UnsubscribeEvent, Locked, At, TypeOK, ThreadsOK
  <2>3. HandlersOK'
    BY <1>1, CallbackTypes, OpHandlerType DEF UnsubscribeEvent, HandlersOK, TypeOK
  <2>4. operationQueue' \in Seq(Operations)
    BY <1>1, <2>2, QueueTypes DEF UnsubscribeEvent, Enqueue, TypeOK
  <2>5. Moves(g)
    BY <1>1 DEF UnsubscribeEvent, Labels, Moves
  <2> QED
    BY <2>1, <2>3, <2>4, <2>5
<1>2. CASE UnsubscribeWhole(g)
  <2>1. FlagsOK' /\ DonesOK' /\ HandlersOK' /\ mu' \in MaybeGoroutine
    BY <1>2 DEF UnsubscribeWhole, TypeOK, FlagsOK, DonesOK, HandlersOK
  <2>2. op[g] \in Operations
    BY <1>2 DEF UnsubscribeWhole, Locked, At, TypeOK, ThreadsOK
  <2>3. operationQueue' \in Seq(Operations)
    BY <1>2, <2>2, QueueTypes DEF UnsubscribeWhole, Enqueue, TypeOK
  <2>4. Moves(g)
    BY <1>2 DEF UnsubscribeWhole, Labels, Moves
  <2> QED
    BY <2>1, <2>3, <2>4
<1>3. CASE UnsubscribeNetwork(g)
  BY <1>3 DEF UnsubscribeNetwork, TypeOK, FlagsOK, DonesOK, HandlersOK, MaybeGoroutine,
              Moves, Labels
<1>4. CASE UnsubscribeFailed(g)
  BY <1>4 DEF UnsubscribeFailed, TypeOK, FlagsOK, DonesOK, HandlersOK, Moves
<1> QED
  BY <1>1, <1>2, <1>3, <1>4

LEMMA ResubscribeTypes ==
    ASSUME TypeOK, NEW g \in Connectors,
           ResubscribeAfterReconnect(g) \/ ResubscribeCopy(g) \/ ResubscribeNetwork(g)
    PROVE  TypeOK'
<1> USE DEF flags, handlers, dones, channel, Moves, Labels
<1>0. g \in Goroutines
  BY DEF Goroutines
<1>1. CASE ResubscribeAfterReconnect(g)
  <2>1. Moves(g) /\ UNCHANGED others
    BY <1>1 DEF ResubscribeAfterReconnect
  <2> QED
    BY <1>0, <1>1, <2>1, OthersTypes, MovesTypes
    DEF ResubscribeAfterReconnect, TypeOK, FlagsOK, DonesOK, HandlersOK
<1>2. CASE ResubscribeCopy(g) \/ ResubscribeNetwork(g)
  <2>0. HandlersOK /\ saved \in [Connectors -> Copies]
    BY DEF TypeOK, ThreadsOK
  <2>1. Moves(g) /\ UNCHANGED <<transport, loops, late, counters>>
    BY <1>2 DEF ResubscribeCopy, ResubscribeNetwork
  <2>2. NoCopy \in Copies /\ [catchAll |-> catchAllHandler, callbacks |-> eventCallbacks] \in Copies
    BY <2>0 DEF HandlersOK, NoCopy, NoCallbacks, Copies, MaybeHandler, CallbackMaps
  <2>3. saved' \in [Connectors -> Copies]
    BY <1>2, <2>0, <2>2 DEF ResubscribeCopy, ResubscribeNetwork
  <2>4. ThreadsOK'
    <3>1. late' \subseteq Goroutines
      BY <2>1 DEF TypeOK, ThreadsOK
    <3> QED
      BY <1>0, <2>1, <2>3, <3>1, MovesTypes DEF TypeOK
  <2>5. TransportOK' /\ LoopsOK' /\ CountersOK'
    BY <2>1 DEF transport, loops, counters, TypeOK, TransportOK, LoopsOK, CountersOK
  <2>6. /\ FlagsOK' /\ DonesOK' /\ operationQueue' \in Seq(Operations) /\ mu' \in MaybeGoroutine
    BY <1>0, <1>2
    DEF ResubscribeCopy, ResubscribeNetwork, TypeOK, FlagsOK, DonesOK, MaybeGoroutine
  <2>7. HandlersOK'
    <3>1. CASE ResubscribeCopy(g)
      BY <2>0, <3>1 DEF ResubscribeCopy, HandlersOK
    <3>2. CASE ResubscribeNetwork(g)
      BY <2>0, <3>2 DEF ResubscribeNetwork, HandlersOK, Copies
    <3> QED
      BY <1>2, <3>1, <3>2
  <2> QED
    BY <2>4, <2>5, <2>6, <2>7 DEF TypeOK
<1> QED
  BY <1>1, <1>2

LEMMA ResetTypes ==
    ASSUME TypeOK, NEW g \in Goroutines, Reset(g)
    PROVE  TypeOK'
<1> USE DEF flags, handlers, dones, channel, Moves, Labels
<1>1. HandlersOK' /\ operationQueue' \in Seq(Operations)
  BY EmptySeq DEF Reset, HandlersOK, MaybeHandler, CallbackMaps, NoCallbacks
<1>2. Moves(g) /\ UNCHANGED <<transport, loops, late, saved>>
  BY DEF Reset
<1>3. ThreadsOK'
  <2>1. late' \subseteq Goroutines /\ saved' \in [Connectors -> Copies]
    BY <1>2 DEF TypeOK, ThreadsOK
  <2> QED
    BY <1>2, <2>1, MovesTypes DEF TypeOK
<1>4. TransportOK' /\ LoopsOK'
  BY <1>2 DEF transport, loops, TypeOK, TransportOK, LoopsOK
<1> QED
  <2>1. CountersOK'
    BY DEF Reset, TypeOK, CountersOK
  <2>2. FlagsOK' /\ DonesOK' /\ mu' \in MaybeGoroutine
    BY DEF Reset, TypeOK, FlagsOK, DonesOK
  <2> QED
    BY <1>1, <1>3, <1>4, <2>1, <2>2 DEF TypeOK

(* ws.Send: only the transport, the counter of refusals and g move.          *)
LEMMA AnsweredTypes ==
    ASSUME TypeOK, NEW answer \in Frames,
           Answered(answer) \/ Vanished \/ UNCHANGED <<transport, rejects>>
    PROVE  TransportOK' /\ rejects' \in Nat
<1>1. \A k \in Sockets : \A f \in Frames : Append(inbox[k], f) \in Seq(Frames)
  BY AppendProperties DEF TypeOK, TransportOK
<1>2. "ERROR" \in Frames
  BY DEF Frames
<1>3. CASE Answered(answer)
  <2>1. serverSub' \in BOOLEAN
    BY <1>3 DEF Answered, TypeOK, TransportOK
  <2>2. inbox' \in [Sockets -> Seq(Frames)]
    <3>1. PICK f \in Frames : inbox' = [inbox EXCEPT ![conn] = Append(@, f)]
      BY <1>2, <1>3 DEF Answered
    <3> QED
      BY <1>1, <3>1 DEF TypeOK, TransportOK
  <2>3. rejects' \in Nat
    BY <1>3 DEF Answered, TypeOK, CountersOK
  <2> QED
    BY <1>3, <2>1, <2>2, <2>3 DEF Answered, TypeOK, TransportOK
<1>4. CASE Vanished \/ UNCHANGED <<transport, rejects>>
  BY <1>4 DEF Vanished, transport, TypeOK, TransportOK, CountersOK
<1> QED
  BY <1>3, <1>4

LEMMA SendWireTypes ==
    ASSUME TypeOK, NEW g \in Goroutines, NEW label, NEW answer \in Frames,
           NEW wait \in Labels \ {"subscribe", "unsubscribe"},
           NEW fail \in Labels \ {"subscribe", "unsubscribe"},
           SendWire(g, label, answer, wait, fail)
    PROVE  TypeOK'
<1>1. ThreadsOK'
  <2>1. late' \subseteq Goroutines /\ saved' \in [Connectors -> Copies]
    BY DEF SendWire, TypeOK, ThreadsOK
  <2> QED
    BY <2>1, MovesTypes DEF SendWire, Moves, TypeOK
<1>2. TransportOK' /\ rejects' \in Nat
  BY AnsweredTypes DEF SendWire, SendError
<1> QED
  BY <1>1, <1>2
  DEF SendWire, channel, loops, flags, handlers, dones, TypeOK, LoopsOK, FlagsOK, HandlersOK,
      DonesOK, CountersOK

LEMMA SendTypes ==
    ASSUME TypeOK, NEW g \in Goroutines, SendSubscribe(g) \/ SendUnsubscribe(g)
    PROVE  TypeOK'
<1>1. /\ {"waitSubscribed", "subscribeFailed", "waitUnsubscribed", "unsubscribeFailed"}
           \subseteq Labels \ {"subscribe", "unsubscribe"}
      /\ {"SUBSCRIBED", "UNSUBSCRIBED"} \subseteq Frames
  BY DEF Labels, Frames
<1>2. CASE SendSubscribe(g)
  BY <1>1, <1>2, SendWireTypes DEF SendSubscribe
<1>3. CASE SendUnsubscribe(g)
  BY <1>1, <1>3, SendWireTypes DEF SendUnsubscribe
<1> QED
  BY <1>2, <1>3

LEMMA ReceiveTypes ==
    ASSUME TypeOK, NEW r \in Sockets, NEW f, Receive(r, f)
    PROVE  /\ TransportOK' /\ LoopsOK' /\ CountersOK' /\ operationQueue' \in Seq(Operations)
           /\ mu' \in MaybeGoroutine /\ pc[r] = "idle"
           /\ UNCHANGED <<op, saved, late>>
<1>1. inbox' \in [Sockets -> Seq(Frames)]
  <2>1. inbox[source[r]] # <<>> /\ inbox' = [inbox EXCEPT ![source[r]] = Tail(@)]
    BY DEF Receive
  <2>2. \A k \in Sockets : inbox[k] # <<>> => Tail(inbox[k]) \in Seq(Frames)
    BY HeadTailProperties DEF TypeOK, TransportOK
  <2> QED
    BY <2>1, <2>2 DEF TypeOK, TransportOK
<1> QED
  BY <1>1 DEF Receive, Locked, At, loops, counters, TypeOK, TransportOK, LoopsOK, CountersOK

LEMMA ReadLoopTypes ==
    ASSUME TypeOK, NEW r \in Sockets, ReadLoop(r)
    PROVE  TypeOK'
<1> USE DEF flags, handlers, dones, channel
<1>0. r \in Goroutines
  BY DEF Goroutines
<1>1. ASSUME NEW l \in {"processQueue", "checkDone"}, pc' = [pc EXCEPT ![r] = l],
             UNCHANGED <<op, saved, late>>, acked' \subseteq Goroutines
      PROVE  ThreadsOK'
  BY <1>1 DEF TypeOK, ThreadsOK, Labels
<1>2. \A ls : \A d \in MaybeGoroutine : Signal(d, ls) => acked' \subseteq Goroutines
  BY DEF Signal, MaybeGoroutine, TypeOK, ThreadsOK
<1>3. CASE CheckDone(r)
  <2>1. Moves(r) /\ UNCHANGED others
    BY <1>3 DEF CheckDone, Moves, Labels
  <2> QED
    BY <1>0, <1>3, <2>1, OthersTypes, MovesTypes
    DEF CheckDone, TypeOK, FlagsOK, DonesOK, HandlersOK
<1>4. CASE HandleSubscribed(r)
  <2>1. acked' \subseteq Goroutines
    BY <1>2, <1>4 DEF HandleSubscribed, TypeOK, DonesOK
  <2>2. FlagsOK' /\ DonesOK' /\ HandlersOK'
    BY <1>4 DEF HandleSubscribed, TypeOK, FlagsOK, DonesOK, HandlersOK, MaybeGoroutine
  <2> QED
    BY <1>1, <1>4, <2>1, <2>2, ReceiveTypes DEF HandleSubscribed, TypeOK
<1>5. CASE HandleUnsubscribed(r)
  <2>1. acked' \subseteq Goroutines
    BY <1>2, <1>5 DEF HandleUnsubscribed, TypeOK, DonesOK
  <2>2. FlagsOK' /\ DonesOK' /\ HandlersOK'
    BY <1>5 DEF HandleUnsubscribed, TypeOK, FlagsOK, DonesOK, HandlersOK,
                MaybeGoroutine, MaybeHandler, CallbackMaps, NoCallbacks
  <2> QED
    BY <1>1, <1>5, <2>1, <2>2, ReceiveTypes DEF HandleUnsubscribed, TypeOK
<1>6. CASE HandleError(r)
  <2>1. FlagsOK' /\ DonesOK' /\ HandlersOK' /\ acked' \subseteq Goroutines
    BY <1>6 DEF HandleError, TypeOK, FlagsOK, DonesOK, HandlersOK, ThreadsOK
  <2> QED
    BY <1>1, <1>6, <2>1, ReceiveTypes DEF HandleError, TypeOK
<1>7. CASE ProcessOperationQueue(r)
  <2>1. operationQueue' \in Seq(Operations) /\ Moves(r) /\ UNCHANGED others
    BY <1>7, HeadTailProperties DEF ProcessOperationQueue, Moves, TypeOK
  <2> QED
    BY <1>0, <1>7, <2>1, OthersTypes, MovesTypes
    DEF ProcessOperationQueue, TypeOK, FlagsOK, HandlersOK, DonesOK
<1>8. CASE OnClose(r)
  <2>1. Moves(r) /\ UNCHANGED <<transport, source, readCancel, dialled, saved, late, counters>>
    BY <1>8 DEF OnClose, LoopEnds, Moves, Labels
  <2>2. ThreadsOK'
    <3>1. late' \subseteq Goroutines /\ saved' \in [Connectors -> Copies]
      BY <2>1 DEF TypeOK, ThreadsOK
    <3> QED
      BY <1>0, <2>1, <3>1, MovesTypes DEF TypeOK
  <2>3. TransportOK' /\ LoopsOK' /\ CountersOK'
    BY <1>8, <2>1
    DEF OnClose, LoopEnds, transport, counters, TypeOK, TransportOK, LoopsOK, CountersOK
  <2> QED
    BY <1>8, <2>2, <2>3 DEF OnClose, LoopEnds, TypeOK, FlagsOK, HandlersOK, DonesOK
<1> QED
  BY <1>3, <1>4, <1>5, <1>6, <1>7, <1>8 DEF ReadLoop

(* What ends a socket keeps a prefix of its inbox.                           *)
LEMMA CloseSocketTypes ==
    ASSUME TypeOK, CloseSocket
    PROVE  inbox' \in [Sockets -> Seq(Frames)] /\ losses' \in Nat
<1>1. losses' \in Nat
  BY DEF CloseSocket, TypeOK, CountersOK
<1>2. CASE conn = 0
  BY <1>1, <1>2 DEF CloseSocket, TypeOK, TransportOK
<1>3. CASE conn # 0
  <2>0. conn \in Sockets
    BY <1>3, ChannelAssumption DEF TypeOK, TransportOK, Sockets
  <2>1. inbox[conn] \in Seq(Frames)
    BY <2>0 DEF TypeOK, TransportOK
  <2>2. PICK n \in 0 .. Len(inbox[conn]) : inbox' = [inbox EXCEPT ![conn] = SubSeq(@, 1, n)]
    BY <1>3 DEF CloseSocket
  <2>3. n \in Int /\ \A i \in 1 .. n : inbox[conn][i] \in Frames
    <3>1. Len(inbox[conn]) \in Nat
      BY <2>1, LenProperties
    <3>2. \A i \in 1 .. Len(inbox[conn]) : inbox[conn][i] \in Frames
      BY <2>1, ElementOfSeq
    <3> QED
      BY <3>1, <3>2
  <2>4. SubSeq(inbox[conn], 1, n) \in Seq(Frames)
    BY <2>1, <2>3, SubSeqProperties
  <2> QED
    BY <1>1, <2>0, <2>2, <2>4 DEF TypeOK, TransportOK
<1> QED
  BY <1>2, <1>3

LEMMA ConnectTypes ==
    ASSUME TypeOK, NEW g \in Connectors, Connect(g) \/ StartReadLoop(g)
    PROVE  TypeOK'
<1> USE DEF channel, flags, handlers, dones
<1>0. g \in Goroutines /\ MaxConnects \in Nat
  BY ChannelAssumption DEF Goroutines
<1>1. CASE Connect(g)
  <2>1. connects \in Nat /\ connects < MaxConnects /\ connects + 1 \in Sockets
    BY <1>0, <1>1 DEF Connect, TypeOK, TransportOK, Sockets
  <2>2. TransportOK' /\ losses' \in Nat
    <3>1. /\ connects' = connects + 1 /\ conn' = connects + 1 /\ alive' = TRUE
          /\ serverSub' = FALSE /\ CloseSocket
      BY <1>1 DEF Connect
    <3>2. connects' \in 0 .. MaxConnects /\ conn' \in 0 .. connects'
      BY <1>0, <2>1, <3>1
    <3> QED
      BY <3>1, <3>2, CloseSocketTypes DEF TransportOK
  <2>3. LoopsOK'
    BY <1>1, <2>1 DEF Connect, TypeOK, LoopsOK, MaybeSocket
  <2>4. ThreadsOK'
    <3>1. late' \subseteq Goroutines /\ saved' \in [Connectors -> Copies] /\ Moves(g)
      BY <1>1 DEF Connect, TypeOK, ThreadsOK, Moves, Labels
    <3> QED
      BY <1>0, <3>1, MovesTypes DEF TypeOK
  <2> QED
    BY <1>1, <2>2, <2>3, <2>4 DEF Connect, TypeOK, CountersOK, FlagsOK, HandlersOK, DonesOK
<1>2. CASE StartReadLoop(g)
  <2>1. LoopsOK'
    <3>1. conn \in MaybeSocket
      BY <1>0 DEF TypeOK, TransportOK, MaybeSocket, Sockets
    <3>2. dialled[g] \in MaybeSocket /\ readCancel \in MaybeSocket
      BY DEF TypeOK, LoopsOK
    <3> QED
      BY <1>2, <3>1, <3>2 DEF StartReadLoop, TypeOK, LoopsOK, MaybeSocket
  <2>2. ThreadsOK'
    BY <1>2 DEF StartReadLoop, TypeOK, ThreadsOK, Labels
  <2> QED
    BY <1>2, <2>1, <2>2
    DEF StartReadLoop, transport, counters, TypeOK, TransportOK, CountersOK, FlagsOK, HandlersOK,
        DonesOK
<1> QED
  BY <1>1, <1>2

LEMMA OtherTypes ==
    ASSUME TypeOK, Environment \/ \E g \in Callers : Call(g)
    PROVE  TypeOK'
<1> USE DEF transport, loops, flags, handlers, dones, channel, threads, counters
<1>1. ASSUME NEW g \in Callers, Call(g) PROVE TypeOK'
  <2>1. Moves(g) /\ g \in Goroutines
    BY <1>1, ChannelAssumption DEF Call, Moves, Goroutines
  <2>2. ThreadsOK'
    <3>1. late' \subseteq Goroutines /\ saved' \in [Connectors -> Copies]
      BY <1>1 DEF Call, TypeOK, ThreadsOK
    <3> QED
      BY <2>1, <3>1, MovesTypes DEF TypeOK
  <2> QED
    BY <1>1, <2>2
    DEF Call, TypeOK, TransportOK, LoopsOK, FlagsOK, HandlersOK, DonesOK, CountersOK
<1>2. CASE ConnectionLost \/ Disconnect
  <2>1. TransportOK' /\ losses' \in Nat
    <3>1. CloseSocket /\ connects' = connects /\ ~alive' /\ alive' \in BOOLEAN
          /\ serverSub' \in BOOLEAN /\ (conn' = conn \/ conn' = 0)
      BY <1>2 DEF ConnectionLost, Disconnect
    <3>2. connects \in 0 .. MaxConnects /\ conn \in 0 .. connects
      BY DEF TypeOK, TransportOK
    <3>3. connects' \in 0 .. MaxConnects /\ conn' \in 0 .. connects'
      BY <3>1, <3>2, ChannelAssumption
    <3> QED
      BY <3>1, <3>3, CloseSocketTypes DEF TransportOK
  <2> QED
    BY <1>2, <2>1
    DEF ConnectionLost, Disconnect, TypeOK, LoopsOK, FlagsOK, HandlersOK, DonesOK, ThreadsOK,
        CountersOK
<1>3. CASE ContextEnds
  <2>1. cancelled' \subseteq Sockets
    BY <1>3, ChannelAssumption DEF ContextEnds, TypeOK, TransportOK, LoopsOK, Sockets
  <2> QED
    BY <1>3, <2>1
    DEF ContextEnds, TypeOK, TransportOK, LoopsOK, FlagsOK, HandlersOK, DonesOK, ThreadsOK,
        CountersOK
<1> QED
  BY <1>1, <1>2, <1>3 DEF Environment

(* Every reachable state of the channel, its goroutines and its transport    *)
(* has the declared types; in particular only operations are ever queued,    *)
(* and a goroutine about to enter Subscribe or Unsubscribe has one.          *)
THEOREM TypeCorrect == Spec => []TypeOK
<1>1. Init => TypeOK
  BY InitTypes
<1>2. TypeOK /\ [Next]_vars => TypeOK'
  <2> SUFFICES ASSUME TypeOK, [Next]_vars PROVE TypeOK'
    OBVIOUS
  <2>1. ASSUME NEW g \in Goroutines, Step(g) PROVE TypeOK'
    BY <2>1, SubscribeTypes, SendTypes, UnsubscribeTypes, ResetTypes DEF Step
  <2>2. ASSUME NEW g \in Connectors, Connecting(g) PROVE TypeOK'
    BY <2>2, ConnectTypes, ResubscribeTypes DEF Connecting
  <2>3. CASE UNCHANGED vars
    BY <2>3
    DEF vars, transport, loops, flags, handlers, dones, channel, threads, counters, TypeOK,
        TransportOK, LoopsOK, FlagsOK, HandlersOK, DonesOK, ThreadsOK, CountersOK
  <2> QED
    BY <2>1, <2>2, <2>3, ReadLoopTypes, ConnectTypes, OtherTypes DEF Next, Run
<1> QED
  BY <1>1, <1>2, PTL DEF Spec

-----------------------------------------------------------------------------
(* The channel's belief.  ViewAgreesWithServer is not inductive: handling an *)
(* answer needs the answers still to come to tell the server's state, a new   *)
(* connection needs the loops before it to have left no belief behind, and    *)
(* the loops that are still to start must not be taken for ended ones.        *)
(* ViewInv adds all that.                                                    *)

LEMMA FrameFacts ==
    ASSUME NEW s \in Seq(Frames)
    PROVE  /\ Len(s) \in Nat /\ DOMAIN s = 1 .. Len(s)
           /\ \A i \in 1 .. Len(s) : s[i] \in Frames
           /\ AnswersIn(s) \subseteq 1 .. Len(s)
<1>1. Len(s) \in Nat /\ DOMAIN s = 1 .. Len(s)
  BY LenProperties
<1> QED
  BY <1>1, ElementOfSeq DEF AnswersIn

(* What is left when the first frame has been taken.                         *)
LEMMA TailTells ==
    ASSUME NEW s \in Seq(Frames), s # <<>>, NEW b, LastTells(s, b)
    PROVE  /\ LastTells(Tail(s), b)
           /\ AnswersIn(Tail(s)) = {} /\ Head(s) # "ERROR" => (b <=> Head(s) = "SUBSCRIBED")
           /\ AnswersIn(Tail(s)) = {} /\ Head(s) = "ERROR" => AnswersIn(s) = {}
<1> DEFINE t == Tail(s)
<1>1. /\ Len(s) \in Nat /\ DOMAIN s = 1 .. Len(s) /\ Len(s) # 0
      /\ DOMAIN t = 1 .. (Len(s) - 1)
      /\ \A i \in 1 .. (Len(s) - 1) : t[i] = s[i + 1]
      /\ Head(s) = s[1] /\ s[1] \in Frames
  <2>1. t \in Seq(Frames) /\ Len(t) = Len(s) - 1
    BY HeadTailProperties
  <2>2. DOMAIN t = 1 .. Len(t)
    BY <2>1, LenProperties
  <2>3. Len(s) # 0
    BY EmptySeq
  <2> QED
    BY <2>1, <2>2, <2>3, FrameFacts, HeadTailProperties
<1>2. \A i \in 1 .. (Len(s) - 1) : i \in AnswersIn(t) <=> i + 1 \in AnswersIn(s)
  BY <1>1 DEF AnswersIn
<1>3. AnswersIn(s) \subseteq 1 .. Len(s) /\ AnswersIn(t) \subseteq 1 .. (Len(s) - 1)
  BY <1>1 DEF AnswersIn
<1>4. LastTells(t, b)
  <2> SUFFICES ASSUME NEW i \in AnswersIn(t), \A j \in AnswersIn(t) : j <= i
               PROVE  b <=> t[i] = "SUBSCRIBED"
    BY DEF LastTells
  <2>1. i + 1 \in AnswersIn(s) /\ t[i] = s[i + 1]
    BY <1>1, <1>2, <1>3
  <2>2. \A j \in AnswersIn(s) : j <= i + 1
    <3> SUFFICES ASSUME NEW j \in AnswersIn(s), j # 1 PROVE j <= i + 1
      BY <1>1, <1>3
    <3>1. j - 1 \in AnswersIn(t)
      BY <1>1, <1>2, <1>3
    <3> QED
      BY <1>1, <1>3, <3>1
  <2> QED
    BY <2>1, <2>2 DEF LastTells
<1>5. AnswersIn(t) = {} => \A j \in AnswersIn(s) : j = 1
  <2> SUFFICES ASSUME AnswersIn(t) = {}, NEW j \in AnswersIn(s), j # 1 PROVE FALSE
    OBVIOUS
  <2>1. j - 1 \in 1 .. (Len(s) - 1)
    BY <1>1, <1>3
  <2>2. j - 1 \in AnswersIn(t) <=> (j - 1) + 1 \in AnswersIn(s)
    BY <1>2, <2>1
  <2>3. (j - 1) + 1 = j
    BY <1>1, <1>3
  <2> QED
    BY <2>2, <2>3
<1>6. Head(s) # "ERROR" <=> 1 \in AnswersIn(s)
  BY <1>1 DEF AnswersIn, Frames
<1>7. ASSUME AnswersIn(t) = {}, Head(s) # "ERROR" PROVE b <=> Head(s) = "SUBSCRIBED"
  <2>1. 1 \in AnswersIn(s) /\ \A j \in AnswersIn(s) : j <= 1
    BY <1>5, <1>6, <1>7
  <2> QED
    BY <1>1, <2>1 DEF LastTells
<1> QED
  BY <1>4, <1>5, <1>6, <1>7

(* What a frame adds.                                                        *)
LEMMA AppendTells ==
    ASSUME NEW s \in Seq(Frames), NEW b, LastTells(s, b), NEW f \in Frames
    PROVE  /\ f = "ERROR" =>
                LastTells(Append(s, f), b) /\ AnswersIn(Append(s, f)) = AnswersIn(s)
           /\ f # "ERROR" =>
                LastTells(Append(s, f), f = "SUBSCRIBED") /\ AnswersIn(Append(s, f)) # {}
<1> DEFINE t == Append(s, f)
<1>1. /\ Len(s) \in Nat /\ DOMAIN s = 1 .. Len(s)
      /\ DOMAIN t = 1 .. (Len(s) + 1)
      /\ \A i \in 1 .. Len(s) : t[i] = s[i]
      /\ t[Len(s) + 1] = f
  <2>1. t \in Seq(Frames) /\ Len(t) = Len(s) + 1
    BY AppendProperties
  <2>2. DOMAIN t = 1 .. Len(t)
    BY <2>1, LenProperties
  <2> QED
    BY <2>1, <2>2, FrameFacts, AppendProperties
<1>2. AnswersIn(s) \subseteq 1 .. Len(s)
  BY <1>1 DEF AnswersIn
<1>3. CASE f # "ERROR"
  <2>1. AnswersIn(t) = AnswersIn(s) \cup {Len(s) + 1}
    BY <1>1, <1>3 DEF AnswersIn, Frames
  <2>2. \A i \in AnswersIn(t) : (\A j \in AnswersIn(t) : j <= i) => i = Len(s) + 1
    BY <1>1, <1>2, <2>1
  <2> QED
    BY <1>1, <1>3, <2>1, <2>2 DEF LastTells
<1>4. CASE f = "ERROR"
  <2>1. AnswersIn(t) = AnswersIn(s) /\ \A i \in AnswersIn(s) : t[i] = s[i]
    BY <1>1, <1>4 DEF AnswersIn
  <2> QED
    BY <1>4, <2>1 DEF LastTells
<1> QED
  BY <1>3, <1>4

LEMMA ConnFacts ==
    ASSUME TypeOK
    PROVE  /\ MaxConnects \in Nat /\ connects \in Nat /\ connects <= MaxConnects
           /\ conn \in Nat /\ conn <= connects
           /\ Sockets \subseteq Nat \ {0} /\ Sockets \subseteq Goroutines
           /\ \A k \in Nat : k # 0 /\ k <= connects => k \in Sockets /\ k \in 1 .. connects
           /\ 1 .. connects \subseteq Sockets
           /\ conn # 0 => conn \in Sockets /\ inbox[conn] \in Seq(Frames)
           /\ \A k \in Sockets : source[k] \in Nat /\ inbox[k] \in Seq(Frames)
<1>1. MaxConnects \in Nat
  BY ChannelAssumption
<1>2. connects \in 0 .. MaxConnects /\ conn \in 0 .. connects
  BY DEF TypeOK, TransportOK
<1>3. \A k \in Sockets : source[k] \in Nat /\ inbox[k] \in Seq(Frames)
  BY <1>1 DEF TypeOK, TransportOK, LoopsOK, MaybeSocket, Sockets
<1> QED
  BY <1>1, <1>2, <1>3 DEF Sockets, Goroutines

(* A goroutine that moves but neither ends nor has ended.                    *)
LEMMA MoveKeepsClosed ==
    ASSUME TypeOK, UNCHANGED <<connects, conn, source>>,
           NEW g \in Goroutines, NEW l,
           pc[g] \notin {"exited", "left"}, l \notin {"exited", "left"},
           pc' = [pc EXCEPT ![g] = l]
    PROVE  /\ Settled' <=> Settled
           /\ \A k \in Sockets : Closed(k)' <=> Closed(k)
<1>1. /\ \A q \in Goroutines : q # g => pc'[q] = pc[q]
      /\ pc'[g] = l
  BY DEF TypeOK, ThreadsOK
<1>2. \A k \in Sockets : (Closed(k)' <=> Closed(k)) /\ (At(k, "left")' <=> At(k, "left"))
  BY <1>1, ConnFacts DEF Closed, At
<1> QED
  BY <1>2, ConnFacts DEF Settled

LEMMA MoveKeepsFuture ==
    ASSUME TypeOK, FutureIsBlank, UNCHANGED <<connects, source, dialled>>, alive' => conn' # 0,
           \A k \in Sockets : k > connects => inbox'[k] = inbox[k],
           NEW g \in Goroutines, NEW l, pc[g] \notin {"none", "left"},
           l \notin {"none", "startReadLoop"},
           pc' = [pc EXCEPT ![g] = l]
    PROVE  FutureIsBlank'
<1>1. /\ \A q \in Goroutines : q # g => pc'[q] = pc[q]
      /\ pc'[g] = l
  BY DEF TypeOK, ThreadsOK
<1>2. \A k \in Sockets : pc[k] = "none" => pc'[k] = "none"
  BY <1>1, ConnFacts
<1>3. \A k \in Sockets : source[k] = 0 => pc'[k] \in {"none", "left"}
  BY <1>1, ConnFacts DEF FutureIsBlank
<1>4. ASSUME NEW q \in Connectors, At(q, "startReadLoop")'
      PROVE  dialled[q] # 0 /\ source[dialled[q]] = 0 /\ At(dialled[q], "none")'
  <2>1. At(q, "startReadLoop")
    BY <1>1, <1>4 DEF At, Goroutines
  <2>2. dialled[q] \in Sockets
    BY <2>1 DEF FutureIsBlank, TypeOK, LoopsOK, MaybeSocket
  <2> QED
    BY <1>2, <2>1, <2>2 DEF FutureIsBlank, At
<1> QED
  BY <1>2, <1>3, <1>4 DEF FutureIsBlank, At

(* Most steps move one goroutine, leave the transport and the loops alone    *)
(* and never start to believe.                                              *)
LEMMA QuietView ==
    ASSUME TypeOK, ViewInv, UNCHANGED transport, UNCHANGED <<source, dialled>>,
           subscribed' => subscribed,
           NEW g \in Goroutines, NEW l,
           pc[g] \notin {"none", "exited", "left"},
           l \notin {"none", "exited", "left", "startReadLoop"},
           pc' = [pc EXCEPT ![g] = l]
    PROVE  ViewInv'
<1> USE DEF transport
<1>1. /\ Settled' <=> Settled
      /\ \A k \in Sockets : Closed(k)' <=> Closed(k)
  BY MoveKeepsClosed
<1>2. FutureIsBlank'
  BY MoveKeepsFuture DEF ViewInv, FutureIsBlank
<1>3. \A k \in Sockets : pc'[k] \in {"none", "exited"} => pc[k] \in {"none", "exited"}
  BY ConnFacts DEF TypeOK, ThreadsOK
<1> QED
  BY <1>1, <1>2, <1>3
  DEF ViewInv, ViewAgreesWithServer, LastAnswerIsServerState, ClosedIsQuiet, BeliefEnds, Answers

(* The labels a call or a read loop moves between.                           *)
Working == Labels \ {"none", "exited", "left", "startReadLoop"}

LEMMA StepMoves ==
    ASSUME TypeOK, NEW g \in Goroutines,
           \/ Step(g) \/ ResubscribeAfterReconnect(g) \/ ResubscribeCopy(g)
           \/ ResubscribeNetwork(g)
    PROVE  /\ pc[g] \in Working
           /\ \E l \in Working : pc' = [pc EXCEPT ![g] = l]
           /\ UNCHANGED <<source, readCancel, cancelled, dialled>>
           /\ SendSubscribe(g) \/ SendUnsubscribe(g) \/ UNCHANGED <<transport, losses, rejects>>
           /\ subscribed' => subscribed
<1> USE DEF Locked, At, others, channel, flags, loops, counters
<1>1. CASE Step(g) /\ (SendSubscribe(g) \/ SendUnsubscribe(g))
  BY <1>1 DEF SendSubscribe, SendUnsubscribe, SendWire, Goto, Working, Labels
<1>2. CASE SubscribeBranch(g) \/ AddEventHandler(g) \/ SubscribeNetwork(g) \/ SubscribeFailed(g)
  BY <1>2
  DEF SubscribeBranch, AddEventHandler, SubscribeNetwork, SubscribeFailed, Goto, GotoSend, Return,
      Working, Labels
<1>3. CASE WaitAckDone(g) \/ WaitAckTimeout(g) \/ Reset(g)
  BY <1>3 DEF WaitAckDone, WaitAckTimeout, Reset, Return, Working, Labels
<1>4. CASE UnsubscribeEvent(g) \/ UnsubscribeWhole(g) \/ UnsubscribeNetwork(g) \/ UnsubscribeFailed(g)
  BY <1>4
  DEF UnsubscribeEvent, UnsubscribeWhole, UnsubscribeNetwork, UnsubscribeFailed, Goto, GotoSend,
      Return, Working, Labels
<1>5. CASE ResubscribeAfterReconnect(g) \/ ResubscribeCopy(g) \/ ResubscribeNetwork(g)
  BY <1>5
  DEF ResubscribeAfterReconnect, ResubscribeCopy, ResubscribeNetwork, Goto, GotoSend, Return,
      Working, Labels
<1> QED
  BY <1>1, <1>2, <1>3, <1>4, <1>5 DEF Step

LEMMA GoroutineView ==
    ASSUME TypeOK, ViewInv, NEW g \in Goroutines,
           \/ Step(g) \/ ResubscribeAfterReconnect(g) \/ ResubscribeCopy(g)
           \/ ResubscribeNetwork(g)
    PROVE  ViewInv'
<1>0. PICK l \in Working : pc' = [pc EXCEPT ![g] = l]
  BY StepMoves
<1>1. CASE UNCHANGED transport
  BY <1>0, <1>1, StepMoves, QuietView DEF Working
<1>2. CASE ~UNCHANGED transport
  <2>1. PICK answer \in {"SUBSCRIBED", "UNSUBSCRIBED"} : Answered(answer)
    BY <1>2, StepMoves
    DEF SendSubscribe, SendUnsubscribe, SendWire, Vanished, SendError, transport
  <2>2. /\ conn # 0 /\ conn \in Sockets /\ alive /\ UNCHANGED <<conn, connects, alive>>
        /\ inbox[conn] \in Seq(Frames)
    BY <2>1, ConnFacts DEF Answered
  <2>3. PICK f \in Frames : /\ inbox' = [inbox EXCEPT ![conn] = Append(@, f)]
                            /\ \/ f # "ERROR" /\ serverSub' = (f = "SUBSCRIBED")
                               \/ f = "ERROR" /\ serverSub' = serverSub
    BY <2>1 DEF Answered, Frames
  <2>4. /\ inbox'[conn] = Append(inbox[conn], f)
        /\ \A k \in Sockets : k # conn => inbox'[k] = inbox[k]
    BY <2>2, <2>3 DEF TypeOK, TransportOK
  <2>5. /\ Settled' <=> Settled
        /\ \A k \in Sockets : Closed(k)' <=> Closed(k)
    <3>1. pc[g] \in Working /\ source' = source
      BY StepMoves
    <3> QED
      BY <1>0, <2>2, <3>1, MoveKeepsClosed DEF Working
  <2>6. FutureIsBlank'
    <3>1. \A k \in Sockets : k > connects => inbox'[k] = inbox[k]
      BY <2>4, ConnFacts
    <3> QED
      BY <1>0, <2>2, <3>1, StepMoves, MoveKeepsFuture DEF Working, ViewInv
  <2>7. LastTells(inbox[conn], serverSub)
    BY <2>2 DEF ViewInv, LastAnswerIsServerState
  <2>8. LastAnswerIsServerState' /\ ViewAgreesWithServer'
    <3>1. Answers' = AnswersIn(inbox'[conn])
      BY <2>2 DEF Answers
    <3>2. CASE f # "ERROR" /\ serverSub' = (f = "SUBSCRIBED")
      <4>1. LastTells(inbox'[conn], serverSub') /\ Answers' # {}
        BY <2>2, <2>4, <2>7, <3>1, <3>2, AppendTells
      <4> QED
        BY <2>2, <4>1 DEF LastAnswerIsServerState, ViewAgreesWithServer
    <3>3. CASE f = "ERROR" /\ serverSub' = serverSub
      <4>1. LastTells(inbox'[conn], serverSub') /\ Answers' = Answers
        BY <2>2, <2>4, <2>7, <3>1, <3>3, AppendTells DEF Answers
      <4>2. subscribed' => subscribed
        BY StepMoves
      <4> QED
        BY <2>2, <2>5, <3>3, <4>1, <4>2
        DEF LastAnswerIsServerState, ViewAgreesWithServer, ViewInv
    <3> QED
      BY <2>3, <3>2, <3>3
  <2>9. ClosedIsQuiet'
    BY <2>2, <2>4, <2>5 DEF ViewInv, ClosedIsQuiet
  <2>10. BeliefEnds'
    <3>1. \A k \in Sockets : pc'[k] \in {"none", "exited"} => pc[k] \in {"none", "exited"}
      BY <1>0, ConnFacts DEF TypeOK, ThreadsOK, Working
    <3> QED
      BY <2>5, <3>1, StepMoves DEF ViewInv, BeliefEnds
  <2> QED
    BY <2>6, <2>8, <2>9, <2>10 DEF ViewInv
<1> QED
  BY <1>1, <1>2

(* The frame taken by the loop that reads the socket in use.                 *)
LEMMA ReceiveView ==
    ASSUME TypeOK, ViewInv, NEW r \in Sockets, NEW f \in Frames, Receive(r, f)
    PROVE  /\ LastAnswerIsServerState'
           /\ source[r] = conn /\ alive /\ Answers' = {} =>
                 /\ f # "ERROR" => (serverSub <=> f = "SUBSCRIBED")
                 /\ f = "ERROR" => Answers = {}
           /\ source[r] # conn /\ alive => Answers' = Answers
           /\ \A k \in Sockets : inbox[k] = <<>> => inbox'[k] = <<>>
           /\ r <= connects /\ source[r] # 0 /\ source[r] <= connects
           /\ UNCHANGED <<conn, connects, alive, serverSub, source, dialled>>
<1>1. /\ pc[r] = "idle" /\ inbox[source[r]] # <<>> /\ Head(inbox[source[r]]) = f
      /\ inbox' = [inbox EXCEPT ![source[r]] = Tail(@)]
      /\ UNCHANGED <<conn, connects, alive, serverSub, source, dialled>>
  BY DEF Receive, Locked, At, loops
<1>2. r <= connects /\ source[r] # 0 /\ source[r] <= connects
  BY <1>1, ConnFacts DEF ViewInv, FutureIsBlank, At
<1>3. /\ source[r] \in Sockets
      /\ inbox'[source[r]] = Tail(inbox[source[r]])
      /\ \A k \in Sockets : k # source[r] => inbox'[k] = inbox[k]
  BY <1>1, <1>2, ConnFacts DEF TypeOK, TransportOK
<1>4. alive => conn \in Sockets /\ inbox[conn] \in Seq(Frames)
               /\ LastTells(inbox[conn], serverSub)
  BY ConnFacts DEF ViewInv, FutureIsBlank, LastAnswerIsServerState
<1>5. CASE source[r] = conn
  <2>1. CASE ~alive
    BY <1>1, <1>2, <1>3, <2>1 DEF LastAnswerIsServerState
  <2>2. CASE alive
    <3>1. /\ inbox[conn] \in Seq(Frames) /\ LastTells(inbox[conn], serverSub)
          /\ inbox[conn] # <<>> /\ Head(inbox[conn]) = f
          /\ inbox'[conn] = Tail(inbox[conn])
      BY <1>1, <1>3, <1>4, <1>5, <2>2
    <3> DEFINE s == inbox[conn]
    <3>2. /\ LastTells(Tail(s), serverSub)
          /\ AnswersIn(Tail(s)) = {} =>
                /\ f # "ERROR" => (serverSub <=> f = "SUBSCRIBED")
                /\ f = "ERROR" => AnswersIn(s) = {}
      <4> HIDE DEF s
      <4> QED
        BY <3>1, TailTells DEF s
    <3>3. inbox'[conn'] = Tail(s) /\ serverSub' = serverSub /\ inbox'[source[r]] = Tail(s)
      BY <1>1, <1>3, <1>5, <3>1
    <3>4. \A k \in Sockets : inbox[k] = <<>> => inbox'[k] = <<>>
      BY <1>1, <1>3
    <3>5. LastAnswerIsServerState' /\ Answers' = AnswersIn(Tail(s)) /\ Answers = AnswersIn(s)
      BY <3>2, <3>3 DEF LastAnswerIsServerState, Answers
    <3> HIDE DEF s
    <3> QED
      BY <1>1, <1>2, <1>5, <3>2, <3>4, <3>5
  <2> QED
    BY <2>1, <2>2
<1>6. CASE source[r] # conn
  BY <1>1, <1>2, <1>3, <1>4, <1>6 DEF LastAnswerIsServerState, Answers
<1> QED
  BY <1>5, <1>6

LEMMA ReadLoopView ==
    ASSUME TypeOK, ViewInv, NEW r \in Sockets, ReadLoop(r)
    PROVE  ViewInv'
<1> USE DEF flags, channel
<1>0. r \in Goroutines
  BY ConnFacts
<1>1. ASSUME NEW f \in Frames, Receive(r, f), NEW l \in {"processQueue", "checkDone"},
             pc' = [pc EXCEPT ![r] = l],
             subscribed' => f = "SUBSCRIBED" \/ (f = "ERROR" /\ subscribed)
      PROVE  ViewInv'
  <2>1. pc[r] = "idle"
    BY <1>1 DEF Receive, Locked, At
  <2>2. /\ Settled' <=> Settled
        /\ \A k \in Sockets : Closed(k)' <=> Closed(k)
    <3>1. UNCHANGED <<connects, conn, source>>
      BY <1>1, ReceiveView
    <3> QED
      BY <1>0, <1>1, <2>1, <3>1, MoveKeepsClosed
  <2>3. FutureIsBlank'
    <3>1. \A k \in Sockets : k > connects => inbox'[k] = inbox[k]
      BY <1>1, ReceiveView DEF ViewInv, FutureIsBlank
    <3>2. UNCHANGED <<connects, source, dialled>> /\ (alive' => conn' # 0)
      BY <1>1, ReceiveView DEF ViewInv, FutureIsBlank
    <3> QED
      BY <1>0, <1>1, <2>1, <3>1, <3>2, MoveKeepsFuture DEF ViewInv
  <2>4. ClosedIsQuiet'
    BY <1>1, <2>2, ReceiveView DEF ViewInv, ClosedIsQuiet
  <2>5. BeliefEnds'
    <3>1. pc'[r] = l
      BY <1>0, <1>1 DEF TypeOK, ThreadsOK
    <3> QED
      BY <1>1, <3>1 DEF BeliefEnds
  <2>6. Settled /\ alive => source[r] = conn
    <3>1. ~Closed(r) /\ r \in 1 .. connects
      BY <1>1, <2>1, ReceiveView, ConnFacts DEF Closed, At
    <3> QED
      BY <1>1, <3>1, ReceiveView DEF Settled
  <2>7. ViewAgreesWithServer'
    BY <1>1, <2>2, <2>6, ReceiveView DEF ViewInv, ViewAgreesWithServer
  <2> QED
    BY <1>1, <2>3, <2>4, <2>5, <2>7, ReceiveView DEF ViewInv
<1>2. CASE HandleSubscribed(r) \/ HandleUnsubscribed(r) \/ HandleError(r)
  <2>1. CASE HandleSubscribed(r)
    BY <1>1, <2>1 DEF HandleSubscribed, Frames
  <2>2. CASE HandleUnsubscribed(r)
    BY <1>1, <2>2 DEF HandleUnsubscribed, Frames
  <2>3. CASE HandleError(r)
    BY <1>1, <2>3 DEF HandleError, Frames
  <2> QED
    BY <1>2, <2>1, <2>2, <2>3
<1>3. CASE CheckDone(r)
  <2>1. /\ pc[r] = "checkDone" /\ UNCHANGED <<transport, source, dialled, subscribed>>
        /\ \/ pc' = [pc EXCEPT ![r] = "left"]
           \/ pc' = [pc EXCEPT ![r] = "idle"]
    BY <1>3 DEF CheckDone, Goto, At, others, loops
  <2>2. CASE pc' = [pc EXCEPT ![r] = "left"]
    <3>1. pc'[r] = "left" /\ \A q \in Goroutines : q # r => pc'[q] = pc[q]
      BY <1>0, <2>2 DEF TypeOK, ThreadsOK
    <3>2. r \in 1 .. connects
      BY <2>1, ConnFacts DEF ViewInv, FutureIsBlank, At
    <3>3. ~Settled'
      BY <2>1, <3>1, <3>2 DEF Settled, Closed, At, transport
    <3>4. FutureIsBlank'
      <4>1. alive' => conn' # 0
        BY <2>1 DEF transport, ViewInv, FutureIsBlank
      <4> QED
        BY <1>0, <2>1, <2>2, <4>1, MoveKeepsFuture DEF ViewInv, transport
    <3>5. \A k \in Sockets : Closed(k)' => Closed(k)
      BY <2>1, <3>1, ConnFacts DEF Closed, At
    <3> QED
      BY <2>1, <3>3, <3>4, <3>5
      DEF ViewInv, ViewAgreesWithServer, BeliefEnds, ClosedIsQuiet, LastAnswerIsServerState,
          transport
  <2> QED
    BY <1>0, <2>1, <2>2, QuietView
<1>4. CASE ProcessOperationQueue(r)
  <2>1. PICK l \in {"checkDone", "subscribe", "unsubscribe", "reset"} : pc' = [pc EXCEPT ![r] = l]
    <3>1. operationQueue # <<>> => Head(operationQueue) \in Operations
      BY HeadTailProperties DEF TypeOK
    <3> QED
      BY <1>4, <3>1 DEF ProcessOperationQueue, Return, Start, Operations
  <2>2. /\ pc[r] = "processQueue" /\ UNCHANGED transport
        /\ UNCHANGED <<source, dialled, subscribed>>
    BY <1>4 DEF ProcessOperationQueue, Locked, At, others, loops
  <2> QED
    BY <1>0, <2>1, <2>2, QuietView
<1>5. CASE OnClose(r)
  <2>1. /\ pc[r] = "idle" /\ pc' = [pc EXCEPT ![r] = "exited"] /\ ~subscribed'
        /\ inbox[source[r]] = <<>> /\ (source[r] # conn \/ ~alive)
        /\ UNCHANGED <<transport, source, dialled>>
    BY <1>5 DEF OnClose, LoopEnds, Locked, At, Goto
  <2>2. pc'[r] = "exited" /\ \A q \in Goroutines : q # r => pc'[q] = pc[q]
    BY <1>0, <2>1 DEF TypeOK, ThreadsOK
  <2>3. FutureIsBlank'
    <3>1. alive' => conn' # 0
      BY <2>1 DEF transport, ViewInv, FutureIsBlank
    <3> QED
      BY <1>0, <2>1, <3>1, MoveKeepsFuture DEF ViewInv, transport
  <2>4. ClosedIsQuiet'
    BY <2>1, <2>2, ConnFacts DEF ClosedIsQuiet, ViewInv, Closed, At, transport
  <2> QED
    BY <2>1, <2>3, <2>4
    DEF ViewInv, ViewAgreesWithServer, BeliefEnds, LastAnswerIsServerState, transport
<1> QED
  BY <1>2, <1>3, <1>4, <1>5 DEF ReadLoop

(* What ends a socket leaves a prefix of its inbox, and the others alone.    *)
LEMMA CloseSocketKeeps ==
    ASSUME TypeOK, CloseSocket
    PROVE  \A k \in Sockets : /\ inbox[k] = <<>> => inbox'[k] = <<>>
                              /\ k # conn => inbox'[k] = inbox[k]
<1>1. CASE conn = 0
  BY <1>1 DEF CloseSocket
<1>2. CASE conn # 0
  <2>1. PICK n \in 0 .. Len(inbox[conn]) : inbox' = [inbox EXCEPT ![conn] = SubSeq(@, 1, n)]
    BY <1>2 DEF CloseSocket
  <2>2. inbox[conn] = <<>> => SubSeq(inbox[conn], 1, n) = <<>>
    BY <1>2, <2>1, ConnFacts, EmptySeq, SubSeqProperties, LenProperties
  <2>3. inbox'[conn] = SubSeq(inbox[conn], 1, n)
    BY <1>2, <2>1, ConnFacts DEF TypeOK, TransportOK
  <2> QED
    BY <2>1, <2>2, <2>3 DEF TypeOK, TransportOK
<1> QED
  BY <1>1, <1>2

LEMMA ConnectView ==
    ASSUME TypeOK, ViewInv, NEW g \in Connectors, Connect(g) \/ StartReadLoop(g)
    PROVE  ViewInv'
<1> USE DEF channel, flags
<1>0. g \in Goroutines /\ g \notin Sockets
  BY ChannelAssumption DEF Goroutines
<1>1. CASE Connect(g)
  <2> DEFINE n == connects + 1
  <2>1. /\ pc[g] = "idle" /\ pc' = [pc EXCEPT ![g] = "startReadLoop"]
        /\ conn' = n /\ connects' = n /\ dialled' = [dialled EXCEPT ![g] = n]
        /\ alive' /\ CloseSocket /\ UNCHANGED <<source, subscribed>>
        /\ connects < MaxConnects
    BY <1>1 DEF Connect, Goto, At
  <2>2. n \in Sockets /\ n # 0 /\ n > connects
    BY <2>1, ConnFacts DEF Sockets
  <2>3. pc'[g] = "startReadLoop" /\ \A q \in Goroutines : q # g => pc'[q] = pc[q]
    BY <1>0, <2>1 DEF TypeOK, ThreadsOK
  <2>4. \A k \in Sockets : pc'[k] = pc[k] /\ (Closed(k)' <=> Closed(k))
    BY <1>0, <2>1, <2>3, ConnFacts DEF Closed, At
  <2>5. /\ inbox'[n] = <<>> /\ source[n] = 0 /\ pc[n] = "none" /\ ~Closed(n)
        /\ \A k \in Sockets : inbox[k] = <<>> => inbox'[k] = <<>>
    <3>1. pc[n] = "none" /\ inbox[n] = <<>> /\ source[n] = 0
      BY <2>2 DEF ViewInv, FutureIsBlank, At
    <3>2. CloseSocket
      BY <2>1
    <3>3. \A k \in Sockets : inbox[k] = <<>> => inbox'[k] = <<>>
      BY <3>2, CloseSocketKeeps
    <3> QED
      BY <2>2, <3>1, <3>3 DEF Closed, At
  <2>6. FutureIsBlank'
    <3>1. dialled'[g] = n /\ \A q \in Connectors : q # g => dialled'[q] = dialled[q]
      BY <2>1 DEF TypeOK, LoopsOK
    <3>2. \A q \in Connectors : dialled[q] \in Nat /\ dialled'[q] <= n
      <4>1. connects \in Nat /\ \A q \in Connectors : dialled[q] <= connects
        BY ConnFacts DEF ViewInv, FutureIsBlank, TypeOK, TransportOK
      <4>2. \A q \in Connectors : dialled[q] \in Nat
        BY DEF TypeOK, LoopsOK, MaybeSocket, Sockets
      <4> QED
        BY <3>1, <4>1, <4>2
    <3>3. \A q \in Connectors : At(q, "startReadLoop")' =>
             (dialled[q] # 0 /\ source[dialled[q]] = 0 /\ At(dialled[q], "none"))'
      <4> SUFFICES ASSUME NEW q \in Connectors, At(q, "startReadLoop")'
                   PROVE  dialled'[q] # 0 /\ source[dialled'[q]] = 0 /\ pc'[dialled'[q]] = "none"
        BY <2>1 DEF At
      <4>1. CASE q = g
        BY <2>2, <2>4, <2>5, <3>1, <4>1
      <4>2. CASE q # g
        <5>1. At(q, "startReadLoop")
          BY <2>3, <4>2 DEF At, Goroutines
        <5>2. dialled[q] \in Sockets
          BY <5>1 DEF ViewInv, FutureIsBlank, TypeOK, LoopsOK, MaybeSocket
        <5> QED
          BY <2>4, <3>1, <4>2, <5>1, <5>2 DEF ViewInv, FutureIsBlank, At
      <4> QED
        BY <4>1, <4>2
    <3>4. \A k \in Sockets : source[k] <= n /\ (k > n => k > connects)
      BY ConnFacts DEF ViewInv, FutureIsBlank
    <3>5. \A k \in Sockets : k > n => At(k, "none")' /\ source[k] = 0 /\ inbox'[k] = <<>>
      BY <2>4, <2>5, <3>4 DEF ViewInv, FutureIsBlank, At
    <3>6. \A q, h \in Connectors : q # h /\ dialled'[q] # 0 => dialled'[h] # dialled'[q]
      <4>1. \A q \in Connectors : dialled[q] # n
        BY <2>2, <3>2, ConnFacts DEF ViewInv, FutureIsBlank
      <4> QED
        BY <3>1, <4>1 DEF ViewInv, FutureIsBlank
    <3>7. \A k \in Sockets : source[k] = 0 => pc'[k] \in {"none", "left"}
      BY <2>4 DEF ViewInv, FutureIsBlank
    <3> QED
      BY <2>1, <2>2, <3>2, <3>3, <3>4, <3>5, <3>6, <3>7 DEF FutureIsBlank
  <2>7. ASSUME Settled' PROVE ~subscribed
    <3>1. \A k \in 1 .. connects : Closed(k)
      BY <2>1, <2>2, <2>4, <2>7, ConnFacts DEF Settled
    <3>2. Settled
      BY <3>1 DEF Settled, Closed, At
    <3>3. \A k \in Sockets : pc[k] \in {"none", "exited"}
      BY <3>1, ConnFacts DEF ViewInv, FutureIsBlank, Closed, At
    <3> QED
      BY <3>2, <3>3 DEF ViewInv, BeliefEnds
  <2>8. LastAnswerIsServerState'
    <3>1. AnswersIn(inbox'[n]) = {}
      BY <2>5 DEF AnswersIn
    <3> QED
      BY <2>1, <3>1 DEF LastAnswerIsServerState, LastTells
  <2>9. ClosedIsQuiet'
    BY <2>1, <2>2, <2>4, <2>5 DEF ViewInv, ClosedIsQuiet
  <2> QED
    BY <2>1, <2>6, <2>7, <2>8, <2>9 DEF ViewInv, ViewAgreesWithServer, BeliefEnds
<1>2. CASE StartReadLoop(g)
  <2> DEFINE k == dialled[g]
  <2>1. /\ pc[g] = "startReadLoop" /\ source' = [source EXCEPT ![k] = conn]
        /\ pc' = [pc EXCEPT ![g] = "afterReconnect",
                           ![k] = IF conn = 0 THEN "left" ELSE "checkDone"]
        /\ UNCHANGED transport /\ UNCHANGED <<dialled, subscribed>>
    BY <1>2 DEF StartReadLoop, At
  <2>2. /\ k # 0 /\ k \in Sockets /\ k <= connects /\ k \in 1 .. connects
        /\ source[k] = 0 /\ pc[k] = "none" /\ k # g
    <3>1. k # 0 /\ source[k] = 0 /\ pc[k] = "none" /\ k <= connects
      BY <2>1 DEF ViewInv, FutureIsBlank, At
    <3>2. k \in Sockets
      BY <3>1 DEF TypeOK, LoopsOK, MaybeSocket
    <3> QED
      BY <1>0, <3>1, <3>2, ConnFacts
  <2>3. /\ pc'[k] = IF conn = 0 THEN "left" ELSE "checkDone"
        /\ pc'[g] = "afterReconnect"
        /\ \A q \in Goroutines : q \notin {g, k} => pc'[q] = pc[q]
        /\ source'[k] = conn /\ \A q \in Sockets : q # k => source'[q] = source[q]
    <3>1. k \in Goroutines
      BY <2>2, ConnFacts
    <3> QED
      BY <1>0, <2>1, <2>2, <3>1 DEF TypeOK, ThreadsOK, LoopsOK
  <2>4. \A q \in Sockets : Closed(q)' <=> Closed(q)
    BY <1>0, <2>2, <2>3, ConnFacts DEF Closed, At
  <2>5. Settled' => Settled
    <3> SUFFICES ASSUME Settled', NEW q \in 1 .. connects
                 PROVE  IF q = conn THEN source[q] \in {0, q} /\ ~At(q, "left") ELSE Closed(q)
      BY DEF Settled
    <3>1. IF q = conn THEN source'[q] \in {0, q} /\ ~At(q, "left")' ELSE Closed(q)'
      BY <2>1 DEF Settled, transport
    <3>2. q \in Sockets
      BY ConnFacts
    <3> QED
      BY <1>0, <2>2, <2>3, <2>4, <3>1, <3>2, ConnFacts DEF At
  <2>6. FutureIsBlank'
    <3>1. \A q \in Sockets : source'[q] <= connects /\ (q > connects => pc'[q] = pc[q])
      BY <1>0, <2>2, <2>3, ConnFacts DEF ViewInv, FutureIsBlank
    <3>2. \A q \in Sockets : source'[q] = 0 => pc'[q] \in {"none", "left"}
      BY <1>0, <2>2, <2>3, ConnFacts DEF ViewInv, FutureIsBlank
    <3>3. ASSUME NEW q \in Connectors, At(q, "startReadLoop")'
          PROVE  dialled[q] # 0 /\ source'[dialled[q]] = 0 /\ At(dialled[q], "none")'
      <4>1. q # g /\ At(q, "startReadLoop")
        BY <2>2, <2>3, <3>3, ChannelAssumption DEF At, Goroutines
      <4>2. dialled[q] # k
        BY <2>2, <4>1 DEF ViewInv, FutureIsBlank
      <4>3. dialled[q] \in Sockets /\ dialled[q] # 0
        BY <4>1 DEF ViewInv, FutureIsBlank, TypeOK, LoopsOK, MaybeSocket
      <4>4. source[dialled[q]] = 0 /\ At(dialled[q], "none") /\ dialled[q] \in Goroutines
        BY <4>1, <4>3, ConnFacts DEF ViewInv, FutureIsBlank
      <4>5. dialled[q] # g
        BY <1>0, <4>3
      <4>6. pc'[dialled[q]] = pc[dialled[q]] /\ source'[dialled[q]] = source[dialled[q]]
        BY <2>3, <4>2, <4>3, <4>4, <4>5
      <4> QED
        BY <2>1, <4>3, <4>4, <4>6 DEF At
    <3>4. \A q \in Sockets : q > connects => At(q, "none")' /\ source'[q] = 0
      BY <2>2, <2>3, <3>1, ConnFacts DEF ViewInv, FutureIsBlank, At
    <3>5. /\ (alive => conn # 0)'
          /\ \A q \in Sockets : q > connects' => inbox'[q] = <<>>
          /\ \A q \in Connectors : dialled'[q] <= connects'
          /\ \A q, h \in Connectors : q # h /\ dialled'[q] # 0 => dialled'[h] # dialled'[q]
      BY <2>1 DEF ViewInv, FutureIsBlank, transport
    <3>6. connects' = connects /\ dialled' = dialled
      BY <2>1 DEF transport
    <3> QED
      BY <3>1, <3>2, <3>3, <3>4, <3>5, <3>6 DEF FutureIsBlank, At
  <2>7. BeliefEnds'
    BY <2>2, <2>3 DEF BeliefEnds
  <2> QED
    BY <2>1, <2>4, <2>5, <2>6, <2>7
    DEF ViewInv, ViewAgreesWithServer, LastAnswerIsServerState, ClosedIsQuiet, Answers, transport
<1> QED
  BY <1>1, <1>2

LEMMA OtherView ==
    ASSUME TypeOK, ViewInv, Environment \/ \E g \in Callers : Call(g)
    PROVE  ViewInv'
<1> USE DEF channel, threads, flags, loops
<1>1. ASSUME NEW g \in Callers, Call(g) PROVE ViewInv'
  <2>1. g \in Goroutines /\ pc[g] = "idle"
    BY <1>1 DEF Call, At, Goroutines
  <2>2. PICK l \in {"subscribe", "unsubscribe", "reset"} : pc' = [pc EXCEPT ![g] = l]
    BY <1>1, ChannelAssumption DEF Call, Start, Operations
  <2>3. UNCHANGED <<transport, source, dialled, subscribed>>
    BY <1>1 DEF Call
  <2> QED
    BY <2>1, <2>2, <2>3, QuietView
<1>2. CASE ConnectionLost \/ Disconnect
  <2>1. /\ ~alive' /\ CloseSocket /\ (conn' = conn \/ conn' = 0)
        /\ UNCHANGED <<connects, source, dialled, pc, subscribed>>
    BY <1>2 DEF ConnectionLost, Disconnect
  <2>2. \A k \in Sockets : /\ inbox[k] = <<>> => inbox'[k] = <<>>
                           /\ Closed(k)' <=> Closed(k)
    <3>1. CloseSocket
      BY <2>1
    <3> QED
      BY <2>1, <3>1, CloseSocketKeeps DEF Closed, At
  <2>3. Settled' => Settled
    BY <2>1, <2>2, ConnFacts DEF Settled, Closed, At
  <2>4. FutureIsBlank'
    BY <2>1, <2>2 DEF ViewInv, FutureIsBlank, At
  <2> QED
    BY <2>1, <2>2, <2>3, <2>4
    DEF ViewInv, ViewAgreesWithServer, LastAnswerIsServerState, ClosedIsQuiet, BeliefEnds
<1>3. CASE ContextEnds
  <2>1. UNCHANGED <<transport, source, dialled, pc, subscribed>>
    BY <1>3 DEF ContextEnds
  <2> QED
    BY <2>1
    DEF transport, ViewInv, ViewAgreesWithServer, LastAnswerIsServerState, ClosedIsQuiet,
        BeliefEnds, FutureIsBlank, Settled, Closed, Answers, At
<1> QED
  BY <1>1, <1>2, <1>3 DEF Environment

LEMMA ViewAlways == Spec => [](TypeOK /\ ViewInv)
<1>1. Init => ViewInv
  <2> SUFFICES ASSUME Init PROVE ViewInv
    OBVIOUS
  <2>1. \A k \in Sockets : k \in Goroutines /\ pc[k] = "none" /\ source[k] = 0 /\ inbox[k] = <<>>
    BY DEF Init, Goroutines
  <2>2. \A g \in Connectors : dialled[g] = 0 /\ pc[g] = "idle"
    BY ChannelAssumption DEF Init, Goroutines
  <2>3. FutureIsBlank
    BY <2>1, <2>2 DEF Init, FutureIsBlank, At
  <2> QED
    BY <2>1, <2>3
    DEF Init, ViewInv, ViewAgreesWithServer, LastAnswerIsServerState, ClosedIsQuiet, BeliefEnds,
        Closed, At
<1>2. TypeOK /\ ViewInv /\ [Next]_vars => ViewInv'
  <2> SUFFICES ASSUME TypeOK, ViewInv, [Next]_vars PROVE ViewInv'
    OBVIOUS
  <2>1. CASE UNCHANGED vars
    BY <2>1
    DEF vars, transport, loops, channel, flags, threads, ViewInv, ViewAgreesWithServer,
        LastAnswerIsServerState, ClosedIsQuiet, BeliefEnds, FutureIsBlank, Settled, Closed,
        Answers, At
  <2>2. ASSUME NEW g \in Connectors, Connecting(g) PROVE ViewInv'
    <3>1. g \in Goroutines
      BY DEF Goroutines
    <3> QED
      BY <2>2, <3>1, GoroutineView, ConnectView DEF Connecting
  <2> QED
    BY <2>1, <2>2, GoroutineView, ReadLoopView, ConnectView, OtherView DEF Next, Run
<1> QED
  BY <1>1, <1>2, TypeCorrect, PTL DEF Spec

(* While the connection works and no answer is on its way, a channel that    *)
(* thinks it is subscribed is: whatever Subscribe, Unsubscribe, Resubscribe  *)
(* and Reset calls, timeouts, refusals, losses and overlapping Connects are  *)
(* interleaved, once the loops of the connections before have ended.         *)
THEOREM ViewCorrect == Spec => []ViewAgreesWithServer
<1>1. ViewInv => ViewAgreesWithServer
  BY DEF ViewInv
<1> QED
  BY <1>1, ViewAlways, PTL

-----------------------------------------------------------------------------
(* Pending flags, and the converse of ViewAgreesWithServer.                  *)

(* Until the first connection is lost nothing is resubscribed.               *)
First == connects = 0 \/ (connects = 1 /\ alive)
FirstConnection ==
    First => /\ ~reconnectPending
             /\ \A g \in Goroutines : pc[g] \notin {"resubscribe", "resubscribeNetwork"}

(* When the loops of all connections have run onClose the channel is marked. *)
AllClosed == \A k \in 1 .. connects : Closed(k)
ClosedIsMarked == connects # 0 /\ AllClosed => reconnectPending

(* PendingIsAnswered, between two connections as well.                       *)
Awaited ==
    rejects = 0 =>
        /\ Settled /\ (alive \/ AllClosed) /\ pendingSubscribe /\ ~reconnectPending =>
              Underway("SUBSCRIBED") \/ \E g \in Goroutines : Subscribing(g)
        /\ First /\ pendingUnsubscribe =>
              Underway("UNSUBSCRIBED") \/ \E g \in Goroutines : Unsubscribing(g)

AnswerInv == FirstConnection /\ ClosedIsMarked /\ Awaited /\ NeverDeaf

(* A goroutine moves on its own.  It leaves no flag it set without a frame.  *)
LEMMA OwnMove ==
    ASSUME TypeOK, AnswerInv, UNCHANGED <<transport, source, rejects, reconnectPending>>,
           NEW g \in Goroutines, NEW l \in Labels \ {"exited", "left"},
           pc[g] \notin {"exited", "left"}, pc' = [pc EXCEPT ![g] = l],
           First => l \notin {"resubscribe", "resubscribeNetwork"},
           pendingSubscribe' => Subscribing(g)' \/ (pendingSubscribe /\ ~Subscribing(g)),
           pendingUnsubscribe' => Unsubscribing(g)' \/ (pendingUnsubscribe /\ ~Unsubscribing(g)),
           First /\ resets' = 0 => resets = 0 /\ (subscribed => subscribed')
    PROVE  AnswerInv'
<1> USE DEF transport
<1>1. /\ pc'[g] = l /\ \A q \in Goroutines : q # g => pc'[q] = pc[q]
      /\ Settled' <=> Settled
      /\ \A k \in Sockets : Closed(k)' <=> Closed(k)
      /\ First' <=> First
  BY MoveKeepsClosed DEF TypeOK, ThreadsOK, First
<1>2. AllClosed' <=> AllClosed
  BY <1>1, ConnFacts DEF AllClosed
<1>3. FirstConnection' /\ ClosedIsMarked'
  BY <1>1, <1>2 DEF AnswerInv, FirstConnection, ClosedIsMarked
<1>4. Awaited'
  <2>1. ASSUME NEW q \in Goroutines, q # g
        PROVE  (Subscribing(q)' <=> Subscribing(q)) /\ (Unsubscribing(q)' <=> Unsubscribing(q))
    BY <1>1, <2>1 DEF Subscribing, Unsubscribing
  <2>2. (\E q \in Goroutines : Subscribing(q)) /\ ~Subscribing(g)
          => \E q \in Goroutines : Subscribing(q)'
    BY <2>1
  <2>3. (\E q \in Goroutines : Unsubscribing(q)) /\ ~Unsubscribing(g)
          => \E q \in Goroutines : Unsubscribing(q)'
    BY <2>1
  <2>4. Underway("SUBSCRIBED")' = Underway("SUBSCRIBED")
        /\ Underway("UNSUBSCRIBED")' = Underway("UNSUBSCRIBED")
    BY DEF Underway
  <2> QED
    BY <1>1, <1>2, <2>2, <2>3, <2>4 DEF AnswerInv, Awaited
<1>5. NeverDeaf'
  BY DEF AnswerInv, NeverDeaf, Answers, First
<1> QED
  BY <1>3, <1>4, <1>5 DEF AnswerInv

(* Every step of a call but a Send is such a move.                           *)
LEMMA CallAnswers ==
    ASSUME TypeOK, AnswerInv, NEW g \in Goroutines,
           \/ Step(g) \/ ResubscribeAfterReconnect(g) \/ ResubscribeCopy(g)
           \/ ResubscribeNetwork(g),
           ~(SendSubscribe(g) \/ SendUnsubscribe(g))
    PROVE  AnswerInv'
<1> USE DEF flags, counters, others, loops, Locked, At, Goto, GotoSend, Return, Subscribing,
            Unsubscribing, Labels
<1>1. pc \in [Goroutines -> Labels] /\ resets \in Nat
  BY DEF TypeOK, ThreadsOK, CountersOK
<1>2. CASE SubscribeBranch(g) \/ AddEventHandler(g) \/ UnsubscribeEvent(g) \/ UnsubscribeWhole(g)
  <2>1. PICK l \in {"idle", "checkDone", "addEventHandler", "relock", "subscribeNetwork",
                    "unsubscribeNetwork"} :
          pc' = [pc EXCEPT ![g] = l]
    BY <1>2 DEF SubscribeBranch, AddEventHandler, UnsubscribeEvent, UnsubscribeWhole
  <2>2. /\ UNCHANGED <<transport, source, flags, counters>>
        /\ pc[g] \in {"subscribe", "addEventHandler", "unsubscribe"}
    BY <1>2 DEF SubscribeBranch, AddEventHandler, UnsubscribeEvent, UnsubscribeWhole
  <2> QED
    BY <2>1, <2>2, OwnMove
<1>3. CASE SubscribeNetwork(g)
  BY <1>1, <1>3, OwnMove DEF SubscribeNetwork
<1>4. CASE UnsubscribeNetwork(g)
  BY <1>1, <1>4, OwnMove DEF UnsubscribeNetwork
<1>5. ASSUME NEW l \in {"idle", "checkDone"}, pc' = [pc EXCEPT ![g] = l],
             pc[g] \in {"subscribeFailed", "unsubscribeFailed", "waitSubscribed",
                        "waitUnsubscribed", "reset"},
             UNCHANGED <<transport, source, rejects, reconnectPending>>,
             pendingSubscribe' => pendingSubscribe /\ pc[g] # "subscribeFailed",
             pendingUnsubscribe' => pendingUnsubscribe /\ pc[g] # "unsubscribeFailed",
             resets' = 0 => resets = 0 /\ subscribed' = subscribed
      PROVE  AnswerInv'
  <2>1. l \in Labels \ {"exited", "left"} /\ l \notin {"resubscribe", "resubscribeNetwork"}
    OBVIOUS
  <2>2. /\ pc[g] \notin {"exited", "left"}
        /\ pendingSubscribe' => Subscribing(g)' \/ (pendingSubscribe /\ ~Subscribing(g))
        /\ pendingUnsubscribe' => Unsubscribing(g)' \/ (pendingUnsubscribe /\ ~Unsubscribing(g))
        /\ First /\ resets' = 0 => resets = 0 /\ (subscribed => subscribed')
        /\ First => l \notin {"resubscribe", "resubscribeNetwork"}
    BY <1>5
  <2>3. pc' = [pc EXCEPT ![g] = l] /\ UNCHANGED <<transport, source, rejects, reconnectPending>>
    BY <1>5
  <2> HIDE DEF flags, counters, others, loops, Subscribing, Unsubscribing, Labels
  <2> QED
    BY <2>1, <2>2, <2>3, OwnMove
<1>6. CASE SubscribeFailed(g) \/ UnsubscribeFailed(g) \/ WaitAckDone(g) \/ WaitAckTimeout(g)
  BY <1>5, <1>6 DEF SubscribeFailed, UnsubscribeFailed, WaitAckDone, WaitAckTimeout, channel
<1>7. CASE Reset(g)
  <2>1. PICK l \in {"idle", "checkDone"} : pc' = [pc EXCEPT ![g] = l]
    BY <1>7 DEF Reset
  <2>2. /\ pc[g] = "reset" /\ resets' # 0 /\ ~pendingSubscribe' /\ ~pendingUnsubscribe'
        /\ UNCHANGED <<transport, source, rejects, reconnectPending>>
    BY <1>1, <1>7 DEF Reset
  <2> QED
    BY <1>5, <2>1, <2>2
<1>8. CASE ResubscribeAfterReconnect(g)
  <2>1. PICK l \in {"idle", "checkDone", "resubscribe"} :
          pc' = [pc EXCEPT ![g] = l] /\ (l = "resubscribe" => reconnectPending)
    BY <1>8 DEF ResubscribeAfterReconnect, NeedsResubscribe
  <2> QED
    BY <1>8, <2>1, OwnMove DEF ResubscribeAfterReconnect, channel, AnswerInv, FirstConnection
<1>9. CASE ResubscribeCopy(g)
  <2>1. PICK l \in {"idle", "checkDone", "resubscribeNetwork"} : pc' = [pc EXCEPT ![g] = l]
    BY <1>9 DEF ResubscribeCopy
  <2>2. ~First
    BY <1>9 DEF ResubscribeCopy, AnswerInv, FirstConnection
  <2> QED
    BY <1>9, <2>1, <2>2, OwnMove DEF ResubscribeCopy
<1>10. CASE ResubscribeNetwork(g)
  <2>1. ~First
    BY <1>10 DEF ResubscribeNetwork, AnswerInv, FirstConnection
  <2> QED
    BY <1>1, <1>10, <2>1, OwnMove DEF ResubscribeNetwork
<1> QED
  BY <1>2, <1>3, <1>4, <1>6, <1>7, <1>8, <1>9, <1>10 DEF Step

(* A Send that the server handles: its answer is on its way.                 *)
LEMMA AnswerFollows ==
    ASSUME TypeOK, NEW answer \in {"SUBSCRIBED", "UNSUBSCRIBED"}, Answered(answer)
    PROVE  /\ Underway("SUBSCRIBED") => Underway("SUBSCRIBED")'
           /\ Underway("UNSUBSCRIBED") => Underway("UNSUBSCRIBED")'
           /\ \/ Underway(answer)' /\ Answers' # {} /\ rejects' = rejects
              \/ Answers' = Answers /\ serverSub' = serverSub /\ rejects' = rejects + 1
<1> DEFINE s == inbox[conn]
           t == inbox'[conn]
<1>1. PICK f \in {answer, "ERROR"} :
        /\ inbox' = [inbox EXCEPT ![conn] = Append(@, f)]
        /\ f = answer => rejects' = rejects
        /\ f = "ERROR" => serverSub' = serverSub /\ rejects' = rejects + 1
  BY DEF Answered
<1>2. conn # 0 /\ conn' = conn /\ s \in Seq(Frames) /\ t = Append(s, f)
  BY <1>1, ConnFacts DEF Answered, TypeOK, TransportOK
<1>3. /\ Len(s) \in Nat /\ DOMAIN s = 1 .. Len(s)
      /\ DOMAIN t = 1 .. (Len(s) + 1)
      /\ \A i \in 1 .. Len(s) : t[i] = s[i]
      /\ t[Len(s) + 1] = f
  <2>1. f \in Frames
    BY DEF Frames
  <2>2. t \in Seq(Frames) /\ Len(t) = Len(s) + 1
    BY <1>2, <2>1, AppendProperties
  <2>3. DOMAIN t = 1 .. Len(t)
    BY <2>2, LenProperties
  <2> QED
    BY <1>2, <2>1, <2>2, <2>3, FrameFacts, AppendProperties
<1>4. /\ Underway("SUBSCRIBED") => Underway("SUBSCRIBED")'
      /\ Underway("UNSUBSCRIBED") => Underway("UNSUBSCRIBED")'
  BY <1>2, <1>3 DEF Underway
<1>5. CASE f = answer
  BY <1>1, <1>2, <1>3, <1>4, <1>5 DEF Underway, Answers, AnswersIn
<1>6. CASE f = "ERROR"
  <2>1. Answers' = Answers
    BY <1>2, <1>3, <1>6 DEF Answers, AnswersIn
  <2> QED
    BY <1>1, <1>4, <1>6, <2>1
<1> QED
  BY <1>5, <1>6

LEMMA SendAnswers ==
    ASSUME TypeOK, ViewInv, AnswerInv, NEW g \in Goroutines, SendSubscribe(g) \/ SendUnsubscribe(g)
    PROVE  AnswerInv'
<1> USE DEF loops
<1>1. PICK answer \in {"SUBSCRIBED", "UNSUBSCRIBED"}, l, w, f \in Labels \ {"exited", "left"} :
        /\ SendWire(g, l, answer, w, f)
        /\ w \in {"waitSubscribed", "waitUnsubscribed"}
        /\ answer = "SUBSCRIBED" => {l, f} \subseteq {"sendSubscribe", "subscribeFailed"}
        /\ answer = "UNSUBSCRIBED" => {l, f} \subseteq {"sendUnsubscribe", "unsubscribeFailed"}
  BY DEF SendSubscribe, SendUnsubscribe, Labels
<1>2. /\ pc[g] = l /\ UNCHANGED <<flags, conn, connects, alive, source, resets>>
      /\ pc \in [Goroutines -> Labels] /\ rejects \in Nat
  BY <1>1 DEF SendWire, At, channel, TypeOK, ThreadsOK, CountersOK, Answered, Vanished, SendError,
              transport
<1>3. CASE SendError(g) /\ Goto(g, f)
  BY <1>1, <1>2, <1>3, OwnMove DEF SendError, Goto, flags, Subscribing, Unsubscribing
<1>4. CASE (Answered(answer) \/ Vanished) /\ Goto(g, w)
  <2>1. pc' = [pc EXCEPT ![g] = w] /\ w \notin {"exited", "left"}
    BY <1>1, <1>4 DEF Goto
  <2>2. /\ pc'[g] = w /\ \A q \in Goroutines : q # g => pc'[q] = pc[q]
        /\ Settled' <=> Settled
        /\ \A k \in Sockets : Closed(k)' <=> Closed(k)
        /\ First' <=> First
    BY <1>2, <2>1, MoveKeepsClosed DEF First
  <2>3. AllClosed' <=> AllClosed
    BY <1>2, <2>2, ConnFacts DEF AllClosed
  <2>4. FirstConnection' /\ ClosedIsMarked'
    BY <1>1, <1>2, <2>2, <2>3 DEF AnswerInv, FirstConnection, ClosedIsMarked, flags
  <2>5. CASE Vanished
    <3>1. conn # 0 /\ ~alive /\ connects # 0
      BY <2>5, ConnFacts DEF Vanished
    <3>2. ~First
      BY <3>1 DEF First
    <3>3. Awaited' /\ NeverDeaf'
      BY <1>2, <2>2, <2>3, <2>4, <3>1, <3>2 DEF Awaited, NeverDeaf, ClosedIsMarked, flags
    <3> QED
      BY <2>4, <3>3 DEF AnswerInv
  <2>6. CASE Answered(answer)
    <3>1. alive
      BY <2>6 DEF Answered
    <3>2. ASSUME NEW q \in Goroutines
          PROVE  /\ answer = "UNSUBSCRIBED" => (Subscribing(q)' <=> Subscribing(q))
                 /\ answer = "SUBSCRIBED" => (Unsubscribing(q)' <=> Unsubscribing(q))
      BY <1>1, <1>2, <2>2 DEF Subscribing, Unsubscribing
    <3>3. Awaited'
      BY <1>2, <2>2, <2>3, <2>6, <3>1, <3>2, AnswerFollows DEF AnswerInv, Awaited, flags
    <3>4. NeverDeaf'
      BY <1>2, <2>6, AnswerFollows DEF AnswerInv, NeverDeaf, flags
    <3> QED
      BY <2>4, <3>3, <3>4 DEF AnswerInv
  <2> QED
    BY <1>4, <2>5, <2>6
<1> QED
  BY <1>1, <1>3, <1>4 DEF SendWire

(* What a read loop takes from an inbox.                                     *)
LEMMA OthersStayUnderway ==
    ASSUME TypeOK, ViewInv, NEW r \in Sockets, NEW f \in Frames, Receive(r, f)
    PROVE  \A a \in Frames : a # f /\ Underway(a) => Underway(a)'
<1> DEFINE k == source[r]
           s == inbox[k]
<1>0. k \in Sockets
  BY ReceiveView, ConnFacts
<1>1. /\ s # <<>> /\ inbox'[k] = Tail(s) /\ s[1] = f /\ s \in Seq(Frames)
      /\ \A q \in Sockets : q # k => inbox'[q] = inbox[q]
      /\ conn' = conn
  BY <1>0, ConnFacts, HeadTailProperties DEF Receive, TypeOK, TransportOK
<1>2. /\ Len(s) \in Nat /\ DOMAIN s = 1 .. Len(s)
      /\ DOMAIN inbox'[k] = 1 .. (Len(s) - 1)
      /\ \A i \in 1 .. (Len(s) - 1) : inbox'[k][i] = s[i + 1]
  <2>1. Tail(s) \in Seq(Frames) /\ Len(Tail(s)) = Len(s) - 1
    BY <1>1, HeadTailProperties
  <2>2. DOMAIN Tail(s) = 1 .. Len(Tail(s))
    BY <2>1, LenProperties
  <2> QED
    BY <1>1, <2>1, <2>2, FrameFacts, HeadTailProperties
<1>3. ASSUME NEW a \in Frames, a # f, NEW i \in DOMAIN s, s[i] = a
      PROVE  i - 1 \in DOMAIN inbox'[k] /\ inbox'[k][i - 1] = a
  <2>1. i # 1 /\ i - 1 \in 1 .. (Len(s) - 1)
    BY <1>1, <1>2, <1>3
  <2>2. (i - 1) + 1 = i
    BY <1>2
  <2> QED
    BY <1>2, <1>3, <2>1, <2>2
<1>4. CASE conn = k
  BY <1>1, <1>3, <1>4 DEF Underway
<1>5. CASE conn # k
  BY <1>1, <1>5, ConnFacts DEF Underway
<1> QED
  BY <1>4, <1>5

(* No goroutine begins or ends a call's frame, and no answer awaited is lost. *)
LEMMA StillAwaited ==
    ASSUME Awaited, rejects' = rejects,
           Settled' /\ (alive \/ AllClosed)' => Settled /\ (alive \/ AllClosed),
           First' => First,
           pendingSubscribe' /\ ~reconnectPending' => pendingSubscribe /\ ~reconnectPending,
           pendingUnsubscribe' => pendingUnsubscribe,
           pendingSubscribe' /\ Underway("SUBSCRIBED") => Underway("SUBSCRIBED")',
           pendingUnsubscribe' /\ Underway("UNSUBSCRIBED") => Underway("UNSUBSCRIBED")',
           \A q \in Goroutines : /\ Subscribing(q) => Subscribing(q)'
                                 /\ Unsubscribing(q) => Unsubscribing(q)'
    PROVE  Awaited'
<1>1. (\E q \in Goroutines : Subscribing(q)) => \E q \in Goroutines : Subscribing(q)'
  OBVIOUS
<1>2. (\E q \in Goroutines : Unsubscribing(q)) => \E q \in Goroutines : Unsubscribing(q)'
  OBVIOUS
<1> QED
  BY <1>1, <1>2 DEF Awaited

LEMMA ReadLoopAnswers ==
    ASSUME TypeOK, ViewInv, AnswerInv, NEW r \in Sockets, ReadLoop(r)
    PROVE  AnswerInv'
<1> USE DEF flags, loops, Locked, At
<1>0. pc \in [Goroutines -> Labels] /\ r \in Goroutines
  BY ConnFacts DEF TypeOK, ThreadsOK
<1>1. ASSUME NEW f \in Frames, Receive(r, f), UNCHANGED reconnectPending \/ ~reconnectPending',
             NEW l \in {"processQueue", "checkDone"}, pc' = [pc EXCEPT ![r] = l],
             UNCHANGED <<rejects, resets>>
      PROVE  /\ FirstConnection' /\ ClosedIsMarked' /\ (First' <=> First)
             /\ Settled' /\ (alive \/ AllClosed)' => Settled /\ (alive \/ AllClosed)
             /\ \A q \in Goroutines :
                    /\ Subscribing(q)' <=> Subscribing(q)
                    /\ Unsubscribing(q)' <=> Unsubscribing(q)
             /\ alive /\ connects = 1 => source[r] = conn
  <2>1. /\ pc[r] = "idle" /\ pc'[r] = l
        /\ \A q \in Goroutines : q # r => pc'[q] = pc[q]
        /\ UNCHANGED <<conn, connects, alive, source>>
    BY <1>0, <1>1 DEF Receive
  <2>2. Settled' <=> Settled
    BY <1>0, <1>1, <2>1, MoveKeepsClosed
  <2>3. r \in 1 .. connects /\ connects # 0 /\ ~Closed(r)'
    BY <1>1, <2>1, ReceiveView, ConnFacts DEF Closed
  <2>4. ~AllClosed'
    BY <2>1, <2>3 DEF AllClosed
  <2>5. First' <=> First
    BY <2>1 DEF First
  <2>6. FirstConnection' /\ ClosedIsMarked'
    BY <1>1, <2>1, <2>4, <2>5 DEF AnswerInv, FirstConnection, ClosedIsMarked
  <2>7. alive /\ connects = 1 => source[r] = conn
    <3>1. source[r] # 0 /\ source[r] <= connects /\ source[r] \in Nat
      BY <1>1, ReceiveView, ConnFacts
    <3>2. alive => conn # 0 /\ conn \in Nat /\ conn <= connects
      BY ConnFacts DEF ViewInv, FutureIsBlank
    <3> QED
      BY <3>1, <3>2
  <2> QED
    BY <2>1, <2>2, <2>4, <2>5, <2>6, <2>7 DEF Subscribing, Unsubscribing
<1>2. {"SUBSCRIBED", "UNSUBSCRIBED", "ERROR"} = Frames
  BY DEF Frames
<1>3. CASE HandleSubscribed(r)
  <2>1. /\ Receive(r, "SUBSCRIBED") /\ subscribed' /\ ~pendingSubscribe' /\ ~reconnectPending'
        /\ UNCHANGED <<pendingUnsubscribe, rejects, resets>>
        /\ pc' = [pc EXCEPT ![r] = "processQueue"]
    BY <1>3 DEF HandleSubscribed, Receive, counters
  <2>2. Awaited'
    <3>1. Underway("UNSUBSCRIBED") => Underway("UNSUBSCRIBED")'
      BY <1>2, <2>1, OthersStayUnderway
    <3> QED
      BY <1>1, <1>2, <2>1, <3>1, StillAwaited DEF AnswerInv
  <2> QED
    BY <1>1, <1>2, <2>1, <2>2 DEF AnswerInv, NeverDeaf
<1>4. CASE HandleUnsubscribed(r)
  <2>1. /\ Receive(r, "UNSUBSCRIBED") /\ ~pendingUnsubscribe'
        /\ UNCHANGED <<pendingSubscribe, reconnectPending, rejects, resets, serverSub>>
        /\ UNCHANGED <<conn, connects, alive, source>>
        /\ pc' = [pc EXCEPT ![r] = "processQueue"]
    BY <1>4 DEF HandleUnsubscribed, Receive, counters
  <2>2. Awaited'
    <3>1. Underway("SUBSCRIBED") => Underway("SUBSCRIBED")'
      BY <1>2, <2>1, OthersStayUnderway
    <3> QED
      BY <1>1, <1>2, <2>1, <3>1, StillAwaited DEF AnswerInv
  <2>3. NeverDeaf'
    BY <1>1, <1>2, <2>1, ReceiveView DEF NeverDeaf
  <2> QED
    BY <1>1, <1>2, <2>1, <2>2, <2>3 DEF AnswerInv
<1>5. CASE HandleError(r)
  <2>1. /\ Receive(r, "ERROR") /\ UNCHANGED <<flags, rejects, resets, serverSub>>
        /\ UNCHANGED <<conn, connects, alive, source>>
        /\ pc' = [pc EXCEPT ![r] = "checkDone"]
    BY <1>5 DEF HandleError, Receive, counters
  <2>2. Awaited'
    <3>1. /\ Underway("SUBSCRIBED") => Underway("SUBSCRIBED")'
          /\ Underway("UNSUBSCRIBED") => Underway("UNSUBSCRIBED")'
      BY <1>2, <2>1, OthersStayUnderway
    <3> QED
      BY <1>1, <1>2, <2>1, <3>1, StillAwaited DEF AnswerInv
  <2>3. NeverDeaf'
    BY <1>1, <1>2, <2>1, ReceiveView DEF AnswerInv, NeverDeaf
  <2> QED
    BY <1>1, <1>2, <2>1, <2>2, <2>3 DEF AnswerInv
<1>6. CASE ProcessOperationQueue(r)
  <2>1. PICK l \in {"checkDone", "subscribe", "unsubscribe", "reset"} : pc' = [pc EXCEPT ![r] = l]
    <3>1. operationQueue # <<>> => Head(operationQueue) \in Operations
      BY HeadTailProperties DEF TypeOK
    <3> QED
      BY <1>6, <3>1 DEF ProcessOperationQueue, Return, Start, Operations
  <2>2. pc[r] = "processQueue" /\ UNCHANGED <<transport, source, flags, counters>>
    BY <1>6 DEF ProcessOperationQueue, others
  <2>3. l \in Labels \ {"exited", "left"} /\ l \notin {"resubscribe", "resubscribeNetwork"}
    BY DEF Labels
  <2> QED
    BY <1>0, <2>1, <2>2, <2>3, OwnMove DEF counters, Subscribing, Unsubscribing
<1>7. CASE OnClose(r) \/ CheckDone(r)
  <2>1. PICK l \in {"exited", "left", "idle"} :
          /\ pc' = [pc EXCEPT ![r] = l] /\ pc[r] \in {"idle", "checkDone"}
          /\ UNCHANGED <<transport, source, rejects, resets, pendingUnsubscribe>>
          /\ l # "exited" => UNCHANGED flags
          /\ l = "exited" => reconnectPending' /\ (source[r] # conn \/ ~alive) /\ pc[r] = "idle"
    <3>1. CASE OnClose(r)
      BY <3>1 DEF OnClose, LoopEnds, Goto, counters
    <3>2. CASE CheckDone(r)
      BY <3>2 DEF CheckDone, Goto, others, counters, channel
    <3> QED
      BY <1>7, <3>1, <3>2
  <2>2. l = "idle" => AnswerInv'
    <3> SUFFICES ASSUME l = "idle" PROVE AnswerInv'
      OBVIOUS
    <3>1. l \in Labels \ {"exited", "left"} /\ l \notin {"resubscribe", "resubscribeNetwork"}
      BY DEF Labels
    <3>2. /\ UNCHANGED <<transport, source, rejects, reconnectPending>>
          /\ UNCHANGED <<subscribed, pendingSubscribe, pendingUnsubscribe, resets>>
          /\ pc' = [pc EXCEPT ![r] = l] /\ pc[r] \in {"idle", "checkDone"}
      BY <2>1
    <3> QED
      BY <1>0, <3>1, <3>2, OwnMove DEF Subscribing, Unsubscribing
  <2>3. /\ pc'[r] = l /\ \A q \in Goroutines : q # r => pc'[q] = pc[q]
        /\ \A q \in Goroutines : /\ Subscribing(q)' <=> Subscribing(q)
                                 /\ Unsubscribing(q)' <=> Unsubscribing(q)
    BY <1>0, <2>1 DEF Subscribing, Unsubscribing
  <2>4. r \in 1 .. connects /\ connects # 0
    BY <2>1, ConnFacts DEF ViewInv, FutureIsBlank
  <2>5. First' <=> First
    BY <2>1 DEF First, transport
  <2>6. l = "exited" => ~First
    BY <2>1, <2>4, ConnFacts DEF First, ViewInv, FutureIsBlank
  <2>7. l = "left" => ~Settled' /\ ~AllClosed'
    BY <2>1, <2>3, <2>4 DEF Settled, AllClosed, Closed, transport
  <2>8. CASE l = "left"
    <3>1. Awaited'
      BY <2>1, <2>3, <2>5, <2>7, <2>8, StillAwaited
      DEF AnswerInv, Underway, transport
    <3> QED
      BY <2>1, <2>3, <2>5, <2>7, <2>8, <3>1
      DEF AnswerInv, FirstConnection, ClosedIsMarked, NeverDeaf, Answers, transport
  <2>9. CASE l = "exited"
    BY <2>1, <2>5, <2>6, <2>9
    DEF AnswerInv, FirstConnection, ClosedIsMarked, Awaited, NeverDeaf, First, transport
  <2> QED
    BY <2>2, <2>8, <2>9
<1> QED
  BY <1>3, <1>4, <1>5, <1>6, <1>7 DEF ReadLoop

LEMMA ConnectAnswers ==
    ASSUME TypeOK, ViewInv, AnswerInv, NEW g \in Connectors, Connect(g) \/ StartReadLoop(g)
    PROVE  AnswerInv'
<1> USE DEF channel, flags
<1>0. g \in Goroutines /\ g \notin Sockets /\ pc \in [Goroutines -> Labels]
  BY ChannelAssumption DEF Goroutines, TypeOK, ThreadsOK
<1>1. CASE Connect(g)
  <2> DEFINE n == connects + 1
  <2>1. /\ pc[g] = "idle" /\ pc' = [pc EXCEPT ![g] = "startReadLoop"]
        /\ conn' = n /\ connects' = n /\ alive' /\ ~serverSub' /\ connects < MaxConnects
        /\ UNCHANGED <<source, flags, rejects, resets>>
    BY <1>1 DEF Connect, Goto, At
  <2>2. /\ n \in Sockets /\ n # 0 /\ n \in 1 .. n /\ n > connects
        /\ 1 .. connects \subseteq 1 .. n
    BY <2>1, ConnFacts DEF Sockets
  <2>3. /\ pc'[g] = "startReadLoop" /\ \A q \in Goroutines : q # g => pc'[q] = pc[q]
        /\ \A q \in Goroutines : /\ Subscribing(q)' <=> Subscribing(q)
                                 /\ Unsubscribing(q)' <=> Unsubscribing(q)
    BY <1>0, <2>1 DEF Subscribing, Unsubscribing
  <2>4. \A k \in Sockets : pc'[k] = pc[k] /\ (Closed(k)' <=> Closed(k))
    BY <1>0, <2>1, <2>3, ConnFacts DEF Closed, At
  <2>5. ~AllClosed'
    BY <2>1, <2>2, <2>4 DEF AllClosed, ViewInv, FutureIsBlank, Closed, At
  <2>6. First' => First
    BY <2>1, ConnFacts DEF First
  <2>7. Settled' => Settled /\ AllClosed
    <3>1. Settled' => \A k \in 1 .. connects : Closed(k)
      BY <2>1, <2>2, <2>4, ConnFacts DEF Settled
    <3> QED
      BY <3>1 DEF Settled, AllClosed, Closed, At
  <2>8. FirstConnection' /\ ClosedIsMarked' /\ NeverDeaf'
    BY <2>1, <2>3, <2>5, <2>6 DEF AnswerInv, FirstConnection, ClosedIsMarked, NeverDeaf
  <2>9. /\ AllClosed => ~Underway("SUBSCRIBED")
        /\ First' => ~Underway("UNSUBSCRIBED")
    <3>1. AllClosed /\ conn # 0 => inbox[conn] = <<>>
      BY ConnFacts DEF AllClosed, ViewInv, ClosedIsQuiet
    <3>2. First' => conn = 0
      BY <2>1, ConnFacts DEF First
    <3> QED
      BY <3>1, <3>2 DEF Underway
  <2>10. Awaited'
    <3>1. (\E q \in Goroutines : Subscribing(q)) => \E q \in Goroutines : Subscribing(q)'
      BY <2>3
    <3>2. (\E q \in Goroutines : Unsubscribing(q)) => \E q \in Goroutines : Unsubscribing(q)'
      BY <2>3
    <3> QED
      BY <2>1, <2>6, <2>7, <2>9, <3>1, <3>2 DEF AnswerInv, Awaited
  <2> QED
    BY <2>8, <2>10 DEF AnswerInv
<1>2. CASE StartReadLoop(g)
  <2> DEFINE k == dialled[g]
  <2>1. /\ pc[g] = "startReadLoop" /\ source' = [source EXCEPT ![k] = conn]
        /\ pc' = [pc EXCEPT ![g] = "afterReconnect",
                           ![k] = IF conn = 0 THEN "left" ELSE "checkDone"]
        /\ UNCHANGED <<transport, flags, rejects, resets>>
    BY <1>2 DEF StartReadLoop, At, counters
  <2>2. /\ k \in Sockets /\ k \in Goroutines /\ k \in 1 .. connects
        /\ source[k] = 0 /\ pc[k] = "none" /\ k # g
    <3>1. k # 0 /\ source[k] = 0 /\ pc[k] = "none" /\ k <= connects
      BY <2>1 DEF ViewInv, FutureIsBlank, At
    <3>2. k \in Sockets
      BY <3>1 DEF TypeOK, LoopsOK, MaybeSocket
    <3> QED
      BY <1>0, <3>1, <3>2, ConnFacts
  <2>3. /\ pc'[k] = IF conn = 0 THEN "left" ELSE "checkDone"
        /\ pc'[g] = "afterReconnect"
        /\ \A q \in Goroutines : q \notin {g, k} => pc'[q] = pc[q]
        /\ source'[k] = conn /\ \A q \in Sockets : q # k => source'[q] = source[q]
    BY <1>0, <2>1, <2>2 DEF TypeOK, LoopsOK
  <2>4. \A q \in Goroutines : /\ Subscribing(q)' <=> Subscribing(q)
                              /\ Unsubscribing(q)' <=> Unsubscribing(q)
    <3>1. \A q \in Goroutines : pc'[q] = pc[q] \/
             {pc'[q], pc[q]} \subseteq {"startReadLoop", "afterReconnect", "none", "left", "checkDone"}
      BY <2>1, <2>2, <2>3
    <3> QED
      BY <3>1 DEF Subscribing, Unsubscribing
  <2>5. \A q \in Sockets : Closed(q)' <=> Closed(q)
    BY <1>0, <2>2, <2>3, ConnFacts DEF Closed, At
  <2>6. (AllClosed' <=> AllClosed) /\ (First' <=> First)
    BY <2>1, <2>5, ConnFacts DEF AllClosed, First, transport
  <2>7. Settled' => Settled
    <3> SUFFICES ASSUME Settled', NEW q \in 1 .. connects
                 PROVE  IF q = conn THEN source[q] \in {0, q} /\ ~At(q, "left") ELSE Closed(q)
      BY DEF Settled
    <3>1. IF q = conn THEN source'[q] \in {0, q} /\ ~At(q, "left")' ELSE Closed(q)'
      BY <2>1 DEF Settled, transport
    <3>2. q \in Sockets
      BY ConnFacts
    <3> QED
      BY <1>0, <2>2, <2>3, <2>5, <3>1, <3>2, ConnFacts DEF At
  <2>8. Awaited'
    BY <2>1, <2>4, <2>6, <2>7, StillAwaited DEF AnswerInv, Underway, transport
  <2>9. FirstConnection'
    <3>1. \A q \in Goroutines : pc'[q] \in {"resubscribe", "resubscribeNetwork"} => pc'[q] = pc[q]
      BY <2>3
    <3> QED
      BY <2>1, <2>6, <3>1 DEF AnswerInv, FirstConnection
  <2> QED
    BY <2>1, <2>6, <2>8, <2>9 DEF AnswerInv, ClosedIsMarked, NeverDeaf, Answers, transport
<1> QED
  BY <1>1, <1>2

LEMMA OtherAnswers ==
    ASSUME TypeOK, ViewInv, AnswerInv, Environment \/ \E g \in Callers : Call(g)
    PROVE  AnswerInv'
<1> USE DEF channel, threads, flags, loops
<1>1. ASSUME NEW g \in Callers, Call(g) PROVE AnswerInv'
  <2>1. PICK l \in {"subscribe", "unsubscribe", "reset"} : pc' = [pc EXCEPT ![g] = l]
    BY <1>1, ChannelAssumption DEF Call, Start, Operations
  <2>2. /\ g \in Goroutines /\ pc[g] = "idle"
        /\ UNCHANGED <<transport, source, flags, rejects, resets>>
    BY <1>1 DEF Call, At, Goroutines
  <2>3. l \in Labels \ {"exited", "left"} /\ l \notin {"resubscribe", "resubscribeNetwork"}
    BY DEF Labels
  <2> QED
    BY <2>1, <2>2, <2>3, OwnMove DEF Subscribing, Unsubscribing
<1>2. CASE ConnectionLost \/ Disconnect
  <2>1. /\ ~alive' /\ conn # 0 /\ UNCHANGED <<connects, pc, source, flags, rejects, resets>>
    BY <1>2 DEF ConnectionLost, Disconnect, ViewInv, FutureIsBlank
  <2>2. connects # 0 /\ ~First'
    BY <2>1, ConnFacts DEF First
  <2>3. AllClosed' <=> AllClosed
    BY <2>1 DEF AllClosed, Closed, At
  <2>4. ClosedIsMarked' /\ (AllClosed => reconnectPending)
    BY <2>1, <2>2, <2>3 DEF AnswerInv, ClosedIsMarked
  <2> QED
    BY <2>1, <2>2, <2>3, <2>4 DEF AnswerInv, FirstConnection, Awaited, NeverDeaf
<1>3. CASE ContextEnds
  <2>1. UNCHANGED <<transport, source, pc, flags, rejects, resets>>
    BY <1>3 DEF ContextEnds
  <2> QED
    BY <2>1
    DEF transport, AnswerInv, FirstConnection, First, ClosedIsMarked, AllClosed, Awaited, NeverDeaf,
        Settled, Closed, Answers, Underway, Subscribing, Unsubscribing, At
<1> QED
  BY <1>1, <1>2, <1>3 DEF Environment

LEMMA AnswersAlways == Spec => []AnswerInv
<1>1. Init => AnswerInv
  <2> SUFFICES ASSUME Init PROVE AnswerInv
    OBVIOUS
  <2>1. \A g \in Goroutines : pc[g] \in {"idle", "none"}
    BY DEF Init
  <2> QED
    BY <2>1 DEF Init, AnswerInv, FirstConnection, ClosedIsMarked, Awaited, NeverDeaf
<1>2. TypeOK /\ ViewInv /\ AnswerInv /\ [Next]_vars => AnswerInv'
  <2> SUFFICES ASSUME TypeOK, ViewInv, AnswerInv, [Next]_vars PROVE AnswerInv'
    OBVIOUS
  <2>1. CASE UNCHANGED vars
    BY <2>1
    DEF vars, transport, loops, channel, flags, threads, counters, AnswerInv, FirstConnection,
        First, ClosedIsMarked, AllClosed, Awaited, NeverDeaf, Settled, Closed, Answers, Underway,
        Subscribing, Unsubscribing, At
  <2>2. ASSUME NEW g \in Connectors, Connecting(g) PROVE AnswerInv'
    <3>1. g \in Goroutines
      BY DEF Goroutines
    <3> QED
      BY <2>2, <3>1, CallAnswers, SendAnswers, ConnectAnswers DEF Connecting
  <2> QED
    BY <2>1, <2>2, CallAnswers, SendAnswers, ReadLoopAnswers, ConnectAnswers, OtherAnswers
    DEF Next, Run
<1> QED
  BY <1>1, <1>2, ViewAlways, PTL DEF Spec

(* As long as the server refuses nothing, a pending flag is never left       *)
(* without the answer that clears it: a SUBSCRIBE or UNSUBSCRIBE that was    *)
(* given up, that failed or that crossed another was sent or clears it, on   *)
(* every connection whose predecessors' loops have ended.                   *)
THEOREM PendingIsNotLeft == Spec => []PendingIsAnswered
<1>1. AnswerInv /\ FutureIsBlank => PendingIsAnswered
  BY DEF AnswerInv, Awaited, First, PendingIsAnswered
<1>2. ViewInv => FutureIsBlank
  BY DEF ViewInv
<1> QED
  BY <1>1, <1>2, AnswersAlways, ViewAlways, PTL

(* On its first connection, and until somebody calls Reset, a channel that   *)
(* the server delivers to takes its messages.                                *)
THEOREM ChannelHears == Spec => []NeverDeaf
<1>1. AnswerInv => NeverDeaf
  BY DEF AnswerInv
<1> QED
  BY <1>1, AnswersAlways, PTL
=============================================================================
