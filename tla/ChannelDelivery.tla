---------------------------- MODULE ChannelDelivery ----------------------------
(***************************************************************************)
(* How one SocketChannel (channel/socket.go) hands messages to handlers:   *)
(* HandleIncoming of MESSAGE frames on the read loop, deliverMessage,      *)
(* invokeHandler, and Pause, Resume, ClearBufferedMessages and Reset       *)
(* called by application goroutines at the same time.  One step is one     *)
(* critical section of c.mu, or the taking or releasing of handlerSerial.  *)
(*                                                                         *)
(* A message is its place in the order of arrival.  The channel starts     *)
(* subscribed, with the handlers it has; how handlers come and go is       *)
(* SocketChannel.  A handler may call the channel, too, on the goroutine   *)
(* that runs it.                                                           *)
(***************************************************************************)
EXTENDS Naturals, Sequences, Functions

CONSTANTS
    Callers, Reader,    \* application goroutines, the read loop
    Ops,                \* what the callers call
    Handlers, NoHandler,
    EventHandlers,      \* the callbacks of the event, in order
    CatchAll,           \* the whole-channel handler, or NoHandler
    WithEvent,          \* the messages published with the event
    None,
    MaxFrame,           \* bound on the messages of a frame
    MaxMessages,        \* bound on the messages that arrive
    MaxCalls            \* bound on the calls

Goroutines == Callers \cup {Reader}
Messages == 1 .. MaxMessages

ASSUME DeliveryAssumption ==
    /\ Reader \notin Callers /\ None \notin Goroutines
    /\ NoHandler \notin Handlers
    /\ Ops \subseteq {"pause", "pauseAndDrop", "resume", "clear", "reset"}
    /\ EventHandlers \in Seq(Handlers \cup {NoHandler})
    /\ \A i, j \in DOMAIN EventHandlers : EventHandlers[i] = EventHandlers[j] => i = j
    /\ CatchAll \in Handlers \cup {NoHandler}
    /\ {MaxFrame, MaxMessages, MaxCalls} \subseteq Nat

VARIABLES
    subscribed, paused, bufferWhilePaused, pausedMessages,
    catchAllHandler,
    eventCallbacks,     \* the list of the event
    handlerSerial,      \* the goroutine that holds it, or None
    pc,
    todo,               \* of every goroutine: messages its loop still delivers
    hands,              \* handlers the message it delivers is still for
    inner,              \* messages of a Resume that its running handler called
    received, calls,
    given, excused,     \* history: messages handed to handlers, messages dropped
    buffered            \* history: messages that were in the buffer

fields == <<subscribed, paused, bufferWhilePaused, pausedMessages>>
handlers == <<catchAllHandler, eventCallbacks>>
loops == <<pc, todo, hands, inner>>
history == <<given, excused, buffered>>
vars == <<fields, handlers, handlerSerial, loops, received, calls, history>>

(* A message waits in the buffer or in the loop of a goroutine.              *)
Waiting == Range(pausedMessages) \cup UNION {Range(todo[g]) \cup Range(inner[g]) : g \in Goroutines}

Init ==
    /\ subscribed = TRUE /\ paused = FALSE /\ bufferWhilePaused = TRUE
    /\ pausedMessages = <<>>
    /\ catchAllHandler = CatchAll /\ eventCallbacks = EventHandlers
    /\ handlerSerial = None
    /\ pc = [g \in Goroutines |-> "idle"]
    /\ todo = [g \in Goroutines |-> <<>>] /\ hands = [g \in Goroutines |-> <<>>]
    /\ inner = [g \in Goroutines |-> <<>>]
    /\ received = 0 /\ calls = 0 /\ given = {} /\ excused = {} /\ buffered = {}

Goto(g, label) == pc' = [pc EXCEPT ![g] = label]
Loop(g, messages) == Goto(g, "deliver") /\ todo' = [todo EXCEPT ![g] = messages]

-----------------------------------------------------------------------------
(* The read loop *)

(* A MESSAGE frame: whether the channel is subscribed is looked at once.     *)
Arrive(k) ==
    /\ pc[Reader] = "idle"
    /\ received + k <= MaxMessages /\ received' = received + k
    /\ UNCHANGED <<fields, handlers, handlerSerial, hands, inner, calls, history>>
ReceiveNewestFirst ==
    \E k \in 1 .. MaxFrame : Arrive(k) /\ Loop(Reader, [i \in 1 .. k |-> received + k + 1 - i])
Receive ==
    \E k \in 1 .. MaxFrame :
        /\ Arrive(k)
        /\ IF subscribed
           THEN Loop(Reader, [i \in 1 .. k |-> received + i])
           ELSE UNCHANGED <<pc, todo>>

HandleUnsubscribed ==
    /\ pc[Reader] = "idle" /\ subscribed
    /\ subscribed' = FALSE
    /\ catchAllHandler' = NoHandler /\ eventCallbacks' = <<>>
    /\ excused' = excused \cup Waiting
    /\ UNCHANGED <<paused, bufferWhilePaused, pausedMessages, handlerSerial, loops,
                   received, calls, given, buffered>>

-----------------------------------------------------------------------------
(* deliverMessage, for the next message of the goroutine's loop             *)

HandlersOf(m) ==
    IF m \in WithEvent /\ eventCallbacks # <<>> THEN eventCallbacks ELSE <<catchAllHandler>>

Delivering(g) == pc[g] = "deliver" /\ todo[g] # <<>>

(* What deliverMessage does with m in a channel that is paused.              *)
SetAside(m) ==
    /\ paused
    /\ IF bufferWhilePaused
       THEN /\ pausedMessages' = Append(pausedMessages, m)
            /\ buffered' = buffered \cup {m} /\ UNCHANGED excused
       ELSE excused' = excused \cup {m} /\ UNCHANGED <<pausedMessages, buffered>>

Deliver(g) ==
    /\ Delivering(g)
    /\ \/ /\ SetAside(Head(todo[g]))
          /\ Loop(g, Tail(todo[g])) /\ UNCHANGED hands
       \/ /\ ~paused
          /\ hands' = [hands EXCEPT ![g] = HandlersOf(Head(todo[g]))]
          /\ Goto(g, "invoke") /\ UNCHANGED <<pausedMessages, todo, excused, buffered>>
    /\ UNCHANGED <<subscribed, paused, bufferWhilePaused, handlers, handlerSerial, inner,
                   received, calls, given>>

InvokeAnyHandler(g) ==
    /\ pc[g] = "invoke" /\ hands[g] # <<>>
    /\ handlerSerial = None /\ handlerSerial' = g
    /\ given' = given \cup {<<Head(todo[g]), Head(hands[g])>>}
    /\ Goto(g, "handler")
    /\ UNCHANGED <<fields, handlers, todo, hands, inner, received, calls, excused, buffered>>
InvokeHandler(g) ==
    /\ pc[g] = "invoke" /\ hands[g] # <<>> /\ Head(hands[g]) # NoHandler
    /\ handlerSerial = None /\ handlerSerial' = g
    /\ given' = given \cup {<<Head(todo[g]), Head(hands[g])>>}
    /\ Goto(g, "handler")
    /\ UNCHANGED <<fields, handlers, todo, hands, inner, received, calls, excused, buffered>>

(* A nil handler is left out, before handlerSerial is taken.                 *)
SkipNil(g) ==
    /\ pc[g] = "invoke" /\ hands[g] # <<>> /\ Head(hands[g]) = NoHandler
    /\ hands' = [hands EXCEPT ![g] = Tail(@)]
    /\ UNCHANGED <<fields, handlers, handlerSerial, pc, todo, inner, received, calls, history>>

HandlerKeepsLock(g) ==
    /\ pc[g] = "handler" /\ inner[g] = <<>>
    /\ hands' = [hands EXCEPT ![g] = Tail(@)]
    /\ Goto(g, "invoke")
    /\ UNCHANGED <<fields, handlers, handlerSerial, todo, inner, received, calls, history>>
HandlerReturns(g) ==
    /\ pc[g] = "handler" /\ inner[g] = <<>>
    /\ handlerSerial' = None
    /\ hands' = [hands EXCEPT ![g] = Tail(@)]
    /\ Goto(g, "invoke")
    /\ UNCHANGED <<fields, handlers, todo, inner, received, calls, history>>

(* A Resume within a handler delivers as well, and a handler that should get *)
(* a message now waits for handlerSerial, which its own goroutine holds.     *)
Nobody(m) == Range(HandlersOf(m)) \subseteq {NoHandler}
DeliverWithin(g) ==
    /\ pc[g] = "handler" /\ inner[g] # <<>>
    /\ \/ /\ SetAside(Head(inner[g]))
          /\ inner' = [inner EXCEPT ![g] = Tail(@)] /\ UNCHANGED pc
       \/ /\ ~paused /\ Nobody(Head(inner[g]))
          /\ inner' = [inner EXCEPT ![g] = Tail(@)]
          /\ UNCHANGED <<pc, pausedMessages, excused, buffered>>
       \/ /\ ~paused /\ ~Nobody(Head(inner[g]))
          /\ Goto(g, "blocked")
          /\ UNCHANGED <<inner, pausedMessages, excused, buffered>>
    /\ UNCHANGED <<subscribed, paused, bufferWhilePaused, handlers, handlerSerial, todo, hands,
                   received, calls, given>>

Delivered(g) ==
    /\ pc[g] = "invoke" /\ hands[g] = <<>>
    /\ Loop(g, Tail(todo[g]))
    /\ UNCHANGED <<fields, handlers, handlerSerial, hands, inner, received, calls, history>>

LoopEnds(g) ==
    /\ pc[g] = "deliver" /\ todo[g] = <<>>
    /\ Goto(g, "idle")
    /\ UNCHANGED <<fields, handlers, handlerSerial, todo, hands, inner, received, calls, history>>

-----------------------------------------------------------------------------
(* The application *)

(* Called by a goroutine of the application, or by a handler.                *)
Call(g, o) ==
    /\ o \in Ops
    /\ \/ g \in Callers /\ pc[g] = "idle"
       \/ pc[g] = "handler" /\ inner[g] = <<>>
    /\ calls < MaxCalls /\ calls' = calls + 1
    /\ UNCHANGED <<handlerSerial, hands, received, given, buffered>>

Pause(g) ==
    /\ \/ Call(g, "pause") /\ bufferWhilePaused' = TRUE
       \/ Call(g, "pauseAndDrop") /\ bufferWhilePaused' = FALSE
    /\ paused' = TRUE
    /\ UNCHANGED <<subscribed, pausedMessages, handlers, pc, todo, inner, excused>>

Takes(g, messages) ==
    IF pc[g] = "idle" THEN Loop(g, messages) /\ UNCHANGED inner
                      ELSE inner' = [inner EXCEPT ![g] = messages] /\ UNCHANGED <<pc, todo>>
ResumeDropsLast(g) ==
    /\ Call(g, "resume")
    /\ paused' = FALSE /\ pausedMessages' = <<>>
    /\ Takes(g, SubSeq(pausedMessages, 1, Len(pausedMessages) - 1))
    /\ UNCHANGED <<subscribed, bufferWhilePaused, handlers, excused>>
Resume(g) ==
    /\ Call(g, "resume")
    /\ paused' = FALSE /\ pausedMessages' = <<>>
    /\ Takes(g, pausedMessages)
    /\ UNCHANGED <<subscribed, bufferWhilePaused, handlers, excused>>

ClearBufferedMessages(g) ==
    /\ Call(g, "clear")
    /\ excused' = excused \cup Range(pausedMessages)
    /\ pausedMessages' = <<>>
    /\ UNCHANGED <<subscribed, paused, bufferWhilePaused, handlers, pc, todo, inner>>

ResetKeepsBuffer(g) ==
    /\ Call(g, "reset")
    /\ excused' = excused \cup Waiting
    /\ catchAllHandler' = NoHandler /\ eventCallbacks' = <<>>
    /\ subscribed' = FALSE /\ paused' = FALSE
    /\ UNCHANGED <<bufferWhilePaused, pausedMessages, pc, todo, inner>>
Reset(g) ==
    /\ Call(g, "reset")
    /\ excused' = excused \cup Waiting
    /\ catchAllHandler' = NoHandler /\ eventCallbacks' = <<>>
    /\ subscribed' = FALSE /\ paused' = FALSE /\ pausedMessages' = <<>>
    /\ UNCHANGED <<bufferWhilePaused, pc, todo, inner>>

-----------------------------------------------------------------------------
Step(g) ==
    \/ Deliver(g) \/ InvokeHandler(g) \/ SkipNil(g) \/ HandlerReturns(g) \/ DeliverWithin(g)
    \/ Delivered(g) \/ LoopEnds(g)
Operation(g) == Pause(g) \/ Resume(g) \/ ClearBufferedMessages(g) \/ Reset(g)

Next ==
    \/ Receive \/ HandleUnsubscribed
    \/ \E g \in Goroutines : Step(g) \/ Operation(g)

Spec == Init /\ [][Next]_vars

(* Goroutines run, handlers return, and sync.Mutex starves nobody.           *)
FairSpec == Spec /\ \A g \in Goroutines : WF_vars(Step(g))

-----------------------------------------------------------------------------
(* Properties *)

MaybeHandler == Handlers \cup {NoHandler}
FieldsOK ==
    /\ subscribed \in BOOLEAN /\ paused \in BOOLEAN /\ bufferWhilePaused \in BOOLEAN
    /\ pausedMessages \in Seq(Messages)
HandlersOK == catchAllHandler \in MaybeHandler /\ eventCallbacks \in Seq(MaybeHandler)
LoopsOK ==
    /\ pc \in [Goroutines -> {"idle", "deliver", "invoke", "handler", "blocked"}]
    /\ todo \in [Goroutines -> Seq(Messages)]
    /\ hands \in [Goroutines -> Seq(MaybeHandler)] /\ inner \in [Goroutines -> Seq(Messages)]
    /\ \A g \in Goroutines : pc[g] \in {"invoke", "handler", "blocked"} => todo[g] # <<>>
    /\ \A g \in Goroutines : pc[g] \in {"handler", "blocked"} => hands[g] # <<>>
CountersOK ==
    received \in 0 .. MaxMessages /\ calls \in Nat /\ given \subseteq Messages \X Handlers
TypeOK ==
    /\ FieldsOK /\ HandlersOK /\ LoopsOK /\ CountersOK
    /\ handlerSerial \in Goroutines \cup {None}

(* The handlers a message is for, as long as nobody changes them.            *)
Due(m) ==
    Range(IF m \in WithEvent /\ EventHandlers # <<>> THEN EventHandlers ELSE <<CatchAll>>)
        \ {NoHandler}

Box == INSTANCE MessageBox WITH
    waiting <- Waiting, busy <- \E g \in Goroutines : pc[g] \in {"handler", "blocked"}

(* However the read loop, Pause, Resume, Clear and Reset interleave, every   *)
(* handler gets a message once, one handler runs at a time, and nothing is   *)
(* lost unless the application asked for it: it paused without a buffer,     *)
(* cleared the buffer, or took the handlers away.                            *)
KeepsPromise == Box!Spec

(* No message is stranded in the buffer of a channel that runs: only the     *)
(* next Resume would deliver it.                                             *)
BufferOnlyWhilePaused == pausedMessages # <<>> => paused

(* Every message that arrived is settled, unless the channel stays paused or *)
(* a handler called Resume while messages were buffered: that handler waits  *)
(* for itself, and the channel with it.  Handlers that pause, clear or reset *)
(* the channel, or resume it with an empty buffer, do no harm.               *)
Blocked == \E g \in Goroutines : pc[g] = "blocked"
MessagesSettle ==
    \A m \in Messages : m \in Waiting ~> m \notin Waiting \/ paused \/ Blocked

(* Resume lets the channel run before it delivers what was buffered, so      *)
(* newer messages may overtake those.  Nothing else comes out of order.      *)
OvertakesBuffered ==
    [][\A m, n \in Messages, h \in Handlers :
        /\ m < n /\ <<n, h>> \in given
        /\ <<m, h>> \in given' \ given
        => m \in buffered]_vars
=============================================================================
