------------------------ MODULE ChannelDeliveryProofs ------------------------
(***************************************************************************)
(* What is proved of ChannelDelivery for every number of callers, messages *)
(* and handlers: nothing is stranded in the buffer of a channel that runs, *)
(* the types, that the channel keeps the promise of MessageBox, and that   *)
(* it overtakes only what it had buffered.                                 *)
(***************************************************************************)
EXTENDS ChannelDelivery, TLAPS

(* A goroutine's step buffers a message only while the channel is paused.    *)
LEMMA StepKeepsBuffer ==
    ASSUME NEW g, BufferOnlyWhilePaused, Step(g)
    PROVE  BufferOnlyWhilePaused'
<1>1. CASE Deliver(g)
    BY <1>1 DEF BufferOnlyWhilePaused, Deliver, SetAside
<1>2. CASE InvokeHandler(g)
    BY <1>2 DEF BufferOnlyWhilePaused, InvokeHandler, fields
<1>3. CASE HandlerReturns(g)
    BY <1>3 DEF BufferOnlyWhilePaused, HandlerReturns, fields
<1>4. CASE Delivered(g)
    BY <1>4 DEF BufferOnlyWhilePaused, Delivered, fields
<1>5. CASE LoopEnds(g)
    BY <1>5 DEF BufferOnlyWhilePaused, LoopEnds, fields
<1>6. CASE DeliverWithin(g)
    BY <1>6 DEF BufferOnlyWhilePaused, DeliverWithin, SetAside
<1>7. CASE SkipNil(g)
    BY <1>7 DEF BufferOnlyWhilePaused, SkipNil, fields
<1> QED
    BY <1>1, <1>2, <1>3, <1>4, <1>5, <1>6, <1>7 DEF Step

(* An operation that lets the channel run empties its buffer.                *)
LEMMA OperationKeepsBuffer ==
    ASSUME NEW g, BufferOnlyWhilePaused, Operation(g)
    PROVE  BufferOnlyWhilePaused'
<1>1. CASE Pause(g)
    BY <1>1 DEF BufferOnlyWhilePaused, Pause
<1>2. CASE Resume(g)
    BY <1>2 DEF BufferOnlyWhilePaused, Resume
<1>3. CASE ClearBufferedMessages(g)
    BY <1>3 DEF BufferOnlyWhilePaused, ClearBufferedMessages
<1>4. CASE Reset(g)
    BY <1>4 DEF BufferOnlyWhilePaused, Reset
<1> QED
    BY <1>1, <1>2, <1>3, <1>4 DEF Operation

(* However the read loop and any number of goroutines that pause, resume,    *)
(* clear and reset interleave, no message is stranded in the buffer of a     *)
(* channel that runs.                                                        *)
THEOREM NothingStranded == Spec => []BufferOnlyWhilePaused
<1>1. Init => BufferOnlyWhilePaused
    BY DEF Init, BufferOnlyWhilePaused
<1>2. ASSUME BufferOnlyWhilePaused, [Next]_vars
      PROVE  BufferOnlyWhilePaused'
    <2>1. CASE Receive
        BY <1>2, <2>1 DEF BufferOnlyWhilePaused, Receive, Arrive, fields
    <2>2. CASE HandleUnsubscribed
        BY <1>2, <2>2 DEF BufferOnlyWhilePaused, HandleUnsubscribed
    <2>3. ASSUME NEW g \in Goroutines, Step(g)
          PROVE  BufferOnlyWhilePaused'
        BY <1>2, <2>3, StepKeepsBuffer
    <2>4. ASSUME NEW g \in Goroutines, Operation(g)
          PROVE  BufferOnlyWhilePaused'
        BY <1>2, <2>4, OperationKeepsBuffer
    <2>5. CASE UNCHANGED vars
        BY <1>2, <2>5 DEF BufferOnlyWhilePaused, vars, fields
    <2> QED
        BY <1>2, <2>1, <2>2, <2>3, <2>4, <2>5 DEF Next
<1> QED
    BY <1>1, <1>2, PTL DEF Spec

-----------------------------------------------------------------------------
(* Sequences without repetition *)

(* The empty sequence.                                                       *)
LEMMA EmptyRange == Range(<<>>) = {} /\ IsInjective(<<>>)
BY DEF Range, IsInjective

(* What is left of a sequence without its head.                              *)
LEMMA TailRange ==
    ASSUME NEW S, NEW s \in Seq(S), s # <<>>
    PROVE  /\ Tail(s) \in Seq(S) /\ Head(s) \in S
           /\ Range(s) = {Head(s)} \cup Range(Tail(s))
           /\ IsInjective(s) => IsInjective(Tail(s)) /\ Head(s) \notin Range(Tail(s))
<1>1. /\ Len(s) \in Nat \ {0} /\ DOMAIN s = 1 .. Len(s)
      /\ DOMAIN Tail(s) = 1 .. Len(s) - 1
      /\ \A i \in 1 .. Len(s) - 1 : Tail(s)[i] = s[i + 1]
      /\ Head(s) = s[1]
  OBVIOUS
<1>2. Tail(s) \in Seq(S) /\ Head(s) \in S
  OBVIOUS
<1>3. ASSUME NEW i \in 1 .. Len(s), i # 1
      PROVE  i - 1 \in 1 .. Len(s) - 1 /\ s[i] = Tail(s)[i - 1]
  <2>1. i - 1 \in 1 .. Len(s) - 1 /\ (i - 1) + 1 = i
    BY <1>1, <1>3
  <2>2. QED
    BY <1>1, <2>1
<1>4. Range(s) = {Head(s)} \cup Range(Tail(s))
  <2>1. Range(s) \subseteq {Head(s)} \cup Range(Tail(s))
    <3>1. ASSUME NEW i \in DOMAIN s PROVE s[i] \in {Head(s)} \cup Range(Tail(s))
      BY <1>1, <1>3 DEF Range
    <3>2. QED
      BY <3>1 DEF Range
  <2>2. {Head(s)} \cup Range(Tail(s)) \subseteq Range(s)
    <3>1. \A i \in 1 .. Len(s) - 1 : i + 1 \in DOMAIN s
      BY <1>1
    <3>2. 1 \in DOMAIN s
      BY <1>1
    <3>3. QED
      BY <1>1, <3>1, <3>2 DEF Range
  <2>3. QED
    BY <2>1, <2>2
<1>5. ASSUME IsInjective(s) PROVE IsInjective(Tail(s)) /\ Head(s) \notin Range(Tail(s))
  BY <1>1, <1>5 DEF IsInjective, Range
<1>6. QED
  BY <1>2, <1>4, <1>5

(* What a message adds to the buffer.                                        *)
LEMMA AppendRange ==
    ASSUME NEW S, NEW s \in Seq(S), NEW m \in S
    PROVE  /\ Append(s, m) \in Seq(S)
           /\ Range(Append(s, m)) = Range(s) \cup {m}
           /\ IsInjective(s) /\ m \notin Range(s) => IsInjective(Append(s, m))
<1>1. /\ Len(s) \in Nat /\ DOMAIN s = 1 .. Len(s)
      /\ DOMAIN Append(s, m) = 1 .. Len(s) + 1
      /\ \A i \in 1 .. Len(s) : Append(s, m)[i] = s[i]
      /\ Append(s, m)[Len(s) + 1] = m
  OBVIOUS
<1>2. DOMAIN Append(s, m) = DOMAIN s \cup {Len(s) + 1}
  BY <1>1
<1>3. Range(Append(s, m)) = Range(s) \cup {m}
  BY <1>1, <1>2 DEF Range
<1>4. ASSUME IsInjective(s), m \notin Range(s) PROVE IsInjective(Append(s, m))
  BY <1>1, <1>2, <1>4 DEF IsInjective, Range
<1>5. QED
  BY <1>3, <1>4

(* The messages of a frame are new, and different from each other.           *)
LEMMA FrameRange ==
    ASSUME NEW r \in Nat, NEW k \in Nat
    PROVE  LET s == [i \in 1 .. k |-> r + i]
           IN  IsInjective(s) /\ Range(s) = r + 1 .. r + k
<1> DEFINE s == [i \in 1 .. k |-> r + i]
<1>1. IsInjective(s)
  BY DEF IsInjective
<1>2. Range(s) \subseteq r + 1 .. r + k
  BY DEF Range
<1>3. ASSUME NEW m \in r + 1 .. r + k PROVE m \in Range(s)
  <2>1. m - r \in 1 .. k /\ s[m - r] = m
    OBVIOUS
  <2>2. QED
    BY <2>1 DEF Range
<1>4. QED
  BY <1>1, <1>2, <1>3

-----------------------------------------------------------------------------
(* Types *)

(* What HandlersOf returns.                                                  *)
LEMMA HandlersType ==
    ASSUME HandlersOK, NEW m PROVE HandlersOf(m) \in Seq(MaybeHandler)
<1>1. <<catchAllHandler>> \in Seq(MaybeHandler)
  BY DEF HandlersOK
<1>2. QED
  BY <1>1 DEF HandlersOK, HandlersOf

(* The buffer stays a sequence of messages.                                  *)
LEMMA SetAsideType ==
    ASSUME FieldsOK, NEW m \in Messages, SetAside(m)
    PROVE  pausedMessages' \in Seq(Messages)
BY DEF FieldsOK, SetAside

(* The types, through a step of a goroutine that delivers.                   *)
LEMMA StepTypes ==
    ASSUME TypeOK, NEW g \in Goroutines, Step(g) PROVE TypeOK'
<1> USE DEF TypeOK, FieldsOK, HandlersOK, LoopsOK, CountersOK, Goto, Loop
<1>1. CASE Deliver(g)
  <2>1. Head(todo[g]) \in Messages /\ Tail(todo[g]) \in Seq(Messages)
    BY <1>1, TailRange DEF Deliver, Delivering
  <2>2. HandlersOf(Head(todo[g])) \in Seq(MaybeHandler)
    BY HandlersType
  <2>3. CASE SetAside(Head(todo[g])) /\ Loop(g, Tail(todo[g])) /\ UNCHANGED hands
    <3>1. pausedMessages' \in Seq(Messages)
      BY <2>1, <2>3, SetAsideType
    <3>2. QED
      BY <1>1, <2>1, <2>3, <3>1 DEF Deliver, handlers
  <2>4. CASE /\ ~paused
             /\ hands' = [hands EXCEPT ![g] = HandlersOf(Head(todo[g]))]
             /\ Goto(g, "invoke") /\ UNCHANGED <<pausedMessages, todo, excused, buffered>>
    BY <1>1, <2>1, <2>2, <2>4 DEF Deliver, Delivering, handlers
  <2>5. QED
    BY <1>1, <2>3, <2>4 DEF Deliver
<1>2. CASE InvokeHandler(g)
  <2>1. Head(todo[g]) \in Messages /\ Head(hands[g]) \in Handlers
    BY <1>2, TailRange DEF InvokeHandler, MaybeHandler
  <2>2. QED
    BY <1>2, <2>1 DEF InvokeHandler, fields, handlers
<1>3. CASE SkipNil(g)
  <2>1. Tail(hands[g]) \in Seq(MaybeHandler)
    BY <1>3, TailRange DEF SkipNil
  <2>2. QED
    BY <1>3, <2>1 DEF SkipNil, fields, handlers, history
<1>4. CASE HandlerReturns(g)
  <2>1. Tail(hands[g]) \in Seq(MaybeHandler)
    BY <1>4, TailRange DEF HandlerReturns
  <2>2. QED
    BY <1>4, <2>1 DEF HandlerReturns, fields, handlers, history
<1>5. CASE DeliverWithin(g)
  <2>1. Head(inner[g]) \in Messages /\ Tail(inner[g]) \in Seq(Messages)
    BY <1>5, TailRange DEF DeliverWithin
  <2>2. pausedMessages' \in Seq(Messages)
    BY <1>5, <2>1, SetAsideType DEF DeliverWithin
  <2>3. QED
    BY <1>5, <2>1, <2>2 DEF DeliverWithin, handlers
<1>6. CASE Delivered(g)
  <2>1. Tail(todo[g]) \in Seq(Messages)
    BY <1>6, TailRange DEF Delivered
  <2>2. QED
    BY <1>6, <2>1 DEF Delivered, fields, handlers, history
<1>7. CASE LoopEnds(g)
  BY <1>7 DEF LoopEnds, fields, handlers, history
<1>8. QED
  BY <1>1, <1>2, <1>3, <1>4, <1>5, <1>6, <1>7 DEF Step

(* The types, through what the application calls.                            *)
LEMMA OperationTypes ==
    ASSUME TypeOK, NEW g \in Goroutines, Operation(g) PROVE TypeOK'
<1> USE DEF TypeOK, FieldsOK, HandlersOK, LoopsOK, CountersOK, Goto, Loop, Call
<1>1. CASE Pause(g)
  <2>1. paused' \in BOOLEAN /\ bufferWhilePaused' \in BOOLEAN
    BY <1>1 DEF Pause
  <2>2. QED
    BY <1>1, <2>1 DEF Pause, handlers
<1>2. CASE Resume(g)
  <2>1. paused' \in BOOLEAN
    BY <1>2 DEF Resume
  <2>2. pausedMessages' \in Seq(Messages)
    BY <1>2 DEF Resume
  <2>3. CASE pc[g] = "idle"
    <3>1. /\ pc' = [pc EXCEPT ![g] = "deliver"]
          /\ todo' = [todo EXCEPT ![g] = pausedMessages]
          /\ UNCHANGED <<hands, inner>>
      BY <1>2, <2>3 DEF Resume, Takes
    <3>2. LoopsOK'
      BY <3>1
    <3>3. QED
      BY <1>2, <2>1, <2>2, <3>2 DEF Resume, handlers
  <2>4. CASE pc[g] # "idle"
    <3>1. UNCHANGED <<pc, todo, hands>> /\ inner' = [inner EXCEPT ![g] = pausedMessages]
      BY <1>2, <2>4 DEF Resume, Takes
    <3>2. LoopsOK'
      BY <3>1
    <3>3. QED
      BY <1>2, <2>1, <2>2, <3>2 DEF Resume, handlers
  <2>5. QED
    BY <2>3, <2>4
<1>3. CASE ClearBufferedMessages(g)
  BY <1>3 DEF ClearBufferedMessages, handlers
<1>4. CASE Reset(g)
  <2>1. subscribed' \in BOOLEAN /\ paused' \in BOOLEAN
    BY <1>4 DEF Reset
  <2>2. pausedMessages' \in Seq(Messages) /\ HandlersOK'
    BY <1>4 DEF Reset, MaybeHandler
  <2>3. QED
    BY <1>4, <2>1, <2>2 DEF Reset
<1>5. QED
  BY <1>1, <1>2, <1>3, <1>4 DEF Operation

(* The types, at first.                                                      *)
LEMMA InitTypes == ASSUME Init PROVE TypeOK
<1> USE DEF TypeOK, FieldsOK, HandlersOK, LoopsOK, CountersOK
<1>1. FieldsOK
  <2>1. subscribed \in BOOLEAN /\ paused \in BOOLEAN /\ bufferWhilePaused \in BOOLEAN
    BY DEF Init
  <2>2. QED
    BY <2>1 DEF Init
<1>2. HandlersOK /\ LoopsOK
  BY DeliveryAssumption DEF Init, MaybeHandler
<1>3. CountersOK /\ handlerSerial \in Goroutines \cup {None}
  BY DeliveryAssumption DEF Init
<1>4. QED
  BY <1>1, <1>2, <1>3

(* The types, through every step.                                            *)
LEMMA NextTypes == ASSUME TypeOK, [Next]_vars PROVE TypeOK'
<1> USE DEF TypeOK, FieldsOK, HandlersOK, LoopsOK, CountersOK
<1>1. CASE Receive
  <2> PICK k \in 1 .. MaxFrame :
          /\ Arrive(k)
          /\ IF subscribed THEN Loop(Reader, [i \in 1 .. k |-> received + i])
                           ELSE UNCHANGED <<pc, todo>>
    BY <1>1 DEF Receive
  <2>1. received' \in 0 .. MaxMessages
    BY DeliveryAssumption DEF Arrive
  <2>2. [i \in 1 .. k |-> received + i] \in Seq(Messages)
    BY DeliveryAssumption DEF Arrive, Messages
  <2>3. QED
    BY <2>1, <2>2 DEF Arrive, Loop, Goto, fields, handlers, history, Goroutines
<1>2. CASE HandleUnsubscribed
  <2>1. subscribed' \in BOOLEAN
    BY <1>2 DEF HandleUnsubscribed
  <2>2. HandlersOK'
    BY <1>2 DEF HandleUnsubscribed, MaybeHandler
  <2>3. QED
    BY <1>2, <2>1, <2>2 DEF HandleUnsubscribed, loops
<1>3. CASE UNCHANGED vars
  BY <1>3 DEF vars, fields, handlers, loops, history
<1>4. QED
  BY <1>1, <1>2, <1>3, StepTypes, OperationTypes DEF Next

(* The state of the delivery keeps its types: a goroutine that runs handlers *)
(* has a message to deliver, and one in a handler the handler it is in.      *)
THEOREM DeliveryTypes == Spec => []TypeOK
BY InitTypes, NextTypes, PTL DEF Spec
-----------------------------------------------------------------------------
(* What the refinement rests on *)

Working(g) == pc[g] \in {"invoke", "handler", "blocked"}

(* Of the loop of g: the messages that it has not begun to deliver.          *)
Untouched(g) == Range(IF Working(g) THEN Tail(todo[g]) ELSE todo[g])

(* The handlers that the message g delivers still goes to.                   *)
Left(g) == Range(IF pc[g] = "invoke" THEN hands[g] ELSE Tail(hands[g]))

(* A message waits in one place, once.                                       *)
EachOnce ==
    /\ IsInjective(pausedMessages)
    /\ \A g \in Goroutines :
        /\ IsInjective(todo[g]) /\ IsInjective(inner[g])
        /\ (Range(todo[g]) \cup Range(inner[g])) \cap Range(pausedMessages) = {}
    /\ \A g, q \in Goroutines :
        /\ Range(todo[g]) \cap Range(inner[q]) = {}
        /\ g # q => /\ Range(todo[g]) \cap Range(todo[q]) = {}
                    /\ Range(inner[g]) \cap Range(inner[q]) = {}

(* What waits, or was handed to anybody, has arrived.                        *)
Known ==
    /\ \A m \in Waiting : m <= received
    /\ \A m \in Messages, h \in Handlers : <<m, h>> \in given => m <= received

Resting ==
    \A g \in Goroutines :
        /\ pc[g] = "idle" => todo[g] = <<>>
        /\ pc[g] \notin {"handler", "blocked"} => inner[g] = <<>>

(* Nobody was handed a message that no goroutine has begun to deliver.       *)
Fresh ==
    \A h \in Handlers :
        /\ \A m \in Range(pausedMessages) : <<m, h>> \notin given
        /\ \A g \in Goroutines : \A m \in Untouched(g) \cup Range(inner[g]) : <<m, h>> \notin given

(* A handler runs on the goroutine that holds handlerSerial.                 *)
Serial == \A g \in Goroutines : pc[g] \in {"handler", "blocked"} <=> handlerSerial = g

(* The message being delivered: each handler it is for had it, or will.      *)
Halfway(g) ==
    /\ IsInjective(hands[g])
    /\ \A h \in Handlers \cap Left(g) : <<Head(todo[g]), h>> \notin given
    /\ \/ Head(todo[g]) \in excused
       \/ \A h \in Due(Head(todo[g])) : <<Head(todo[g]), h>> \in given \/ h \in Left(g)
AllHalfway == \A g \in Goroutines : Working(g) => Halfway(g)

(* Once the handlers are gone, nothing more waits for them.                  *)
HandlersStand ==
    \/ eventCallbacks = EventHandlers /\ catchAllHandler = CatchAll
    \/ /\ eventCallbacks = <<>> /\ catchAllHandler = NoHandler
       /\ ~subscribed /\ Waiting \subseteq excused

Inv ==
    /\ TypeOK /\ EachOnce /\ Known /\ Resting /\ Fresh
    /\ Serial /\ AllHalfway /\ HandlersStand

(* What a loop still has is the message in hand and those it has not begun.  *)
LEMMA Places ==
    ASSUME TypeOK, EachOnce, NEW g \in Goroutines
    PROVE  /\ Untouched(g) \subseteq Range(todo[g])
           /\ Working(g) => /\ Range(todo[g]) = {Head(todo[g])} \cup Untouched(g)
                            /\ Head(todo[g]) \notin Untouched(g)
                            /\ Head(todo[g]) \in Messages
<1>1. CASE Working(g)
  <2>1. todo[g] \in Seq(Messages) /\ todo[g] # <<>>
    BY <1>1 DEF TypeOK, LoopsOK, Working
  <2>2. QED
    BY <1>1, <2>1, TailRange DEF Untouched, EachOnce
<1>2. CASE ~Working(g)
  BY <1>2 DEF Untouched
<1>3. QED
  BY <1>1, <1>2

(* A message goes to every handler it is for, to each once.                  *)
LEMMA HandlersAreDue ==
    ASSUME HandlersStand, NEW m
    PROVE  /\ IsInjective(HandlersOf(m))
           /\ m \in Waiting => m \in excused \/ Due(m) \subseteq Range(HandlersOf(m))
<1>1. \A x : IsInjective(<<x>>)
  BY DEF IsInjective
<1>2. IsInjective(EventHandlers)
  BY DeliveryAssumption DEF IsInjective
<1>3. CASE eventCallbacks = EventHandlers /\ catchAllHandler = CatchAll
  BY <1>1, <1>2, <1>3 DEF HandlersOf, Due
<1>4. CASE eventCallbacks = <<>> /\ Waiting \subseteq excused
  BY <1>1, <1>4 DEF HandlersOf
<1>5. QED
  BY <1>3, <1>4 DEF HandlersStand

(* A step that hands nothing over and lets go only of what is settled keeps  *)
(* the promise.                                                              *)
LEMMA Settles ==
    ASSUME NEW X \in SUBSET Waiting, excused' = excused \cup X,
           Waiting' \subseteq Waiting, UNCHANGED given,
           \A m \in Waiting \ Waiting' : m \in excused' \/ \A h \in Due(m) : <<m, h>> \in given,
           \A g \in Goroutines :
               pc[g] \in {"handler", "blocked"} <=> pc'[g] \in {"handler", "blocked"}
    PROVE  Box!Next
<1> DEFINE S == Waiting \ Waiting'
<1>1. S \in SUBSET Waiting /\ Waiting' = Waiting \ S
  OBVIOUS
<1>2. (\E g \in Goroutines : pc[g] \in {"handler", "blocked"})'
          = (\E g \in Goroutines : pc[g] \in {"handler", "blocked"})
  OBVIOUS
<1>3. Box!Settle
  BY <1>1, <1>2 DEF Box!Settle
<1>4. QED
  BY <1>3 DEF Box!Next

(* For the promise, nothing happens.                                         *)
LEMMA NothingToSee ==
    ASSUME UNCHANGED <<Waiting, given, excused>>,
           \A g \in Goroutines :
               pc[g] \in {"handler", "blocked"} <=> pc'[g] \in {"handler", "blocked"}
    PROVE  Box!Next
<1>1. {} \in SUBSET Waiting /\ excused' = excused \cup {}
  OBVIOUS
<1>2. QED
  BY <1>1, Settles

(* Handing a message to a handler is a step of the promise.                  *)
LEMMA Hands ==
    ASSUME NEW m \in Waiting, m \in Messages, NEW h \in Handlers, <<m, h>> \notin given,
           given' = given \cup {<<m, h>>}, UNCHANGED <<Waiting, excused>>,
           ~ \E g \in Goroutines : pc[g] \in {"handler", "blocked"},
           \E g \in Goroutines : pc'[g] \in {"handler", "blocked"}
    PROVE  Box!Next
<1>1. Box!Hand(m, h)
  BY DEF Box!Hand
<1>2. QED
  BY <1>1 DEF Box!Next

(* What waits is a message.                                                  *)
LEMMA WaitingAreMessages ==
    ASSUME TypeOK
    PROVE  Waiting \subseteq Messages
<1>1. \A s \in Seq(Messages) : Range(s) \subseteq Messages
  BY DEF Range
<1>2. QED
  BY <1>1 DEF Waiting, TypeOK, FieldsOK, LoopsOK

(* Where a message may wait, before and after a step.                        *)
LEMMA WaitingIs ==
    /\ \A m : m \in Waiting <=>
          \/ m \in Range(pausedMessages)
          \/ \E g \in Goroutines : m \in Range(todo[g]) \/ m \in Range(inner[g])
    /\ \A m : m \in Waiting' <=>
          \/ m \in Range(pausedMessages')
          \/ \E g \in Goroutines : m \in Range(todo'[g]) \/ m \in Range(inner'[g])
BY DEF Waiting

(* InvokeHandler: nobody else has the message, so it is handed over once.    *)
LEMMA HandsOver ==
    ASSUME Inv, NEW g \in Goroutines, InvokeHandler(g)
    PROVE  Inv' /\ Box!Next
<1> DEFINE m == Head(todo[g])
           h == Head(hands[g])
<1> USE DEF Inv
<1>1. /\ pc[g] = "invoke" /\ handlerSerial = None /\ handlerSerial' = g
      /\ pc' = [pc EXCEPT ![g] = "handler"]
      /\ given' = given \cup {<<m, h>>}
      /\ UNCHANGED <<subscribed, paused, bufferWhilePaused, pausedMessages>>
      /\ UNCHANGED <<catchAllHandler, eventCallbacks, todo, hands, inner, received, excused>>
  BY DEF InvokeHandler, Goto, fields, handlers
<1>2. hands[g] \in Seq(MaybeHandler) /\ hands[g] # <<>> /\ h # NoHandler
  BY DEF InvokeHandler, TypeOK, LoopsOK
<1>3. h \in Handlers /\ IsInjective(hands[g])
      /\ Range(hands[g]) = {h} \cup Range(Tail(hands[g]))
      /\ h \notin Range(Tail(hands[g])) /\ IsInjective(Tail(hands[g]))
  BY <1>1, <1>2, TailRange DEF AllHalfway, Halfway, Working, MaybeHandler
<1>4. /\ m \in Range(todo[g]) /\ m \notin Untouched(g) /\ m \in Messages
      /\ \A q \in Goroutines : Untouched(q) \subseteq Range(todo[q])
  BY <1>1, Places DEF Working
<1>5. m \in Waiting /\ Waiting' = Waiting
  BY <1>1, <1>4, WaitingIs
<1>6. TypeOK'
  BY StepTypes DEF Step
<1>7. EachOnce'
  BY <1>1 DEF EachOnce
<1>8. Known'
  BY <1>1, <1>5 DEF Known
<1>9. Resting'
  BY <1>1 DEF Resting, TypeOK, LoopsOK
<1>10. \A q \in Goroutines : Working(q)' <=> Working(q)
  BY <1>1 DEF Working, TypeOK, LoopsOK
<1>11. \A q \in Goroutines : Untouched(q)' = Untouched(q)
  BY <1>1, <1>10 DEF Untouched
<1>12. Fresh'
  BY <1>1, <1>4, <1>11 DEF Fresh, EachOnce
<1>13. Serial'
  BY <1>1, DeliveryAssumption DEF Serial, TypeOK, LoopsOK
<1>14. AllHalfway'
  <2> SUFFICES ASSUME NEW q \in Goroutines, Working(q) PROVE Halfway(q)'
    BY <1>10 DEF AllHalfway
  <2>1. Halfway(q) /\ Head(todo[q]) \in Range(todo[q])
    BY Places DEF AllHalfway
  <2>2. CASE q = g
    <3>1. Left(g)' = Range(Tail(hands[g])) /\ Left(g) = Range(hands[g])
      BY <1>1 DEF Left, TypeOK, LoopsOK
    <3>2. QED
      BY <1>1, <1>3, <2>1, <2>2, <3>1 DEF Halfway, Due
  <2>3. CASE q # g
    <3>1. Left(q)' = Left(q) /\ Head(todo[q]) # m
      BY <1>1, <1>4, <2>1, <2>3 DEF Left, EachOnce, TypeOK, LoopsOK
    <3>2. QED
      BY <1>1, <2>1, <3>1 DEF Halfway, Due
  <2>4. QED
    BY <2>2, <2>3
<1>15. HandlersStand'
  BY <1>1, <1>5 DEF HandlersStand
<1>16. Box!Next
  <2>1. <<m, h>> \notin given
    BY <1>1, <1>3 DEF AllHalfway, Halfway, Left, Working
  <2>2. ~ (\E q \in Goroutines : pc[q] \in {"handler", "blocked"})
    BY <1>1, DeliveryAssumption DEF Serial
  <2>3. (\E q \in Goroutines : pc[q] \in {"handler", "blocked"})'
    BY <1>1 DEF TypeOK, LoopsOK
  <2>4. QED
    BY <1>1, <1>3, <1>4, <1>5, <2>1, <2>2, <2>3, Hands
<1>17. QED
  BY <1>6, <1>7, <1>8, <1>9, <1>12, <1>13, <1>14, <1>15, <1>16

(* Of a step that hands nothing over and puts no message anywhere.           *)
LEMMA NothingMoves ==
    ASSUME Inv, UNCHANGED <<received, given>>,
           IsInjective(pausedMessages'), Range(pausedMessages') \subseteq Range(pausedMessages),
           \A q \in Goroutines :
               /\ IsInjective(todo'[q]) /\ Range(todo'[q]) \subseteq Range(todo[q])
               /\ IsInjective(inner'[q]) /\ Range(inner'[q]) \subseteq Range(inner[q])
               /\ Untouched(q)' \subseteq Untouched(q)
    PROVE  EachOnce' /\ Known' /\ Fresh' /\ Waiting' \subseteq Waiting
<1>1. Waiting' \subseteq Waiting
  BY WaitingIs
<1>2. EachOnce'
  BY DEF Inv, EachOnce
<1>3. Known'
  BY <1>1 DEF Inv, Known
<1>4. Fresh'
  BY DEF Inv, Fresh
<1>5. QED
  BY <1>1, <1>2, <1>3, <1>4

(* What a goroutine is about stays right through the steps of others.        *)
LEMMA OthersHalfway ==
    ASSUME Inv, NEW q \in Goroutines, Working(q), excused \subseteq excused',
           UNCHANGED <<given, pc[q], todo[q], hands[q]>>
    PROVE  Halfway(q)'
<1>1. Halfway(q) /\ Left(q)' = Left(q)
  BY DEF Inv, AllHalfway, Left
<1>2. QED
  BY <1>1 DEF Halfway, Due

(* The handlers stay right through a step that leaves them alone.            *)
LEMMA HandlersStay ==
    ASSUME Inv, UNCHANGED <<eventCallbacks, catchAllHandler, subscribed>>,
           Waiting' \subseteq Waiting, excused \subseteq excused'
    PROVE  HandlersStand'
BY DEF Inv, HandlersStand

(* Messages that stay where they are.                                        *)
LEMMA NothingChanges ==
    ASSUME Inv, UNCHANGED <<pausedMessages, todo, inner, received, given>>,
           excused \subseteq excused',
           \A q \in Goroutines : Working(q)' <=> Working(q)
    PROVE  EachOnce' /\ Known' /\ Fresh' /\ Waiting' = Waiting
<1>1. \A q \in Goroutines : Untouched(q)' = Untouched(q)
  BY DEF Untouched
<1>2. \A q \in Goroutines :
          /\ IsInjective(todo'[q]) /\ Range(todo'[q]) \subseteq Range(todo[q])
          /\ IsInjective(inner'[q]) /\ Range(inner'[q]) \subseteq Range(inner[q])
          /\ IsInjective(pausedMessages')
  BY DEF Inv, EachOnce
<1>3. Waiting' = Waiting
  BY WaitingIs
<1>4. IsInjective(pausedMessages')
  BY DEF Inv, EachOnce
<1>5. QED
  BY <1>1, <1>2, <1>3, <1>4, NothingMoves

(* SkipNil: no message is for a nil handler.                                 *)
LEMMA SkipsNil ==
    ASSUME Inv, NEW g \in Goroutines, SkipNil(g)
    PROVE  Inv' /\ Box!Next
<1> USE DEF Inv
<1>1. /\ pc[g] = "invoke" /\ Head(hands[g]) = NoHandler
      /\ hands' = [hands EXCEPT ![g] = Tail(@)]
      /\ UNCHANGED <<subscribed, pausedMessages, catchAllHandler, eventCallbacks>>
      /\ UNCHANGED <<handlerSerial, pc, todo, inner, received, given, excused>>
  BY DEF SkipNil, fields, handlers, history
<1>2. hands[g] \in Seq(MaybeHandler) /\ hands[g] # <<>>
  BY DEF SkipNil, TypeOK, LoopsOK
<1>3. /\ IsInjective(hands[g]) /\ IsInjective(Tail(hands[g]))
      /\ Range(hands[g]) = {NoHandler} \cup Range(Tail(hands[g]))
  BY <1>1, <1>2, TailRange DEF AllHalfway, Halfway, Working
<1>4. TypeOK'
  BY StepTypes DEF Step
<1>5. \A q \in Goroutines : Working(q)' <=> Working(q)
  BY <1>1 DEF Working
<1>6. EachOnce' /\ Known' /\ Fresh' /\ Waiting' = Waiting
  BY <1>1, <1>5, NothingChanges
<1>7. Resting' /\ Serial'
  BY <1>1 DEF Resting, Serial
<1>8. AllHalfway'
  <2> SUFFICES ASSUME NEW q \in Goroutines, Working(q) PROVE Halfway(q)'
    BY <1>5 DEF AllHalfway
  <2>1. CASE q = g
    <3>1. hands'[g] = Tail(hands[g])
      BY <1>1 DEF TypeOK, LoopsOK
    <3>2. Left(g)' = Range(Tail(hands[g])) /\ Left(g) = Range(hands[g])
      BY <1>1, <3>1 DEF Left
    <3>3. QED
      BY <1>1, <1>3, <2>1, <3>1, <3>2 DEF AllHalfway, Halfway, Due
  <2>2. CASE q # g
    <3>1. hands'[q] = hands[q]
      BY <1>1, <2>2 DEF TypeOK, LoopsOK
    <3>2. QED
      BY <1>1, <3>1, OthersHalfway
  <2>3. QED
    BY <2>1, <2>2
<1>9. HandlersStand'
  BY <1>1, <1>6, HandlersStay
<1>10. Box!Next
  BY <1>1, <1>6, NothingToSee
<1>11. QED
  BY <1>4, <1>6, <1>7, <1>8, <1>9, <1>10

(* HandlerReturns: handlerSerial is given back.                              *)
LEMMA ReturnsHandler ==
    ASSUME Inv, NEW g \in Goroutines, HandlerReturns(g)
    PROVE  Inv' /\ Box!Next
<1> USE DEF Inv
<1>1. /\ pc[g] = "handler" /\ handlerSerial' = None
      /\ hands' = [hands EXCEPT ![g] = Tail(@)]
      /\ pc' = [pc EXCEPT ![g] = "invoke"]
      /\ inner[g] = <<>>
      /\ UNCHANGED <<subscribed, pausedMessages, catchAllHandler, eventCallbacks>>
      /\ UNCHANGED <<todo, inner, received, given, excused>>
  BY DEF HandlerReturns, Goto, fields, handlers, history
<1>2. /\ pc'[g] = "invoke" /\ hands'[g] = Tail(hands[g])
      /\ \A q \in Goroutines \ {g} : pc'[q] = pc[q] /\ hands'[q] = hands[q]
  BY <1>1 DEF TypeOK, LoopsOK
<1>3. IsInjective(Tail(hands[g]))
  <2>1. hands[g] \in Seq(MaybeHandler) /\ hands[g] # <<>>
    BY <1>1 DEF TypeOK, LoopsOK
  <2>2. IsInjective(hands[g])
    BY <1>1 DEF AllHalfway, Halfway, Working
  <2>3. QED
    BY <2>1, <2>2, TailRange
<1>4. TypeOK'
  BY StepTypes DEF Step
<1>5. \A q \in Goroutines : Working(q)' <=> Working(q)
  BY <1>1, <1>2 DEF Working
<1>6. EachOnce' /\ Known' /\ Fresh' /\ Waiting' = Waiting
  BY <1>1, <1>5, NothingChanges
<1>7. Resting' /\ Serial'
  <2>1. Resting'
    BY <1>1, <1>2 DEF Resting
  <2>2. handlerSerial = g /\ \A q \in Goroutines \ {g} : pc[q] \notin {"handler", "blocked"}
    BY <1>1 DEF Serial
  <2>3. Serial'
    BY <1>1, <1>2, <2>2, DeliveryAssumption DEF Serial
  <2>4. QED
    BY <2>1, <2>3
<1>8. AllHalfway'
  <2> SUFFICES ASSUME NEW q \in Goroutines, Working(q) PROVE Halfway(q)'
    BY <1>5 DEF AllHalfway
  <2>1. CASE q = g
    <3>1. Left(g)' = Range(Tail(hands[g])) /\ Left(g) = Range(Tail(hands[g]))
      BY <1>1, <1>2 DEF Left
    <3>2. QED
      BY <1>1, <1>2, <1>3, <2>1, <3>1 DEF AllHalfway, Halfway, Due
  <2>2. CASE q # g
    BY <1>1, <1>2, <2>2, OthersHalfway
  <2>3. QED
    BY <2>1, <2>2
<1>9. HandlersStand'
  BY <1>1, <1>6, HandlersStay
<1>10. Box!Next
  <2>1. \E q \in Goroutines : pc[q] \in {"handler", "blocked"}
    BY <1>1
  <2>2. ~ (\E q \in Goroutines : pc'[q] \in {"handler", "blocked"})
    BY <1>1, <1>4, <1>7, DeliveryAssumption DEF Serial
  <2>3. Box!Done
    BY <1>1, <1>6, <2>1, <2>2 DEF Box!Done
  <2>4. QED
    BY <2>3 DEF Box!Next
<1>11. QED
  BY <1>4, <1>6, <1>7, <1>8, <1>9, <1>10

(* Of a step that takes m from a loop to the end of the buffer.              *)
LEMMA MovesToBuffer ==
    ASSUME Inv, UNCHANGED <<received, given>>,
           NEW m \in Waiting, m \in Messages, m \notin Range(pausedMessages),
           \A h \in Handlers : <<m, h>> \notin given,
           pausedMessages' = Append(pausedMessages, m),
           \A q \in Goroutines :
               /\ IsInjective(todo'[q]) /\ Range(todo'[q]) \subseteq Range(todo[q]) \ {m}
               /\ IsInjective(inner'[q]) /\ Range(inner'[q]) \subseteq Range(inner[q]) \ {m}
               /\ Untouched(q)' \subseteq Untouched(q)
               /\ Range(todo[q]) \subseteq Range(todo'[q]) \cup {m}
               /\ Range(inner[q]) \subseteq Range(inner'[q]) \cup {m}
    PROVE  EachOnce' /\ Known' /\ Fresh' /\ Waiting' = Waiting
<1>1. /\ Range(pausedMessages') = Range(pausedMessages) \cup {m}
      /\ IsInjective(pausedMessages')
  <2>1. pausedMessages \in Seq(Messages) /\ IsInjective(pausedMessages)
    BY DEF Inv, TypeOK, FieldsOK, EachOnce
  <2>2. QED
    BY <2>1, AppendRange
<1>2. Waiting' = Waiting
  <2>1. \A x \in Waiting' : x \in Waiting
    BY <1>1, WaitingIs
  <2>2. \A x \in Waiting : x \in Waiting'
    BY <1>1, WaitingIs
  <2>3. QED
    BY <2>1, <2>2
<1>3. EachOnce'
  BY <1>1 DEF Inv, EachOnce
<1>4. Known'
  BY <1>2 DEF Inv, Known
<1>5. Fresh'
  BY <1>1 DEF Inv, Fresh
<1>6. QED
  BY <1>2, <1>3, <1>4, <1>5

(* Deliver: the message is buffered, dropped, or its handlers are taken.     *)
LEMMA Delivers ==
    ASSUME Inv, NEW g \in Goroutines, Deliver(g)
    PROVE  Inv' /\ Box!Next
<1> DEFINE m == Head(todo[g])
<1> USE DEF Inv
<1>1. /\ pc[g] = "deliver" /\ todo[g] # <<>>
      /\ UNCHANGED <<subscribed, catchAllHandler, eventCallbacks, handlerSerial>>
      /\ UNCHANGED <<inner, received, given>>
  BY DEF Deliver, Delivering, handlers
<1>2. todo[g] \in Seq(Messages) /\ IsInjective(todo[g])
  BY DEF EachOnce, TypeOK, LoopsOK
<1>3. /\ m \in Messages /\ Range(todo[g]) = {m} \cup Range(Tail(todo[g]))
      /\ IsInjective(Tail(todo[g])) /\ m \notin Range(Tail(todo[g]))
  BY <1>1, <1>2, TailRange
<1>4. m \in Waiting /\ m \notin Range(pausedMessages)
  BY <1>3, WaitingIs DEF EachOnce
<1>5. ~Working(g) /\ Untouched(g) = Range(todo[g])
  BY <1>1 DEF Working, Untouched
<1>6. \A h \in Handlers : <<m, h>> \notin given
  BY <1>3, <1>5 DEF Fresh
<1>7. TypeOK'
  BY StepTypes DEF Step
<1>8. CASE SetAside(m) /\ Loop(g, Tail(todo[g])) /\ UNCHANGED hands
  <2>1. /\ pc' = pc /\ todo'[g] = Tail(todo[g])
        /\ \A q \in Goroutines \ {g} : todo'[q] = todo[q]
        /\ UNCHANGED hands
    BY <1>1, <1>8 DEF Loop, Goto, TypeOK, LoopsOK
  <2>2. \A q \in Goroutines : Working(q)' <=> Working(q)
    BY <2>1 DEF Working
  <2>3. \A q \in Goroutines : Untouched(q)' = IF q = g THEN Untouched(g) \ {m} ELSE Untouched(q)
    BY <1>3, <1>5, <2>1, <2>2 DEF Untouched
  <2>4. \A q \in Goroutines :
            /\ IsInjective(todo'[q]) /\ IsInjective(inner'[q])
            /\ Range(todo'[q]) = IF q = g THEN Range(todo[g]) \ {m} ELSE Range(todo[q])
            /\ m \notin Range(inner[q])
            /\ q # g => m \notin Range(todo[q])
    <3> SUFFICES ASSUME NEW q \in Goroutines
                 PROVE  /\ IsInjective(todo'[q]) /\ IsInjective(inner'[q])
                        /\ Range(todo'[q]) = IF q = g THEN Range(todo[g]) \ {m}
                                                     ELSE Range(todo[q])
                        /\ m \notin Range(inner[q])
                        /\ q # g => m \notin Range(todo[q])
      OBVIOUS
    <3>1. m \in Range(todo[g])
      BY <1>3
    <3>2. IsInjective(todo[q]) /\ IsInjective(inner[q]) /\ m \notin Range(inner[q])
      BY <3>1 DEF EachOnce
    <3>3. q # g => m \notin Range(todo[q])
      BY <3>1 DEF EachOnce
    <3>4. QED
      BY <1>1, <1>3, <2>1, <3>2, <3>3
  <2>5. Resting' /\ Serial'
    BY <1>1, <2>1 DEF Resting, Serial
  <2>6. excused \subseteq excused'
    BY <1>8 DEF SetAside
  <2>7. AllHalfway'
    BY <1>1, <1>5, <2>1, <2>2, <2>6, OthersHalfway DEF AllHalfway
  <2>8. CASE pausedMessages' = Append(pausedMessages, m) /\ UNCHANGED excused
    <3>1. EachOnce' /\ Known' /\ Fresh' /\ Waiting' = Waiting
      BY <1>1, <1>3, <1>4, <1>6, <2>3, <2>4, <2>8, MovesToBuffer
    <3>2. HandlersStand'
      BY <1>1, <2>6, <3>1, HandlersStay
    <3>3. Box!Next
      BY <1>1, <2>1, <2>8, <3>1, NothingToSee
    <3>4. QED
      BY <1>7, <2>5, <2>7, <3>1, <3>2, <3>3
  <2>9. CASE excused' = excused \cup {m} /\ UNCHANGED pausedMessages
    <3>1. IsInjective(pausedMessages') /\ Range(pausedMessages') = Range(pausedMessages)
      BY <2>9 DEF EachOnce
    <3>2. EachOnce' /\ Known' /\ Fresh' /\ Waiting' \subseteq Waiting
      BY <1>1, <2>3, <2>4, <3>1, NothingMoves
    <3>3. HandlersStand'
      BY <1>1, <2>6, <3>2, HandlersStay
    <3>4. \A x \in Waiting \ Waiting' : x = m
      BY <1>1, <2>4, <2>9, WaitingIs
    <3>5. Box!Next
      BY <1>1, <1>4, <2>1, <2>9, <3>2, <3>4, Settles
    <3>6. QED
      BY <1>7, <2>5, <2>7, <3>2, <3>3, <3>5
  <2>10. QED
    BY <1>8, <2>8, <2>9 DEF SetAside
<1>9. CASE /\ hands' = [hands EXCEPT ![g] = HandlersOf(m)]
           /\ Goto(g, "invoke") /\ UNCHANGED <<pausedMessages, todo, excused>>
  <2>1. /\ pc'[g] = "invoke" /\ hands'[g] = HandlersOf(m)
        /\ \A q \in Goroutines \ {g} : pc'[q] = pc[q] /\ hands'[q] = hands[q]
    BY <1>1, <1>9 DEF Goto, TypeOK, LoopsOK
  <2>2. \A q \in Goroutines :
            /\ Working(q)' <=> Working(q) \/ q = g
            /\ Untouched(q)' = IF q = g THEN Untouched(g) \ {m} ELSE Untouched(q)
    BY <1>3, <1>5, <1>9, <2>1 DEF Working, Untouched
  <2>3. EachOnce' /\ Known' /\ Fresh' /\ Waiting' \subseteq Waiting
    <3>1. \A q \in Goroutines : IsInjective(todo'[q]) /\ IsInjective(inner'[q])
      BY <1>1, <1>9 DEF EachOnce
    <3>2. IsInjective(pausedMessages')
      BY <1>9 DEF EachOnce
    <3>3. QED
      BY <1>1, <1>9, <2>2, <3>1, <3>2, NothingMoves
  <2>4. Waiting' = Waiting
    BY <1>1, <1>9, WaitingIs
  <2>5. Resting' /\ Serial'
    BY <1>1, <1>9, <2>1 DEF Resting, Serial
  <2>6. AllHalfway'
    <3> SUFFICES ASSUME NEW q \in Goroutines, Working(q)' PROVE Halfway(q)'
      BY DEF AllHalfway
    <3>1. CASE q = g
      <4>1. Left(g)' = Range(HandlersOf(m))
        BY <2>1 DEF Left
      <4>2. QED
        BY <1>1, <1>4, <1>6, <1>9, <2>1, <3>1, <4>1, HandlersAreDue DEF Halfway, Due
    <3>2. CASE q # g
      BY <1>1, <1>9, <2>1, <2>2, <3>2, OthersHalfway
    <3>3. QED
      BY <3>1, <3>2
  <2>7. HandlersStand'
    BY <1>1, <1>9, <2>4, HandlersStay
  <2>8. Box!Next
    BY <1>1, <1>9, <2>1, <2>4, NothingToSee
  <2>9. QED
    BY <1>7, <2>3, <2>5, <2>6, <2>7, <2>8
<1>10. QED
  BY <1>8, <1>9 DEF Deliver

(* DeliverWithin: buffered, dropped, for nobody, or the goroutine is blocked.*)
LEMMA DeliversWithin ==
    ASSUME Inv, NEW g \in Goroutines, DeliverWithin(g)
    PROVE  Inv' /\ Box!Next
<1> DEFINE m == Head(inner[g])
<1> USE DEF Inv
<1>1. /\ pc[g] = "handler" /\ inner[g] # <<>>
      /\ UNCHANGED <<subscribed, catchAllHandler, eventCallbacks, handlerSerial>>
      /\ UNCHANGED <<todo, hands, received, given>>
  BY DEF DeliverWithin, handlers
<1>2. inner[g] \in Seq(Messages) /\ IsInjective(inner[g])
  BY DEF EachOnce, TypeOK, LoopsOK
<1>3. /\ m \in Messages /\ Range(inner[g]) = {m} \cup Range(Tail(inner[g]))
      /\ IsInjective(Tail(inner[g])) /\ m \notin Range(Tail(inner[g]))
  BY <1>1, <1>2, TailRange
<1>4. m \in Waiting /\ m \notin Range(pausedMessages)
  BY <1>3, WaitingIs DEF EachOnce
<1>5. \A h \in Handlers : <<m, h>> \notin given
  BY <1>3 DEF Fresh
<1>6. TypeOK'
  BY StepTypes DEF Step
<1>7. CASE pc' = pc /\ inner' = [inner EXCEPT ![g] = Tail(@)]
  <2>1. /\ inner'[g] = Tail(inner[g])
        /\ \A q \in Goroutines \ {g} : inner'[q] = inner[q]
    BY <1>7 DEF TypeOK, LoopsOK
  <2>2. \A q \in Goroutines : Working(q)' <=> Working(q)
    BY <1>7 DEF Working
  <2>3. \A q \in Goroutines : Untouched(q)' = Untouched(q)
    BY <1>1, <2>2 DEF Untouched
  <2>4. \A q \in Goroutines :
            /\ IsInjective(todo'[q]) /\ IsInjective(inner'[q])
            /\ Range(inner'[q]) = IF q = g THEN Range(inner[g]) \ {m} ELSE Range(inner[q])
            /\ m \notin Range(todo[q])
            /\ q # g => m \notin Range(inner[q])
    <3> SUFFICES ASSUME NEW q \in Goroutines
                 PROVE  /\ IsInjective(todo'[q]) /\ IsInjective(inner'[q])
                        /\ Range(inner'[q]) = IF q = g THEN Range(inner[g]) \ {m}
                                                      ELSE Range(inner[q])
                        /\ m \notin Range(todo[q])
                        /\ q # g => m \notin Range(inner[q])
      OBVIOUS
    <3>1. m \in Range(inner[g])
      BY <1>3
    <3>2. IsInjective(todo[q]) /\ IsInjective(inner[q]) /\ m \notin Range(todo[q])
      BY <3>1 DEF EachOnce
    <3>3. q # g => m \notin Range(inner[q])
      BY <3>1 DEF EachOnce
    <3>4. QED
      BY <1>1, <1>3, <2>1, <3>2, <3>3
  <2>5. Resting' /\ Serial'
    BY <1>1, <1>7, <2>1 DEF Resting, Serial
  <2>6. excused \subseteq excused'
    BY DEF DeliverWithin, SetAside
  <2>7. AllHalfway'
    BY <1>1, <1>7, <2>2, <2>6, OthersHalfway DEF AllHalfway
  <2>8. CASE pausedMessages' = Append(pausedMessages, m) /\ UNCHANGED excused
    <3>1. EachOnce' /\ Known' /\ Fresh' /\ Waiting' = Waiting
      BY <1>1, <1>3, <1>4, <1>5, <2>3, <2>4, <2>8, MovesToBuffer
    <3>2. HandlersStand'
      BY <1>1, <2>6, <3>1, HandlersStay
    <3>3. Box!Next
      BY <1>1, <1>7, <2>8, <3>1, NothingToSee
    <3>4. QED
      BY <1>6, <2>5, <2>7, <3>1, <3>2, <3>3
  <2>9. CASE /\ UNCHANGED pausedMessages
             /\ \/ excused' = excused \cup {m}
                \/ UNCHANGED excused /\ Nobody(m)
    <3>1. IsInjective(pausedMessages') /\ Range(pausedMessages') = Range(pausedMessages)
      BY <2>9 DEF EachOnce
    <3>2. EachOnce' /\ Known' /\ Fresh' /\ Waiting' \subseteq Waiting
      BY <1>1, <2>3, <2>4, <3>1, NothingMoves
    <3>3. HandlersStand'
      BY <1>1, <2>6, <3>2, HandlersStay
    <3>4. m \in excused' \/ Due(m) = {}
      BY <1>4, <2>9, HandlersAreDue DEF Nobody, Due
    <3>5. \A x \in Waiting \ Waiting' : x = m
      BY <1>1, <2>4, <2>9, WaitingIs
    <3>6. PICK X \in SUBSET Waiting : excused' = excused \cup X
      <4>1. {m} \in SUBSET Waiting /\ {} \in SUBSET Waiting
        BY <1>4
      <4>2. excused \cup {} = excused
        OBVIOUS
      <4>3. QED
        BY <2>9, <4>1, <4>2
    <3>7. Box!Next
      BY <1>1, <1>7, <3>2, <3>4, <3>5, <3>6, Settles
    <3>8. QED
      BY <1>6, <2>5, <2>7, <3>2, <3>3, <3>7
  <2>10. QED
    BY <1>1, <1>7, <2>8, <2>9 DEF DeliverWithin, SetAside, Goto, TypeOK, LoopsOK
<1>8. CASE Goto(g, "blocked") /\ UNCHANGED <<inner, pausedMessages, excused>>
  <2>1. pc'[g] = "blocked" /\ \A q \in Goroutines \ {g} : pc'[q] = pc[q]
    BY <1>8 DEF Goto, TypeOK, LoopsOK
  <2>2. \A q \in Goroutines : Working(q)' <=> Working(q)
    BY <1>1, <2>1 DEF Working
  <2>3. EachOnce' /\ Known' /\ Fresh' /\ Waiting' = Waiting
    BY <1>1, <1>8, <2>2, NothingChanges
  <2>4. Resting' /\ Serial'
    BY <1>1, <1>8, <2>1 DEF Resting, Serial
  <2>5. AllHalfway'
    <3> SUFFICES ASSUME NEW q \in Goroutines, Working(q) PROVE Halfway(q)'
      BY <2>2 DEF AllHalfway
    <3>1. Halfway(q) /\ Left(q)' = Left(q)
      BY <1>1, <2>1 DEF AllHalfway, Left
    <3>2. QED
      BY <1>1, <1>8, <3>1 DEF Halfway, Due
  <2>6. HandlersStand'
    BY <1>1, <1>8, <2>3, HandlersStay
  <2>7. Box!Next
    BY <1>1, <1>8, <2>1, <2>3, NothingToSee
  <2>8. QED
    BY <1>6, <2>3, <2>4, <2>5, <2>6, <2>7
<1>9. QED
  BY <1>7, <1>8 DEF DeliverWithin, SetAside

(* Delivered: all the handlers of the message had it.                        *)
LEMMA HasDelivered ==
    ASSUME Inv, NEW g \in Goroutines, Delivered(g)
    PROVE  Inv' /\ Box!Next
<1> DEFINE m == Head(todo[g])
<1> USE DEF Inv
<1>1. /\ pc[g] = "invoke" /\ hands[g] = <<>>
      /\ UNCHANGED <<subscribed, pausedMessages, catchAllHandler, eventCallbacks, handlerSerial>>
      /\ UNCHANGED <<hands, inner, received, given, excused>>
  BY DEF Delivered, fields, handlers, history
<1>2. /\ pc'[g] = "deliver" /\ todo'[g] = Tail(todo[g])
      /\ \A q \in Goroutines \ {g} : pc'[q] = pc[q] /\ todo'[q] = todo[q]
  BY DEF Delivered, Loop, Goto, TypeOK, LoopsOK
<1>3. /\ Range(todo[g]) = {m} \cup Range(Tail(todo[g]))
      /\ IsInjective(Tail(todo[g])) /\ m \in Range(todo[g])
  BY <1>1, TailRange DEF TypeOK, LoopsOK, EachOnce
<1>4. \A q \in Goroutines : Working(q)' <=> Working(q) /\ q # g
  BY <1>1, <1>2 DEF Working
<1>5. \A q \in Goroutines : Untouched(q)' = Untouched(q)
  BY <1>1, <1>2, <1>4 DEF Untouched, Working
<1>6. TypeOK'
  BY StepTypes DEF Step
<1>7. EachOnce' /\ Known' /\ Fresh' /\ Waiting' \subseteq Waiting
  <2>1. \A q \in Goroutines :
            /\ IsInjective(todo'[q]) /\ IsInjective(inner'[q])
            /\ Range(todo'[q]) \subseteq Range(todo[q])
    BY <1>1, <1>2, <1>3 DEF EachOnce
  <2>2. IsInjective(pausedMessages')
    BY <1>1 DEF EachOnce
  <2>3. QED
    BY <1>1, <1>5, <2>1, <2>2, NothingMoves
<1>8. Resting' /\ Serial'
  BY <1>1, <1>2 DEF Resting, Serial
<1>9. AllHalfway'
  BY <1>1, <1>2, <1>4, OthersHalfway DEF AllHalfway
<1>10. HandlersStand'
  BY <1>1, <1>7, HandlersStay
<1>11. Box!Next
  <2>1. \A x \in Waiting \ Waiting' : x = m
    BY <1>1, <1>2, <1>3, WaitingIs
  <2>2. m \in excused \/ \A h \in Due(m) : <<m, h>> \in given
    BY <1>1, EmptyRange DEF AllHalfway, Halfway, Left, Working
  <2>3. {} \in SUBSET Waiting /\ excused' = excused \cup {}
    BY <1>1
  <2>4. QED
    BY <1>1, <1>2, <1>7, <2>1, <2>2, <2>3, Settles
<1>12. QED
  BY <1>6, <1>7, <1>8, <1>9, <1>10, <1>11

(* LoopEnds: the loop has nothing left.                                      *)
LEMMA EndsLoop ==
    ASSUME Inv, NEW g \in Goroutines, LoopEnds(g)
    PROVE  Inv' /\ Box!Next
<1> USE DEF Inv
<1>1. /\ pc[g] = "deliver" /\ todo[g] = <<>>
      /\ UNCHANGED <<subscribed, pausedMessages, catchAllHandler, eventCallbacks, handlerSerial>>
      /\ UNCHANGED <<todo, hands, inner, received, given, excused>>
  BY DEF LoopEnds, fields, handlers, history
<1>2. pc'[g] = "idle" /\ \A q \in Goroutines \ {g} : pc'[q] = pc[q]
  BY DEF LoopEnds, Goto, TypeOK, LoopsOK
<1>3. \A q \in Goroutines : Working(q)' <=> Working(q)
  BY <1>1, <1>2 DEF Working
<1>4. TypeOK'
  BY StepTypes DEF Step
<1>5. EachOnce' /\ Known' /\ Fresh' /\ Waiting' = Waiting
  BY <1>1, <1>3, NothingChanges
<1>6. Resting' /\ Serial'
  BY <1>1, <1>2 DEF Resting, Serial
<1>7. AllHalfway'
  BY <1>1, <1>2, <1>3, OthersHalfway DEF AllHalfway, Working
<1>8. HandlersStand'
  BY <1>1, <1>5, HandlersStay
<1>9. Box!Next
  BY <1>1, <1>2, <1>5, NothingToSee
<1>10. QED
  BY <1>4, <1>5, <1>6, <1>7, <1>8, <1>9

(* Pause touches no message.                                                 *)
LEMMA Pauses ==
    ASSUME Inv, NEW g \in Goroutines, Pause(g)
    PROVE  Inv' /\ Box!Next
<1> USE DEF Inv
<1>1. /\ UNCHANGED <<subscribed, pausedMessages, catchAllHandler, eventCallbacks, handlerSerial>>
      /\ UNCHANGED <<pc, todo, hands, inner, received, given, excused>>
  BY DEF Pause, Call, handlers
<1>2. TypeOK'
  BY OperationTypes DEF Operation
<1>3. \A q \in Goroutines : Working(q)' <=> Working(q)
  BY <1>1 DEF Working
<1>4. EachOnce' /\ Known' /\ Fresh' /\ Waiting' = Waiting
  BY <1>1, <1>3, NothingChanges
<1>5. Resting' /\ Serial'
  BY <1>1 DEF Resting, Serial
<1>6. AllHalfway'
  BY <1>1, <1>3, OthersHalfway DEF AllHalfway
<1>7. HandlersStand'
  BY <1>1, <1>4, HandlersStay
<1>8. Box!Next
  BY <1>1, <1>4, NothingToSee
<1>9. QED
  BY <1>2, <1>4, <1>5, <1>6, <1>7, <1>8

(* Resume moves the buffer to the goroutine that called it.                  *)
LEMMA Resumes ==
    ASSUME Inv, NEW g \in Goroutines, Resume(g)
    PROVE  Inv' /\ Box!Next
<1> USE DEF Inv
<1>1. /\ pausedMessages' = <<>>
      /\ pc[g] = "idle" \/ (pc[g] = "handler" /\ inner[g] = <<>>)
      /\ UNCHANGED <<subscribed, catchAllHandler, eventCallbacks, handlerSerial>>
      /\ UNCHANGED <<hands, received, given, excused>>
  BY DEF Resume, Call, Resting, handlers
<1>2. TypeOK'
  BY OperationTypes DEF Operation
<1>3. \A h \in Handlers : \A m \in Range(pausedMessages) : <<m, h>> \notin given
  BY DEF Fresh
<1>4. \A q \in Goroutines :
          IF pc[g] = "idle"
          THEN /\ inner'[q] = inner[q]
               /\ todo'[q] = IF q = g THEN pausedMessages ELSE todo[q]
               /\ pc'[q] = IF q = g THEN "deliver" ELSE pc[q]
          ELSE /\ todo'[q] = todo[q] /\ pc'[q] = pc[q]
               /\ inner'[q] = IF q = g THEN pausedMessages ELSE inner[q]
  <2>1. CASE pc[g] = "idle"
    BY <2>1 DEF Resume, Takes, Loop, Goto, TypeOK, LoopsOK
  <2>2. CASE pc[g] # "idle"
    BY <2>2 DEF Resume, Takes, TypeOK, LoopsOK
  <2>3. QED
    BY <2>1, <2>2
<1>5. \A q \in Goroutines : Working(q)' <=> Working(q)
  BY <1>1, <1>4 DEF Working
<1>6. \A q \in Goroutines :
          IF pc[g] = "idle"
          THEN /\ Range(inner'[q]) = Range(inner[q])
               /\ Range(todo'[q]) = IF q = g THEN Range(pausedMessages) ELSE Range(todo[q])
          ELSE /\ Range(todo'[q]) = Range(todo[q])
               /\ Range(inner'[q]) = IF q = g THEN Range(pausedMessages) ELSE Range(inner[q])
  BY <1>4
<1>7. IF pc[g] = "idle" THEN Range(todo[g]) = {} ELSE Range(inner[g]) = {}
  BY <1>1, EmptyRange DEF Resting
<1>8. Range(pausedMessages') = {} /\ IsInjective(pausedMessages')
  BY <1>1, EmptyRange
<1>9. \A q \in Goroutines : Untouched(q)' \subseteq Untouched(q) \cup Range(pausedMessages)
  BY <1>1, <1>4, <1>5 DEF Untouched, Working
<1>10. Waiting' = Waiting
  <2>1. \A m \in Waiting' : m \in Waiting
    BY <1>6, <1>8, WaitingIs
  <2>2. \A m \in Waiting : m \in Waiting'
    BY <1>6, <1>7, WaitingIs
  <2>3. QED
    BY <2>1, <2>2
<1>11. EachOnce'
  <2>1. \A q \in Goroutines : IsInjective(todo'[q]) /\ IsInjective(inner'[q])
    BY <1>4 DEF EachOnce
  <2>2. QED
    BY <1>6, <1>8, <2>1 DEF EachOnce
<1>12. Known' /\ Resting' /\ Serial'
  BY <1>1, <1>4, <1>10 DEF Known, Resting, Serial
<1>13. Fresh'
  BY <1>1, <1>3, <1>6, <1>8, <1>9 DEF Fresh
<1>14. AllHalfway'
  BY <1>1, <1>4, <1>5, OthersHalfway DEF AllHalfway, Working
<1>15. HandlersStand'
  BY <1>1, <1>10, HandlersStay
<1>16. Box!Next
  BY <1>1, <1>4, <1>10, NothingToSee
<1>17. QED
  BY <1>2, <1>10, <1>11, <1>12, <1>13, <1>14, <1>15, <1>16

(* Of ClearBufferedMessages, Reset and an UNSUBSCRIBED frame.                *)
LEMMA Drops ==
    ASSUME Inv, TypeOK', UNCHANGED <<pc, todo, hands, inner, handlerSerial, received, given>>,
           pausedMessages' \in {<<>>, pausedMessages},
           NEW X \in SUBSET Waiting, excused' = excused \cup X,
           Range(pausedMessages) \subseteq X \/ UNCHANGED pausedMessages,
           \/ UNCHANGED <<subscribed, catchAllHandler, eventCallbacks>>
           \/ /\ X = Waiting /\ subscribed' = FALSE
              /\ eventCallbacks' = <<>> /\ catchAllHandler' = NoHandler
    PROVE  Inv' /\ Box!Next
<1> USE DEF Inv
<1>1. /\ IsInjective(pausedMessages')
      /\ Range(pausedMessages') \subseteq Range(pausedMessages)
  BY EmptyRange DEF EachOnce
<1>2. \A q \in Goroutines : IsInjective(todo'[q]) /\ IsInjective(inner'[q])
  BY DEF EachOnce
<1>3. \A q \in Goroutines :
          (Working(q)' <=> Working(q)) /\ Untouched(q)' = Untouched(q)
  BY DEF Working, Untouched
<1>4. EachOnce' /\ Known' /\ Fresh' /\ Waiting' \subseteq Waiting
  BY <1>1, <1>2, <1>3, NothingMoves
<1>5. Resting' /\ Serial'
  BY DEF Resting, Serial
<1>6. AllHalfway'
  BY <1>3, OthersHalfway DEF AllHalfway
<1>7. HandlersStand'
  <2>1. CASE UNCHANGED <<subscribed, catchAllHandler, eventCallbacks>>
    BY <1>4, <2>1, HandlersStay
  <2>2. CASE /\ X = Waiting /\ subscribed' = FALSE
             /\ eventCallbacks' = <<>> /\ catchAllHandler' = NoHandler
    BY <1>4, <2>2 DEF HandlersStand
  <2>3. QED
    BY <2>1, <2>2
<1>8. Box!Next
  <2>1. \A m \in Waiting \ Waiting' : m \in X
    BY WaitingIs
  <2>2. QED
    BY <1>4, <2>1, Settles
<1>9. QED
  BY <1>4, <1>5, <1>6, <1>7, <1>8

(* What the application calls keeps invariant and promise.                   *)
LEMMA OperationsKeep ==
    ASSUME Inv, NEW g \in Goroutines, Operation(g)
    PROVE  Inv' /\ Box!Next
<1>1. TypeOK'
  BY OperationTypes DEF Inv
<1>2. CASE ClearBufferedMessages(g)
  <2>1. Range(pausedMessages) \in SUBSET Waiting
    BY DEF Waiting
  <2>2. QED
    BY <1>1, <1>2, <2>1, Drops DEF ClearBufferedMessages, Call, handlers
<1>3. CASE Reset(g)
  <2>1. Range(pausedMessages) \subseteq Waiting /\ Waiting \in SUBSET Waiting
    BY DEF Waiting
  <2>2. QED
    BY <1>1, <1>3, <2>1, Drops DEF Reset, Call
<1>4. QED
  BY <1>2, <1>3, Pauses, Resumes DEF Operation

(* The steps of a goroutine that delivers keep invariant and promise.        *)
LEMMA StepsKeep ==
    ASSUME Inv, NEW g \in Goroutines, Step(g)
    PROVE  Inv' /\ Box!Next
BY Delivers, HandsOver, SkipsNil, ReturnsHandler, DeliversWithin, HasDelivered, EndsLoop DEF Step

(* A frame: its messages are new, nobody was handed any of them.             *)
LEMMA ReceiveKeeps ==
    ASSUME Inv, Receive, TypeOK'
    PROVE  Inv' /\ Box!Next
<1> USE DEF Inv
<1>1. PICK k \in 1 .. MaxFrame :
          /\ Arrive(k)
          /\ IF subscribed THEN Loop(Reader, [i \in 1 .. k |-> received + i])
                           ELSE UNCHANGED <<pc, todo>>
  BY DEF Receive
<1>2. /\ pc[Reader] = "idle" /\ received' = received + k /\ received + k <= MaxMessages
      /\ UNCHANGED <<subscribed, pausedMessages, catchAllHandler, eventCallbacks>>
      /\ UNCHANGED <<handlerSerial, hands, inner, given, excused>>
  BY <1>1 DEF Arrive, fields, handlers, history
<1>3. received \in Nat /\ k \in Nat /\ MaxMessages \in Nat /\ Reader \in Goroutines
  BY DeliveryAssumption DEF TypeOK, CountersOK, Goroutines
<1>4. CASE subscribed
  <2> DEFINE s == [i \in 1 .. k |-> received + i]
  <2>1. IsInjective(s) /\ Range(s) = received + 1 .. received + k
    BY <1>3, FrameRange
  <2> HIDE DEF s
  <2>2. \A q \in Goroutines :
            /\ pc'[q] = IF q = Reader THEN "deliver" ELSE pc[q]
            /\ todo'[q] = IF q = Reader THEN s ELSE todo[q]
    BY <1>1, <1>4 DEF Loop, Goto, TypeOK, LoopsOK, s
  <2>3. todo[Reader] = <<>> /\ Range(todo[Reader]) = {}
    BY <1>2, <1>3, EmptyRange DEF Resting
  <2>4. \A q \in Goroutines :
            Range(todo'[q]) = IF q = Reader THEN Range(s) ELSE Range(todo[q])
    BY <2>2
  <2>5. Range(s) \cap Waiting = {}
    BY <1>3, <2>1 DEF Known
  <2>6. Waiting' = Waiting \cup Range(s)
    <3>1. \A x : x \in Waiting' <=> x \in Waiting \/ x \in Range(s)
      BY <1>2, <1>3, <2>3, <2>4, WaitingIs
    <3>2. QED
      BY <3>1
  <2>7. \A q \in Goroutines : Working(q)' <=> Working(q)
    BY <1>2, <2>2 DEF Working
  <2>8. \A q \in Goroutines : Untouched(q)' \subseteq Untouched(q) \cup Range(s)
    BY <1>2, <2>2, <2>7 DEF Untouched, Working
  <2>9. \A m \in Range(s), h \in Handlers : m \in Messages /\ <<m, h>> \notin given
    <3>1. \A m \in Range(s) : m \in Messages /\ ~ (m <= received)
      BY <1>2, <1>3, <2>1 DEF Messages
    <3>2. QED
      BY <3>1 DEF Known
  <2>10. EachOnce'
    <3>1. \A q \in Goroutines :
              /\ IsInjective(todo'[q]) /\ IsInjective(inner'[q])
              /\ Range(todo[q]) \cap Range(s) = {} /\ Range(inner[q]) \cap Range(s) = {}
      BY <1>2, <2>1, <2>2, <2>5, WaitingIs DEF EachOnce
    <3>2. Range(pausedMessages) \cap Range(s) = {}
      BY <2>5, WaitingIs
    <3>3. QED
      BY <1>2, <2>4, <3>1, <3>2 DEF EachOnce
  <2>11. Known'
    <3>1. \A m \in Waiting : m <= received + k
      <4>1. \A m \in Waiting : m \in Nat
        BY WaitingAreMessages DEF Messages
      <4>2. QED
        BY <1>3, <4>1 DEF Known
    <3>2. \A m \in Range(s) : m <= received + k
      BY <1>3, <2>1
    <3>3. \A m \in Messages : m <= received => m <= received + k
      BY <1>3 DEF Messages
    <3>4. QED
      BY <1>2, <2>6, <3>1, <3>2, <3>3 DEF Known
  <2>12. Resting' /\ Serial'
    BY <1>2, <2>2 DEF Resting, Serial
  <2>13. Fresh'
    BY <1>2, <2>8, <2>9 DEF Fresh
  <2>14. AllHalfway'
    BY <1>2, <2>2, <2>7, OthersHalfway DEF AllHalfway, Working
  <2>15. HandlersStand'
    BY <1>2, <1>4 DEF HandlersStand
  <2>16. Box!Next
    <3>1. Range(s) \in SUBSET (Messages \ Waiting)
      BY <1>2, <1>3, <2>1, <2>5 DEF Messages
    <3>2. (\E q \in Goroutines : pc[q] \in {"handler", "blocked"})'
              = (\E q \in Goroutines : pc[q] \in {"handler", "blocked"})
      BY <1>2, <2>2
    <3>3. Box!Arrive
      BY <1>2, <2>6, <2>9, <3>1, <3>2 DEF Box!Arrive
    <3>4. QED
      BY <3>3 DEF Box!Next
  <2>17. QED
    BY <2>10, <2>11, <2>12, <2>13, <2>14, <2>15, <2>16
<1>5. CASE ~subscribed
  <2>1. UNCHANGED <<pc, todo>>
    BY <1>1, <1>5
  <2>2. Waiting' = Waiting
    BY <1>2, <2>1, WaitingIs
  <2>3. \A q \in Goroutines :
            (Working(q)' <=> Working(q)) /\ Untouched(q)' = Untouched(q)
    BY <2>1 DEF Working, Untouched
  <2>4. EachOnce' /\ Resting' /\ Serial'
    BY <1>2, <2>1 DEF EachOnce, Resting, Serial
  <2>5. Known'
    <3>1. \A m \in Waiting : m \in Nat
      BY WaitingAreMessages DEF Messages
    <3>2. QED
      BY <1>2, <1>3, <2>2, <3>1 DEF Known, Messages
  <2>6. Fresh'
    BY <1>2, <2>3 DEF Fresh
  <2>7. AllHalfway'
    BY <1>2, <2>1, <2>3, OthersHalfway DEF AllHalfway
  <2>8. HandlersStand'
    BY <1>2, <2>2, HandlersStay
  <2>9. Box!Next
    BY <1>2, <2>1, <2>2, NothingToSee
  <2>10. QED
    BY <2>4, <2>5, <2>6, <2>7, <2>8, <2>9
<1>6. QED
  BY <1>4, <1>5

(* Every step keeps the invariant, and is a step of the promise or none.     *)
LEMMA Promise ==
    ASSUME Inv, [Next]_vars
    PROVE  Inv' /\ [Box!Next]_Box!vars
<1>1. TypeOK'
  BY NextTypes DEF Inv
<1>2. CASE Receive
  BY <1>1, <1>2, ReceiveKeeps
<1>3. CASE HandleUnsubscribed
  <2>1. Waiting \in SUBSET Waiting
    OBVIOUS
  <2>2. QED
    BY <1>1, <1>3, <2>1, Drops DEF HandleUnsubscribed, loops
<1>4. CASE UNCHANGED vars
  <2>1. /\ UNCHANGED <<subscribed, paused, bufferWhilePaused, pausedMessages>>
        /\ UNCHANGED <<catchAllHandler, eventCallbacks, handlerSerial, pc, todo, hands, inner>>
        /\ UNCHANGED <<received, calls, given, excused>>
    BY <1>4 DEF vars, fields, handlers, loops, history
  <2>2. {} \in SUBSET Waiting /\ excused' = excused \cup {}
    BY <2>1
  <2>3. QED
    BY <1>1, <2>1, <2>2, Drops
<1>5. QED
  BY <1>2, <1>3, <1>4, StepsKeep, OperationsKeep DEF Next

(* The invariant, at first.                                                  *)
LEMMA InitInv == ASSUME Init PROVE Inv
<1>1. TypeOK
  BY InitTypes
<1>2. /\ \A g \in Goroutines :
             pc[g] = "idle" /\ todo[g] = <<>> /\ hands[g] = <<>> /\ inner[g] = <<>>
      /\ pausedMessages = <<>> /\ given = {} /\ handlerSerial = None
      /\ catchAllHandler = CatchAll /\ eventCallbacks = EventHandlers
  BY DEF Init
<1>3. \A g \in Goroutines : Untouched(g) = {} /\ ~Working(g)
  BY <1>2, EmptyRange DEF Untouched, Working
<1>4. EachOnce /\ Fresh /\ Waiting = {}
  BY <1>2, <1>3, EmptyRange DEF EachOnce, Fresh, Waiting
<1>5. Known /\ Resting /\ HandlersStand
  BY <1>2, <1>4 DEF Known, Resting, HandlersStand
<1>6. Serial /\ AllHalfway
  BY <1>2, <1>3, DeliveryAssumption DEF Serial, AllHalfway
<1>7. QED
  BY <1>1, <1>4, <1>5, <1>6 DEF Inv

(* The channel keeps the promise of MessageBox, whatever the number of       *)
(* goroutines, messages and handlers.                                        *)
THEOREM ChannelKeepsPromise == Spec => KeepsPromise
<1>1. Init => Inv
  BY InitInv
<1>2. Init => Box!Init
  BY EmptyRange DEF Init, Box!Init, Waiting
<1>3. Inv /\ [Next]_vars => Inv' /\ [Box!Next]_Box!vars
  BY Promise
<1>4. QED
  BY <1>1, <1>2, <1>3, PTL DEF Spec, KeepsPromise, Box!Spec
-----------------------------------------------------------------------------
(* The order of messages *)

(* The read loop still has the newest messages, oldest first; any other      *)
(* goroutine, and a Resume in a handler, has what was buffered.              *)
InOrder ==
    \A i \in 1 .. Len(todo[Reader]) : todo[Reader][i] = (received - Len(todo[Reader])) + i
FromBuffer ==
    /\ Range(pausedMessages) \subseteq buffered
    /\ \A g \in Goroutines :
        /\ Range(inner[g]) \subseteq buffered
        /\ g # Reader => Range(todo[g]) \subseteq buffered
Ordered == InOrder /\ FromBuffer

(* The first of the read loop's messages leaves it.                          *)
LEMMA TailInOrder ==
    ASSUME TypeOK, InOrder, todo[Reader] # <<>>, UNCHANGED received,
           todo'[Reader] = Tail(todo[Reader])
    PROVE  InOrder'
<1> DEFINE s == todo[Reader]
<1>1. s \in Seq(Messages) /\ s # <<>> /\ received \in Nat
  BY DeliveryAssumption DEF TypeOK, LoopsOK, CountersOK, Goroutines
<1>2. /\ Len(s) \in Nat \ {0} /\ Len(Tail(s)) = Len(s) - 1
      /\ \A i \in 1 .. Len(s) - 1 : Tail(s)[i] = s[i + 1]
  BY <1>1
<1>3. ASSUME NEW i \in 1 .. Len(s) - 1
      PROVE  Tail(s)[i] = (received - (Len(s) - 1)) + i
  <2>1. i + 1 \in 1 .. Len(s) /\ Tail(s)[i] = s[i + 1]
    BY <1>2
  <2>2. s[i + 1] = (received - Len(s)) + (i + 1)
    BY <2>1 DEF InOrder
  <2>3. \A r, l, j \in Nat : (r - l) + (j + 1) = (r - (l - 1)) + j
    OBVIOUS
  <2>4. i \in Nat /\ Len(s) \in Nat
    BY <1>2
  <2>5. QED
    BY <1>1, <2>1, <2>2, <2>3, <2>4
<1>4. QED
  BY <1>2, <1>3 DEF InOrder

(* Every step keeps the order.                                               *)
LEMMA StaysOrdered ==
    ASSUME Inv, Ordered, [Next]_vars
    PROVE  Ordered'
<1> USE DEF Inv, Ordered
<1>1. Reader \in Goroutines /\ received \in Nat /\ MaxMessages \in Nat
  BY DeliveryAssumption DEF TypeOK, CountersOK, Goroutines
<1>2. ASSUME UNCHANGED <<pausedMessages, todo, inner, received>>, buffered \subseteq buffered'
      PROVE  Ordered'
  BY <1>2 DEF InOrder, FromBuffer
<1>3. CASE Receive
  <2> PICK k \in 1 .. MaxFrame :
          /\ Arrive(k)
          /\ IF subscribed THEN Loop(Reader, [i \in 1 .. k |-> received + i])
                           ELSE UNCHANGED <<pc, todo>>
    BY <1>3 DEF Receive
  <2>1. /\ todo[Reader] = <<>> /\ received' = received + k /\ k \in Nat
        /\ UNCHANGED <<pausedMessages, inner, buffered>>
    BY <1>1, DeliveryAssumption DEF Arrive, Resting, fields, history
  <2>2. CASE subscribed
    <3>1. /\ todo'[Reader] = [i \in 1 .. k |-> received + i]
          /\ \A g \in Goroutines \ {Reader} : todo'[g] = todo[g]
      BY <1>1, <2>2 DEF Loop, TypeOK, LoopsOK
    <3>2. Len(todo'[Reader]) = k
      BY <2>1, <3>1
    <3>3. \A i \in 1 .. k : todo'[Reader][i] = (received' - k) + i
      BY <1>1, <2>1, <3>1
    <3>4. InOrder'
      BY <3>2, <3>3 DEF InOrder
    <3>5. FromBuffer'
      BY <2>1, <3>1 DEF FromBuffer
    <3>6. QED
      BY <3>4, <3>5
  <2>3. CASE ~subscribed
    <3>1. UNCHANGED todo /\ Len(todo[Reader]) = 0
      BY <2>1, <2>3
    <3>2. InOrder'
      BY <3>1 DEF InOrder
    <3>3. QED
      BY <2>1, <3>1, <3>2 DEF FromBuffer
  <2>4. QED
    BY <2>2, <2>3
<1>4. ASSUME NEW g \in Goroutines, Deliver(g) \/ Delivered(g)
      PROVE  Ordered'
  <2>1. CASE UNCHANGED <<todo, pausedMessages, buffered>>
    BY <1>2, <1>4, <2>1 DEF Deliver, Delivered, fields, history
  <2>2. CASE todo' = [todo EXCEPT ![g] = Tail(todo[g])]
    <3>1. todo[g] \in Seq(Messages) /\ todo[g] # <<>>
      BY <1>4 DEF Deliver, Delivering, Delivered, TypeOK, LoopsOK
    <3>2. Head(todo[g]) \in Messages /\ Range(Tail(todo[g])) \subseteq Range(todo[g])
      BY <3>1, TailRange
    <3>3. /\ todo'[g] = Tail(todo[g]) /\ UNCHANGED <<received, inner>>
          /\ \A q \in Goroutines \ {g} : todo'[q] = todo[q]
      BY <1>4, <2>2 DEF Deliver, Delivered, history, TypeOK, LoopsOK
    <3>4. InOrder'
      <4>1. CASE g = Reader
        BY <3>1, <3>3, <4>1, TailInOrder
      <4>2. CASE g # Reader
        BY <1>1, <3>3, <4>2 DEF InOrder
      <4>3. QED
        BY <4>1, <4>2
    <3>5. \/ UNCHANGED <<pausedMessages, buffered>>
          \/ /\ pausedMessages' = Append(pausedMessages, Head(todo[g]))
             /\ buffered' = buffered \cup {Head(todo[g])}
      BY <1>4 DEF Deliver, Delivered, SetAside, fields, history
    <3>6. Range(pausedMessages') \subseteq buffered' /\ buffered \subseteq buffered'
      <4>1. pausedMessages \in Seq(Messages) /\ Range(pausedMessages) \subseteq buffered
        BY DEF FromBuffer, TypeOK, FieldsOK
      <4>2. Range(Append(pausedMessages, Head(todo[g])))
                = Range(pausedMessages) \cup {Head(todo[g])}
        BY <3>2, <4>1, AppendRange
      <4>3. QED
        BY <3>5, <4>1, <4>2
    <3>7. FromBuffer'
      BY <3>2, <3>3, <3>6 DEF FromBuffer
    <3>8. QED
      BY <3>4, <3>7
  <2>3. QED
    BY <1>4, <2>1, <2>2 DEF Deliver, Delivered, Loop
<1>5. ASSUME NEW g \in Goroutines, DeliverWithin(g)
      PROVE  Ordered'
  <2>1. CASE UNCHANGED <<inner, pausedMessages, buffered>>
    BY <1>2, <1>5, <2>1 DEF DeliverWithin
  <2>2. CASE inner' = [inner EXCEPT ![g] = Tail(@)]
    <3>1. inner[g] \in Seq(Messages) /\ inner[g] # <<>>
      BY <1>5 DEF DeliverWithin, TypeOK, LoopsOK
    <3>2. Head(inner[g]) \in Messages /\ Range(Tail(inner[g])) \subseteq Range(inner[g])
      BY <3>1, TailRange
    <3>3. /\ inner'[g] = Tail(inner[g]) /\ UNCHANGED <<received, todo>>
          /\ \A q \in Goroutines \ {g} : inner'[q] = inner[q]
      BY <1>5, <2>2 DEF DeliverWithin, TypeOK, LoopsOK
    <3>4. \/ UNCHANGED <<pausedMessages, buffered>>
          \/ /\ pausedMessages' = Append(pausedMessages, Head(inner[g]))
             /\ buffered' = buffered \cup {Head(inner[g])}
      BY <1>5 DEF DeliverWithin, SetAside
    <3>5. Range(pausedMessages') \subseteq buffered' /\ buffered \subseteq buffered'
      <4>1. pausedMessages \in Seq(Messages) /\ Range(pausedMessages) \subseteq buffered
        BY DEF FromBuffer, TypeOK, FieldsOK
      <4>2. Range(Append(pausedMessages, Head(inner[g])))
                = Range(pausedMessages) \cup {Head(inner[g])}
        BY <3>2, <4>1, AppendRange
      <4>3. QED
        BY <3>4, <4>1, <4>2
    <3>6. InOrder' /\ FromBuffer'
      BY <3>2, <3>3, <3>5 DEF InOrder, FromBuffer
    <3>7. QED
      BY <3>6
  <2>3. QED
    BY <1>5, <2>1, <2>2 DEF DeliverWithin
<1>6. ASSUME NEW g \in Goroutines,
             InvokeHandler(g) \/ SkipNil(g) \/ HandlerReturns(g) \/ LoopEnds(g)
      PROVE  Ordered'
  BY <1>2, <1>6 DEF InvokeHandler, SkipNil, HandlerReturns, LoopEnds, fields, history
<1>7. ASSUME NEW g \in Goroutines, Pause(g) \/ ClearBufferedMessages(g) \/ Reset(g)
      PROVE  Ordered'
  <2>1. UNCHANGED <<todo, inner, received, buffered>> /\ pausedMessages' \in {<<>>, pausedMessages}
    BY <1>7 DEF Pause, ClearBufferedMessages, Reset, Call
  <2>2. QED
    BY <2>1, EmptyRange DEF InOrder, FromBuffer
<1>8. ASSUME NEW g \in Goroutines, Resume(g)
      PROVE  Ordered'
  <2>1. pausedMessages' = <<>> /\ UNCHANGED <<received, buffered>>
    BY <1>8 DEF Resume, Call
  <2>2. CASE pc[g] = "idle"
    <3>1. g # Reader
      BY <1>8, <2>2, DeliveryAssumption DEF Resume, Call
    <3>2. /\ todo'[g] = pausedMessages /\ inner' = inner
          /\ \A q \in Goroutines \ {g} : todo'[q] = todo[q]
      BY <1>8, <2>2 DEF Resume, Takes, Loop, TypeOK, LoopsOK
    <3>3. InOrder' /\ FromBuffer'
      BY <1>1, <2>1, <3>1, <3>2, EmptyRange DEF InOrder, FromBuffer
    <3>4. QED
      BY <3>3
  <2>3. CASE pc[g] # "idle"
    <3>1. /\ inner'[g] = pausedMessages /\ todo' = todo
          /\ \A q \in Goroutines \ {g} : inner'[q] = inner[q]
      BY <1>8, <2>3 DEF Resume, Takes, TypeOK, LoopsOK
    <3>2. InOrder' /\ FromBuffer'
      BY <2>1, <3>1, EmptyRange DEF InOrder, FromBuffer
    <3>3. QED
      BY <3>2
  <2>4. QED
    BY <2>2, <2>3
<1>9. CASE HandleUnsubscribed
  BY <1>2, <1>9 DEF HandleUnsubscribed, loops
<1>10. CASE UNCHANGED vars
  BY <1>2, <1>10 DEF vars, fields, loops, history
<1>11. QED
  BY <1>3, <1>4, <1>5, <1>6, <1>7, <1>8, <1>9, <1>10 DEF Next, Step, Operation

(* The read loop hands over a message before the newer ones, which are still *)
(* in its loop; other goroutines hand over only what was buffered.           *)
LEMMA HandsInOrder ==
    ASSUME Inv, Ordered, [Next]_vars, NEW m \in Messages, NEW n \in Messages, NEW h \in Handlers,
           m < n, <<n, h>> \in given, <<m, h>> \in given' \ given
    PROVE  m \in buffered
<1> USE DEF Inv, Ordered
<1>1. PICK g \in Goroutines : InvokeHandler(g)
  BY DEF Next, Step, Operation, Receive, Arrive, HandleUnsubscribed, Deliver, SkipNil,
         HandlerReturns, DeliverWithin, Delivered, LoopEnds, Pause, Resume,
         ClearBufferedMessages, Reset, Call, vars, history
<1>2. m = Head(todo[g]) /\ pc[g] = "invoke"
  BY <1>1 DEF InvokeHandler
<1>3. m \in Range(todo[g])
  BY <1>2, Places DEF Working
<1>4. CASE g # Reader
  BY <1>3, <1>4 DEF FromBuffer
<1>5. CASE g = Reader
  <2> DEFINE s == todo[Reader]
  <2>1. s \in Seq(Messages) /\ s # <<>> /\ received \in Nat /\ Reader \in Goroutines
    BY <1>2, <1>5 DEF TypeOK, LoopsOK, CountersOK
  <2>2. m = s[1] /\ Len(s) \in Nat \ {0}
    BY <1>2, <1>5, <2>1
  <2>3. m = (received - Len(s)) + 1 /\ n <= received
    BY <2>2 DEF InOrder, Known
  <2>4. /\ n - m \in 1 .. Len(s) - 1 /\ (n - m) + 1 \in 1 .. Len(s)
        /\ (received - Len(s)) + ((n - m) + 1) = n
    <3>1. ASSUME NEW r \in Nat, NEW l \in Nat \ {0}, NEW x \in Nat, NEW y \in Nat,
                 x = (r - l) + 1, x < y, y <= r
          PROVE  /\ y - x \in 1 .. l - 1 /\ (y - x) + 1 \in 1 .. l
                 /\ (r - l) + ((y - x) + 1) = y
      BY <3>1
    <3>2. m \in Nat /\ n \in Nat
      BY DEF Messages
    <3> HIDE DEF s, Inv, Ordered
    <3>3. QED
      BY <2>1, <2>2, <2>3, <3>1, <3>2
  <2>5. Tail(s)[n - m] = s[(n - m) + 1] /\ n - m \in DOMAIN Tail(s)
    BY <2>1, <2>2, <2>4
  <2>6. s[(n - m) + 1] = n
    BY <2>4 DEF InOrder
  <2>7. n \in Untouched(Reader)
    BY <1>2, <1>5, <2>5, <2>6 DEF Untouched, Working, Range
  <2>8. QED
    BY <2>1, <2>7 DEF Fresh
<1>6. QED
  BY <1>4, <1>5

(* However the goroutines interleave, a handler gets messages in the order   *)
(* they came, but for those that were buffered.                              *)
THEOREM OnlyBufferedOvertaken == Spec => OvertakesBuffered
<1>1. Init => Inv /\ Ordered
  <2>1. Init => Ordered
    <3> SUFFICES ASSUME Init PROVE Ordered
      OBVIOUS
    <3>1. \A g \in Goroutines : todo[g] = <<>> /\ inner[g] = <<>>
      BY DEF Init
    <3>2. Reader \in Goroutines /\ pausedMessages = <<>>
      BY DEF Init, Goroutines
    <3>3. QED
      BY <3>1, <3>2, EmptyRange DEF Ordered, InOrder, FromBuffer
  <2>2. QED
    BY <2>1, InitInv
<1>2. Inv /\ Ordered /\ [Next]_vars => Inv' /\ Ordered'
  BY Promise, StaysOrdered
<1>3. Inv /\ Ordered /\ [Next]_vars
      => [\A m, n \in Messages, h \in Handlers :
            /\ m < n /\ <<n, h>> \in given
            /\ <<m, h>> \in given' \ given
            => m \in buffered]_vars
  BY HandsInOrder
<1>4. QED
  BY <1>1, <1>2, <1>3, PTL DEF Spec, OvertakesBuffered
=============================================================================
