------------------------- MODULE SocketManagerProofs -------------------------
(***************************************************************************)
(* Proofs about SocketManager, for any number of users, names, channels,   *)
(* sockets, connecting goroutines and losses: handles, counts and maps     *)
(* agree, and what is wanted stays where dispatch and reconnects find it.  *)
(***************************************************************************)
EXTENDS SocketManager, FiniteSetTheorems, SequenceTheorems, TLAPS

(* Every object in use was created, and is mapped by its own name.           *)
Named ==
    /\ \A n \in Names : channels[n] # 0 => channels[n] \in DOMAIN name /\ name[channels[n]] = n
    /\ \A u \in Users : handle[u] # 0 => handle[u] \in DOMAIN name
    /\ \A g \in Connectors : at[g] # 0 => at[g] \in DOMAIN name
    /\ \A i \in Iterators : todo[i] \subseteq DOMAIN name
    /\ dropped \cup disputed \subseteq DOMAIN name

Idle(u) == pc[u] \in {"idle", "wait"}
Releasing(u) == pc[u] \in {"hasCallback", "reset", "delete"}

(* One user is inside the manager at most.                                   *)
OneManages == \A u, v \in Users : ~Idle(u) /\ ~Idle(v) => u = v

(* A handle that was not dropped is mapped, or disputed; nothing is disputed *)
(* before something is dropped.  What was dropped is not mapped, but in the  *)
(* middle of a Reset, when all that is mapped was.                           *)
HandlesMapped == \A u \in Users : Holds(u) => handle[u] \in Mapped \cup disputed
DroppedFirst == disputed # {} => dropped # {}
DroppedIsGone == IF Resetting THEN Mapped \subseteq dropped ELSE Mapped \cap dropped = {}

CountAgrees(n) ==
    /\ refCounts[n] <= Cardinality(Holders(n))
    /\ channels[n] \notin disputed => refCounts[n] = Cardinality(Holders(n))
CountsAgree == \A n \in Names : CountAgrees(n)

(* Who releases a channel for good is the last to hold it, if nobody         *)
(* disputes it.                                                              *)
LastHolder ==
    \A u \in Users : Releasing(u) =>
        /\ handle[u] # 0 /\ refCounts[Held(u)] = 1
        /\ channels[Held(u)] = handle[u] \/ channels[Held(u)] \in disputed

(* Who expects an answer waits.                                              *)
AwaitsInWait == \A u \in Users : awaited[u] # "none" => pc[u] = "wait"

MapInv ==
    /\ TypeOK /\ Named /\ OneManages /\ AwaitsInWait
    /\ HandlesMapped /\ DroppedFirst /\ DroppedIsGone /\ CountsAgree /\ LastHolder

(* What is wanted has a callback, and so no last Release drops it.           *)
WantedInv == ~stale => wanted \ (dropped \cup disputed) \subseteq callback \cap Mapped
LetGoUnwanted ==
    ~stale => \A u \in Users :
        pc[u] \in {"reset", "delete"} /\ channels[Held(u)] \notin disputed
            => handle[u] \notin wanted
KeptInv == MapInv /\ WantedInv /\ LetGoUnwanted /\ KeptForCallback

-----------------------------------------------------------------------------
(* Types *)

LEMMA NamesUsed ==
    /\ \A u \in Users : \A n \in Uses[u] : n \in Names
    /\ MaxChannels \in Nat /\ MaxConnects \in Nat /\ MaxCalls \in Nat /\ MaxLosses \in Nat
BY ManagerAssumption

LEMMA NameOK ==
    ASSUME MapsOK
    PROVE  /\ DOMAIN name = 1 .. Len(name) /\ Len(name) \in Nat
           /\ DOMAIN name \subseteq Objects /\ 0 \notin DOMAIN name
           /\ \A o \in DOMAIN name : name[o] \in Names
           /\ Mapped \subseteq DOMAIN name
           /\ 0 \notin Mapped
<1>1. name \in Seq(Names) /\ Len(name) <= MaxChannels
  BY DEF MapsOK
<1>2. DOMAIN name = 1 .. Len(name) /\ Len(name) \in Nat
  BY <1>1, LenProperties
<1>3. \A o \in DOMAIN name : name[o] \in Names
  BY <1>1, <1>2, ElementOfSeq
<1>4. QED
  BY <1>1, <1>2, <1>3, NamesUsed DEF Objects, Mapped

(* Get of a name without a channel.                                          *)
LEMMA Created ==
    ASSUME MapsOK, NEW n \in Names, Len(name) < MaxChannels, name' = Append(name, n),
           channels' = Put(channels, n, Len(name'))
    PROVE  /\ channels' \in [Names -> Objects \cup {0}]
           /\ name' \in Seq(Names) /\ Len(name') <= MaxChannels
           /\ DOMAIN name' = DOMAIN name \cup {Len(name')}
           /\ Len(name') \in Objects \ DOMAIN name
           /\ name'[Len(name')] = n /\ channels'[n] = Len(name')
           /\ \A o \in DOMAIN name : name'[o] = name[o]
           /\ \A m \in Names \ {n} : channels'[m] = channels[m]
<1>1. /\ name' \in Seq(Names) /\ Len(name') = Len(name) + 1
      /\ \A o \in 1 .. Len(name) : name'[o] = name[o]
      /\ name'[Len(name) + 1] = n
  BY AppendProperties DEF MapsOK
<1>2. DOMAIN name' = 1 .. Len(name')
  BY <1>1, LenProperties
<1>3. DOMAIN name = 1 .. Len(name) /\ Len(name) \in Nat
  BY NameOK
<1>4. Len(name') \in Objects /\ Len(name') <= MaxChannels /\ Len(name') \notin DOMAIN name
  BY <1>1, <1>3, NamesUsed DEF Objects
<1>5. DOMAIN name' = DOMAIN name \cup {Len(name')}
  BY <1>1, <1>2, <1>3
<1>6. /\ channels' \in [Names -> Objects \cup {0}] /\ channels'[n] = Len(name')
      /\ \A m \in Names \ {n} : channels'[m] = channels[m]
  BY <1>4 DEF Put, MapsOK
<1>7. QED
  BY <1>1, <1>3, <1>4, <1>5, <1>6
LEMMA InitInv == Init => KeptInv
<1> SUFFICES ASSUME Init PROVE KeptInv
  OBVIOUS
<1>1. /\ name \in Seq(Names) /\ Len(name) = 0
      /\ <<>> \in Seq({"subscribed", "unsubscribed"} \X Names)
  BY EmptySeq DEF Init
<1>2. DOMAIN name = {}
  BY <1>1, LenProperties
<1>3. TypeOK
  <2>1. MapsOK
    BY <1>1, NamesUsed DEF Init, MapsOK
  <2>2. ObjectsOK
    <3>1. /\ callback = {} /\ subscribed = {} /\ pendingSubscribe = {} /\ pendingUnsubscribe = {}
          /\ reconnectPending = {} /\ wanted = {} /\ dropped = {} /\ disputed = {} /\ unreset = {}
      BY DEF Init
    <3>2. QED
      BY <3>1 DEF ObjectsOK
  <2>3. IterationsOK
    <3>1. /\ todo = [i \in Iterators |-> {}] /\ seen = [i \in Iterators |-> {}] /\ oldMap = {}
          /\ reader = [k \in Sockets |-> "none"]
          /\ connector = [g \in Connectors |-> "idle"] /\ at = [g \in Connectors |-> 0]
      BY DEF Init
    <3>2. QED
      BY <3>1 DEF IterationsOK
  <2>4. SocketOK
    <3>1. conn = 0 /\ alive = FALSE /\ answers = [k \in Sockets |-> <<>>]
      BY DEF Init
    <3>2. conn \in 0 .. MaxConnects /\ (alive => conn # 0)
      BY <3>1, NamesUsed
    <3>3. answers \in [Sockets -> Seq({"subscribed", "unsubscribed"} \X Names)]
      BY <1>1, <3>1
    <3>4. QED
      BY <3>1, <3>2, <3>3 DEF SocketOK
  <2>5. UsersOK
    BY DEF Init, UsersOK
  <2>6. CountersOK
    <3>1. stale = FALSE /\ calls = 0 /\ losses = 0
      BY DEF Init
    <3>2. {calls, losses} \subseteq Nat
      BY <3>1
    <3>3. QED
      BY <3>1, <3>2 DEF CountersOK
  <2>7. QED
    BY <2>1, <2>2, <2>4, <2>5, <2>6, <2>3 DEF TypeOK
<1>4. \A n \in Names : Holders(n) = {}
  BY DEF Init, Holders
<1>5. CountsAgree
  <2>1. \A n \in Names : Cardinality(Holders(n)) = 0 /\ refCounts[n] = 0
    BY <1>4, FS_EmptySet DEF Init
  <2>2. QED
    BY <2>1 DEF CountsAgree, CountAgrees
<1>6. /\ Named /\ OneManages /\ AwaitsInWait /\ HandlesMapped /\ DroppedFirst /\ LastHolder
      /\ WantedInv /\ LetGoUnwanted /\ KeptForCallback
  <2>1. Named /\ OneManages /\ HandlesMapped /\ DroppedFirst
    BY DEF Init, Named, OneManages, Idle, HandlesMapped, Holds, DroppedFirst
  <2>2. LastHolder /\ AwaitsInWait /\ WantedInv /\ LetGoUnwanted
    BY DEF Init, LastHolder, Releasing, AwaitsInWait, WantedInv, LetGoUnwanted
  <2>3. KeptForCallback
    BY DEF Init, KeptForCallback
  <2>4. QED
    BY <2>1, <2>2, <2>3
<1>7. DroppedIsGone
  BY <1>2 DEF Init, DroppedIsGone, Resetting, Mapped
<1>8. QED
  BY <1>3, <1>5, <1>6, <1>7 DEF KeptInv, MapInv

(* The calls that change the maps.                                           *)
ManagerStep(u) ==
    \/ ReleaseStep(u) \/ ResetStep(u) \/ Release(u) \/ Reset(u)
    \/ \E n \in Uses[u] : Get(u, n) \/ Remove(u, n)
(* The steps of the connection's goroutines that are not answers.            *)
GoroutineStep ==
    \/ \E k \in Sockets : \/ ReadFails(k) \/ CloseEnds(k) \/ Leave(k)
                          \/ \E o \in Objects : SetPendingSubscribe(k, o)
    \/ \E g \in Connectors : \/ Connect(g) \/ ConnectReturns(g) \/ ResubscribeSends(g)
                             \/ \E o \in Objects : Skip(g, o) \/ Resubscribe(g, o)
    \/ Lose
(* All but the calls of the manager.                                         *)
ChannelStep ==
    \/ \E u \in Users : GiveUp(u) \/ Subscribe(u) \/ Unsubscribe(u)
    \/ \E k \in Sockets : Dispatch(k)
    \/ GoroutineStep

LEMMA Steps == [Next]_vars => (\E u \in Users : ManagerStep(u)) \/ ChannelStep \/ UNCHANGED vars
BY DEF Next, UserStep, ManagerStep, ReadLoop, Resubscribing, ChannelStep, GoroutineStep

LEMMA MapsTypes ==
    ASSUME TypeOK, Named, NEW u \in Users, ManagerStep(u)
    PROVE  MapsOK'
<1> USE DEF MapsOK
<1>1. TypeOK /\ MapsOK /\ handle \in [Users -> Objects \cup {0}]
  BY DEF TypeOK, UsersOK
<1>2. handle[u] # 0 => Held(u) \in Names
  BY <1>1, NameOK DEF Held, Named
<1>3. CASE \E n \in Uses[u] : Get(u, n)
  <2>1. PICK n \in Names : Get(u, n)
    BY <1>3, NamesUsed
  <2>2. refCounts' \in [Names -> Nat]
    BY <1>1, <2>1 DEF Get, Put
  <2>3. CASE channels[n] # 0
    BY <1>1, <2>1, <2>2, <2>3 DEF Get
  <2>4. CASE channels[n] = 0
    BY <1>1, <2>1, <2>2, <2>4, Created DEF Get
  <2>5. QED
    BY <2>3, <2>4
<1>4. CASE Release(u)
  BY <1>1, <1>2, <1>4 DEF Release, Put
<1>5. CASE ReleaseStep(u)
  <2>1. CASE ReleaseKeeps(u)
    BY <1>1, <2>1 DEF ReleaseKeeps, Put
  <2>2. CASE ReleaseDeletes(u)
    BY <1>1, <2>2 DEF ReleaseDeletes, Put
  <2>3. CASE ReleaseDrops(u) \/ ReleaseResets(u)
    BY <1>1, <2>3 DEF ReleaseDrops, ReleaseResets, maps
  <2>4. QED
    BY <1>5, <2>1, <2>2, <2>3 DEF ReleaseStep, ReleaseLooks
<1>6. CASE Reset(u) \/ \E o \in Objects : ResetsChannel(u, o)
  BY <1>1, <1>6 DEF Reset, ResetsChannel, maps
<1>7. CASE ResetMaps(u)
  BY <1>1, <1>7 DEF ResetMaps
<1>8. CASE \E n \in Uses[u] : Remove(u, n)
  BY <1>1, <1>8, NamesUsed DEF Remove, Put
<1>9. QED
  BY <1>3, <1>4, <1>5, <1>6, <1>7, <1>8 DEF ManagerStep, ResetStep

LEMMA ManagerTypes ==
    ASSUME TypeOK, Named, NEW u \in Users, ManagerStep(u)
    PROVE  TypeOK'
<1>1. MapsOK'
  BY MapsTypes
<1>2. /\ Mapped \subseteq Objects /\ channels \in [Names -> Objects \cup {0}]
      /\ handle[u] # 0 => Held(u) \in Names
  BY NameOK DEF TypeOK, MapsOK, Held, Named
<1>3. ObjectsOK'
  <2> USE DEF ObjectsOK, TypeOK
  <2>1. CASE \E n \in Uses[u] : Get(u, n)
    BY <2>1 DEF Get, objects, iterate, history
  <2>2. CASE Release(u)
    <3>1. /\ UNCHANGED <<callback, subscribed, pendingSubscribe, pendingUnsubscribe,
                         reconnectPending, wanted, dropped, unreset>>
          /\ disputed' = disputed \/ (handle[u] # 0 /\ Dispute(u))
      BY <2>2 DEF Release, objects
    <3>2. disputed' \subseteq Objects
      BY <1>2, <3>1 DEF Dispute
    <3>3. QED
      BY <3>1, <3>2
  <2>3. CASE ReleaseStep(u)
    BY <2>3 DEF ReleaseStep, ReleaseLooks, ReleaseKeeps, ReleaseDrops, ReleaseResets,
       ReleaseDeletes, ResetObject, objects, iterate, history
  <2>4. CASE Reset(u)
    BY <1>2, <2>4 DEF Reset, objects, iterate
  <2>5. CASE ResetMaps(u)
    BY <2>5 DEF ResetMaps, objects, history
  <2>6. CASE \E n \in Uses[u] : Remove(u, n)
    <3>1. PICK n \in Names : Remove(u, n)
      BY <2>6, NamesUsed
    <3>2. {channels[n]} \subseteq Objects
      BY <3>1 DEF Remove, MapsOK
    <3>3. QED
      BY <3>1, <3>2 DEF Remove, objects, iterate, users
  <2>7. CASE \E o \in Objects : ResetsChannel(u, o)
    BY <2>7 DEF ResetsChannel, ResetObject, history
  <2>8. QED
    BY <2>1, <2>2, <2>3, <2>4, <2>5, <2>6, <2>7 DEF ManagerStep, ResetStep
<1>4. IterationsOK'
  <2>1. CASE ResetMaps(u)
    BY <1>2, <2>1 DEF ResetMaps, IterationsOK, TypeOK, Iterating, Iterators
  <2>2. CASE ~ResetMaps(u)
    <3>1. UNCHANGED iterate
      BY <2>2 DEF ManagerStep, ReleaseStep, ReleaseLooks, ReleaseKeeps, ReleaseDrops, ResetStep,
         ReleaseResets, ReleaseDeletes, Release, Reset, ResetsChannel, Get, Remove
    <3>2. QED
      BY <3>1 DEF TypeOK, IterationsOK, iterate
  <2>3. QED
    BY <2>1, <2>2
<1>5. SocketOK'
  <2>1. UNCHANGED socket
    BY DEF ManagerStep, ReleaseStep, ReleaseLooks, ReleaseKeeps, ReleaseDrops, ResetStep,
       ReleaseResets, ReleaseDeletes, ResetMaps, ResetsChannel, Release, Reset, Get, Remove
  <2>2. QED
    BY <2>1 DEF TypeOK, SocketOK, socket
<1>6. UsersOK'
  <2>1. CASE \E n \in Uses[u] : Get(u, n)
    <3>1. PICK n \in Names : Get(u, n)
      BY <2>1, NamesUsed
    <3>2. channels'[n] \in Objects \cup {0}
      BY <1>1 DEF MapsOK
    <3>3. QED
      BY <3>1, <3>2 DEF Get, Put, TypeOK, UsersOK
  <2>2. CASE ~\E n \in Uses[u] : Get(u, n)
    BY <2>2 DEF TypeOK, UsersOK, ManagerStep, ReleaseStep, ReleaseLooks, ReleaseKeeps, ResetStep,
       ReleaseDrops, ReleaseResets, ReleaseDeletes, ResetMaps, ResetsChannel, Release, Reset,
       Remove, Goto, Move, LetGo, Put, users
  <2>3. QED
    BY <2>1, <2>2
<1>7. CountersOK'
  BY DEF TypeOK, CountersOK, ManagerStep, ReleaseStep, ReleaseLooks, ReleaseKeeps, ReleaseDrops,
     ReleaseResets, ReleaseDeletes, ResetStep, ResetMaps, ResetsChannel, Release, Reset, Get,
     Remove, Counted, history, bounds
<1>8. QED
  BY <1>1, <1>3, <1>5, <1>6, <1>7, <1>4 DEF TypeOK

LEMMA SentTypes ==
    ASSUME SocketOK, NEW kind \in {"subscribed", "unsubscribed"}, NEW n \in Names,
           Sent(kind, n) \/ Refused
    PROVE  answers' \in [Sockets -> Seq({"subscribed", "unsubscribed"} \X Names)]
<1> DEFINE Frames == {"subscribed", "unsubscribed"} \X Names
<1>1. <<kind, n>> \in Frames
  OBVIOUS
<1>2. CASE UNCHANGED answers
  BY <1>2 DEF SocketOK
<1>3. CASE alive /\ answers' = [answers EXCEPT ![conn] = Append(@, <<kind, n>>)]
  <2>1. conn \in Sockets
    BY <1>3, NamesUsed DEF SocketOK, Sockets
  <2>2. Append(answers[conn], <<kind, n>>) \in Seq(Frames)
    BY <1>1, <2>1, AppendProperties DEF SocketOK
  <2>3. QED
    BY <1>3, <2>1, <2>2 DEF SocketOK
<1>4. QED
  BY <1>2, <1>3 DEF Sent, Refused

LEMMA CallTypes ==
    ASSUME TypeOK, Named, NEW u \in Users, GiveUp(u) \/ Subscribe(u) \/ Unsubscribe(u)
    PROVE  TypeOK'
<1> USE DEF TypeOK
<1>1. CASE GiveUp(u)
  <2>1. UNCHANGED <<maps, objects, socket, iterate, unreset, history, bounds>> /\ UsersOK'
    BY <1>1 DEF GiveUp, UsersOK, Move, Goto, Put
  <2>2. MapsOK' /\ ObjectsOK' /\ IterationsOK' /\ SocketOK'
    BY <2>1 DEF MapsOK, ObjectsOK, IterationsOK, SocketOK, maps, objects, socket, iterate, history
  <2>3. CountersOK'
    BY <2>1 DEF CountersOK, history, bounds
  <2>4. QED
    BY <2>1, <2>2, <2>3
<1>2. ASSUME Subscribe(u) \/ Unsubscribe(u) PROVE TypeOK'
  <2>1. /\ UNCHANGED <<maps, conn, alive, iterate, handle, unreset, dropped, disputed, stale, losses>>
        /\ Call(u) /\ {subscribed', reconnectPending'} = {subscribed, reconnectPending}
    BY <1>2 DEF Subscribe, Unsubscribe
  <2>2. handle[u] \in Objects /\ name[handle[u]] \in Names
    BY <2>1, NameOK DEF Call, Named, UsersOK
  <2>3. MapsOK'
    BY <2>1 DEF MapsOK, maps
  <2>4. ObjectsOK' /\ IterationsOK'
    BY <1>2, <2>2 DEF Subscribe, Unsubscribe, ObjectsOK, IterationsOK, iterate
  <2>5. Sent("subscribed", name[handle[u]]) \/ Sent("unsubscribed", name[handle[u]])
          \/ Refused \/ UNCHANGED answers
    BY <1>2 DEF Subscribe, Unsubscribe
  <2>6. answers' \in [Sockets -> Seq({"subscribed", "unsubscribed"} \X Names)]
    BY <2>2, <2>5, SentTypes DEF SocketOK
  <2>7. SocketOK'
    BY <2>1, <2>6 DEF SocketOK
  <2>8. UsersOK'
    BY <1>2 DEF Subscribe, Unsubscribe, UsersOK, Await, Goto, Put
  <2>9. CountersOK'
    BY <2>1 DEF CountersOK, Call, Counted
  <2>10. QED
    BY <2>3, <2>4, <2>7, <2>8, <2>9
<1>3. QED
  BY <1>1, <1>2

LEMMA DispatchTypes ==
    ASSUME TypeOK, NEW k \in Sockets, Dispatch(k)
    PROVE  TypeOK' /\ Head(answers[k])[1] \in {"subscribed", "unsubscribed"}
<1>1. UNCHANGED <<maps, conn, alive, iterate, handle, unreset, wanted, dropped, disputed, bounds>>
  BY DEF Dispatch
<1> DEFINE Frames == {"subscribed", "unsubscribed"} \X Names
           o == channels[Head(answers[k])[2]]
<1>2. /\ answers[k] \in Seq(Frames) /\ answers[k] # <<>>
      /\ answers' = Put(answers, k, Tail(answers[k]))
  BY DEF Dispatch, TypeOK, SocketOK
<1>3. Head(answers[k]) \in Frames /\ Tail(answers[k]) \in Seq(Frames)
  BY <1>2, HeadTailProperties
<1>4. o \in Objects \cup {0} /\ {o} \ {0} \subseteq Objects
  BY <1>3 DEF TypeOK, MapsOK
<1>5. MapsOK' /\ IterationsOK'
  BY <1>1 DEF TypeOK, MapsOK, IterationsOK, maps, iterate
<1>6. ObjectsOK'
  <2>1. /\ subscribed' \subseteq subscribed \cup ({o} \ {0})
        /\ pendingSubscribe' \subseteq pendingSubscribe
        /\ reconnectPending' \subseteq reconnectPending /\ callback' \subseteq callback
        /\ pendingUnsubscribe' \subseteq pendingUnsubscribe
    BY DEF Dispatch
  <2>2. QED
    BY <1>1, <1>4, <2>1 DEF TypeOK, ObjectsOK
<1>7. SocketOK'
  BY <1>1, <1>2, <1>3, SMTT(30) DEF TypeOK, SocketOK, Put
<1>8. UsersOK'
  BY DEF Dispatch, TypeOK, UsersOK
<1>9. CountersOK'
  <2>1. stale' \in BOOLEAN
    BY DEF Dispatch, TypeOK, CountersOK
  <2>2. QED
    BY <1>1, <2>1 DEF TypeOK, CountersOK, bounds
<1>10. QED
  BY <1>3, <1>5, <1>6, <1>7, <1>8, <1>9 DEF TypeOK

LEMMA LoopTypes ==
    ASSUME TypeOK, Named, GoroutineStep
    PROVE  TypeOK'
<1> USE DEF TypeOK
<1>1. /\ Mapped \subseteq Objects
      /\ \A g \in Connectors : at[g] # 0 => at[g] \in Objects /\ name[at[g]] \in Names
      /\ Sockets \subseteq Iterators /\ Connectors \subseteq Iterators
      /\ <<>> \in Seq({"subscribed", "unsubscribed"} \X Names)
      /\ 0 \notin Objects
  BY NameOK, EmptySeq DEF Named, Iterators, Objects
<1> USE DEF ReadFails, CloseEnds, Leave, SetPendingSubscribe
<1>2. ASSUME NEW k \in Sockets,
             ReadFails(k) \/ CloseEnds(k) \/ Leave(k) \/ \E o \in Objects : SetPendingSubscribe(k, o)
      PROVE  TypeOK'
  <2>1. MapsOK' /\ UsersOK' /\ CountersOK'
    BY <1>2 DEF MapsOK, UsersOK, CountersOK, maps, users, history, bounds
  <2>2. ObjectsOK'
    <3>1. /\ callback' = callback /\ wanted' = wanted /\ dropped' = dropped
          /\ disputed' = disputed /\ unreset' = unreset
          /\ subscribed' \subseteq subscribed /\ pendingSubscribe' \subseteq Objects
          /\ pendingUnsubscribe' = pendingUnsubscribe /\ reconnectPending' \subseteq Objects
      BY <1>2 DEF ObjectsOK, objects, history, users
    <3>2. QED
      BY <3>1 DEF ObjectsOK
  <2>3. IterationsOK'
    <3>1. {todo', seen'} \subseteq [Iterators -> SUBSET Objects] /\ oldMap' \subseteq Iterators
      BY <1>1, <1>2 DEF IterationsOK, StartIteration, EndIteration, Visit, Put
    <3>2. reader' \in [Sockets -> {"none", "reading", "closing", "down", "left"}]
      BY <1>2 DEF IterationsOK, Put
    <3>3. UNCHANGED <<connector, at>>
      BY <1>2
    <3>4. QED
      BY <3>1, <3>2, <3>3 DEF IterationsOK
  <2>4. SocketOK'
    <3>1. conn' = conn /\ alive' = alive
      BY <1>2 DEF socket
    <3>2. answers' = answers \/ answers' = Put(answers, k, <<>>)
      BY <1>2 DEF socket
    <3>3. answers' \in [Sockets -> Seq({"subscribed", "unsubscribed"} \X Names)]
      BY <1>1, <3>2 DEF SocketOK, Put
    <3>4. QED
      BY <3>1, <3>3 DEF SocketOK
  <2>5. QED
    BY <2>1, <2>2, <2>3, <2>4
<1>3. ASSUME NEW g \in Connectors,
             Connect(g) \/ ConnectReturns(g) \/ \E o \in Objects : Skip(g, o) \/ Resubscribe(g, o)
      PROVE  TypeOK'
  <2> USE DEF Connect, ConnectReturns, Skip, Resubscribe
  <2>1. MapsOK' /\ UsersOK'
    BY <1>3 DEF MapsOK, UsersOK, maps, users
  <2>2. ObjectsOK'
    <3>1. /\ callback' = callback /\ wanted' = wanted /\ dropped' = dropped
          /\ disputed' = disputed /\ unreset' = unreset
          /\ subscribed' \subseteq subscribed /\ pendingSubscribe' \subseteq pendingSubscribe
          /\ pendingUnsubscribe' \subseteq pendingUnsubscribe
          /\ reconnectPending' = reconnectPending
      BY <1>3 DEF objects, history, users
    <3>2. QED
      BY <3>1 DEF ObjectsOK
  <2>3. IterationsOK'
    <3>1. {todo', seen'} \subseteq [Iterators -> SUBSET Objects] /\ oldMap' \subseteq Iterators
      BY <1>1, <1>3 DEF IterationsOK, StartIteration, EndIteration, Visit, Put
    <3>2. reader' \in [Sockets -> {"none", "reading", "closing", "down", "left"}]
      BY <1>3 DEF IterationsOK, Put
    <3>3. /\ connector' \in [Connectors -> {"idle", "visiting", "copied"}]
          /\ at' \in [Connectors -> Objects \cup {0}]
      BY <1>3 DEF IterationsOK, Put
    <3>4. \A h \in Connectors : at'[h] # 0 <=> connector'[h] = "copied"
      <4>1. CASE UNCHANGED at
        BY <1>3, <4>1, <1>1 DEF IterationsOK, Put
      <4>2. CASE \E o \in Objects : Resubscribe(g, o)
        BY <1>1, <4>2 DEF IterationsOK, Put
      <4>3. QED
        BY <1>3, <4>1, <4>2
    <3>5. QED
      BY <3>1, <3>2, <3>3, <3>4 DEF IterationsOK
  <2>4. SocketOK'
    <3>1. CASE Connect(g)
      BY <3>1, NamesUsed DEF SocketOK
    <3>2. CASE UNCHANGED socket
      BY <3>2 DEF SocketOK, socket
    <3>3. QED
      BY <1>3, <3>1, <3>2
  <2>5. CountersOK'
    BY <1>3 DEF CountersOK, history, bounds
  <2>6. QED
    BY <2>1, <2>2, <2>3, <2>4, <2>5
<1>4. ASSUME NEW g \in Connectors, ResubscribeSends(g) PROVE TypeOK'
  <2> USE DEF ResubscribeSends
  <2>1. at[g] \in Objects /\ name[at[g]] \in Names
    BY <1>1, <1>4 DEF IterationsOK
  <2>2. answers' \in [Sockets -> Seq({"subscribed", "unsubscribed"} \X Names)]
    BY <1>4, <2>1, SentTypes
  <2>3. MapsOK' /\ UsersOK'
    BY <1>4 DEF MapsOK, UsersOK, maps
  <2>4. ObjectsOK'
    BY <1>4, <2>1 DEF ObjectsOK, history
  <2>5. IterationsOK'
    <3>1. /\ connector' \in [Connectors -> {"idle", "visiting", "copied"}]
          /\ at' \in [Connectors -> Objects \cup {0}]
          /\ \A h \in Connectors : at'[h] # 0 <=> connector'[h] = "copied"
      BY <1>4 DEF IterationsOK, Put
    <3>2. UNCHANGED <<reader, todo, seen, oldMap>>
      BY <1>4
    <3>3. QED
      BY <3>1, <3>2 DEF IterationsOK
  <2>6. SocketOK'
    BY <1>4, <2>2 DEF SocketOK
  <2>7. CountersOK'
    BY <1>4 DEF CountersOK, history, bounds
  <2>8. QED
    BY <2>3, <2>4, <2>5, <2>6, <2>7
<1>5. CASE Lose
  <2>1. /\ UNCHANGED <<maps, objects, conn, answers, iterate, users, history, calls>>
        /\ alive' = FALSE /\ losses' = losses + 1
    BY <1>5 DEF Lose
  <2>2. MapsOK' /\ UsersOK' /\ ObjectsOK' /\ IterationsOK'
    BY <2>1 DEF MapsOK, UsersOK, ObjectsOK, IterationsOK, maps, users, objects, history, iterate
  <2>3. SocketOK' /\ CountersOK'
    <3>1. UNCHANGED <<conn, answers, stale, calls>>
      BY <2>1 DEF history
    <3>2. SocketOK'
      BY <2>1, <3>1 DEF SocketOK
    <3>3. losses' \in Nat
      BY <2>1 DEF CountersOK
    <3>4. CountersOK'
      BY <3>1, <3>3 DEF CountersOK
    <3>5. QED
      BY <3>2, <3>4
  <2>4. QED
    BY <2>2, <2>3
<1>6. QED
  BY <1>2, <1>3, <1>4, <1>5 DEF GoroutineStep

-----------------------------------------------------------------------------
(* Handles, counts and maps *)

LEMMA HoldersFinite ==
    \A n \in Names : IsFiniteSet(Holders(n)) /\ Cardinality(Holders(n)) \in Nat
<1>1. \A n \in Names : IsFiniteSet(Holders(n))
  BY ManagerAssumption, FS_Subset DEF Holders
<1>2. QED
  BY <1>1, FS_CardinalityType

(* An object is mapped by its own name, and by no other.                     *)
LEMMA OwnName ==
    ASSUME MapInv, NEW u \in Users, handle[u] # 0
    PROVE  /\ Held(u) \in Names
           /\ \A m \in Names : channels[m] = handle[u] => m = Held(u)
           /\ \A m \in Names \ {Held(u)} : u \notin Holders(m)
           /\ u \in Holders(Held(u)) <=> channels[Held(u)] = handle[u]
           /\ handle[u] \in Mapped <=> channels[Held(u)] = handle[u]
<1>1. handle[u] \in DOMAIN name
  BY DEF MapInv, Named
<1>2. Held(u) \in Names
  BY <1>1, NameOK DEF MapInv, TypeOK, Held
<1>3. \A m \in Names : channels[m] = handle[u] => m = Held(u)
  BY DEF MapInv, Named, Held
<1>4. QED
  BY <1>1, <1>2, <1>3 DEF Mapped, Held, Holders

LEMMA SoleHolder ==
    ASSUME MapInv, NEW u \in Users, handle[u] # 0, channels[Held(u)] = handle[u],
           channels[Held(u)] \notin disputed, refCounts[Held(u)] = 1
    PROVE  Holders(Held(u)) = {u}
<1>1. Cardinality(Holders(Held(u))) = 1 /\ u \in Holders(Held(u)) /\ Held(u) \in Names
  BY OwnName DEF MapInv, CountsAgree, CountAgrees
<1>2. \E v : Holders(Held(u)) = {v}
  BY <1>1, HoldersFinite, FS_Singleton
<1>3. QED
  BY <1>1, <1>2

(* A count is not zero without a channel, nor is that of a holder, but of a  *)
(* disputed channel.                                                         *)
LEMMA CountedIsMapped ==
    ASSUME MapInv, NEW n \in Names
    PROVE  /\ refCounts[n] \in Nat
           /\ refCounts[n] # 0 => channels[n] # 0
           /\ channels[n] \notin disputed /\ refCounts[n] = 0 => Holders(n) = {}
<1>1. /\ refCounts[n] \in Nat /\ CountAgrees(n)
      /\ Cardinality(Holders(n)) \in Nat /\ IsFiniteSet(Holders(n))
  BY HoldersFinite DEF MapInv, TypeOK, MapsOK, CountsAgree
<1>2. channels[n] = 0 => Cardinality(Holders(n)) = 0
  <2>1. channels[n] = 0 => Holders(n) = {}
    BY DEF Holders
  <2>2. QED
    BY <2>1, FS_EmptySet
<1>3. Cardinality(Holders(n)) = 0 => Holders(n) = {}
  BY <1>1, FS_EmptySet
<1>4. QED
  BY <1>1, <1>2, <1>3 DEF CountAgrees

LEMMA OthersIdle ==
    ASSUME MapInv, NEW u \in Users, Serial(u) \/ ~Idle(u)
    PROVE  \A v \in Users : v # u => Idle(v)
BY DEF MapInv, OneManages, Serial, Idle

LEMMA NotResetting ==
    ASSUME MapInv, NEW u \in Users, Serial(u) \/ Releasing(u)
    PROVE  ~Resetting
<1>1. pc[u] # "resetting" /\ \A v \in Users : v # u => Idle(v)
  BY OthersIdle DEF Serial, Releasing, Idle
<1>2. QED
  BY <1>1 DEF Resetting, Idle

(* Steps that touch neither maps nor handles.                                *)
LEMMA MapsKept ==
    ASSUME MapInv, TypeOK', AwaitsInWait', UNCHANGED <<maps, handle, dropped, disputed>>,
           \A g \in Connectors : at'[g] # 0 => at'[g] \in DOMAIN name,
           \A i \in Iterators : todo'[i] \subseteq DOMAIN name,
           \A u \in Users : \/ pc'[u] = pc[u]
                            \/ Idle(u) /\ Idle(u)'
                            \/ Releasing(u) /\ Releasing(u)'
    PROVE  MapInv'
<1>1. /\ \A u \in Users : /\ Idle(u)' <=> Idle(u)
                          /\ Releasing(u)' <=> Releasing(u)
                          /\ pc'[u] = "resetting" <=> pc[u] = "resetting"
  BY DEF Idle, Releasing
<1>2. Resetting' <=> Resetting
  BY <1>1 DEF Resetting
<1>3. /\ channels' = channels /\ refCounts' = refCounts /\ name' = name
      /\ handle' = handle /\ dropped' = dropped /\ disputed' = disputed
  BY DEF maps
<1>4. \A u \in Users : (Holds(u)' <=> Holds(u)) /\ Held(u)' = Held(u)
  BY <1>3 DEF Holds, Held
<1>5. Mapped' = Mapped
  BY <1>3 DEF Mapped
<1>6. \A n \in Names : Holders(n)' = Holders(n)
  BY <1>3 DEF Holders
<1>7. Named' /\ HandlesMapped' /\ DroppedFirst'
  BY <1>3, <1>4, <1>5 DEF MapInv, Named, HandlesMapped, DroppedFirst
<1>8. OneManages'
  BY <1>1 DEF MapInv, OneManages
<1>9. DroppedIsGone'
  BY <1>2, <1>3, <1>5 DEF MapInv, DroppedIsGone
<1>10. CountsAgree'
  BY <1>3, <1>6 DEF MapInv, CountsAgree, CountAgrees
<1>11. LastHolder'
  BY <1>1, <1>3, <1>4 DEF MapInv, LastHolder
<1>12. QED
  BY <1>7, <1>8, <1>9, <1>10, <1>11 DEF MapInv

(* What the connection's goroutines leave alone.                             *)
LEMMA GoroutineLeaves ==
    ASSUME MapInv, GoroutineStep
    PROVE  /\ UNCHANGED <<maps, pc, handle, unreset, history>> /\ callback \subseteq callback'
           /\ \A g \in Connectors : at'[g] # 0 => at'[g] \in DOMAIN name
           /\ \A i \in Iterators : todo'[i] \subseteq DOMAIN name
           /\ \A u \in Users : awaited'[u] \in {awaited[u], "none"}
<1>1. /\ Mapped \subseteq DOMAIN name /\ TypeOK
      /\ \A g \in Connectors : at[g] # 0 => at[g] \in DOMAIN name
      /\ \A i \in Iterators : todo[i] \subseteq DOMAIN name
      /\ awaited \in [Users -> {"none", "subscribed", "unsubscribed"}]
      /\ {todo, seen} \subseteq [Iterators -> SUBSET Objects]
      /\ at \in [Connectors -> Objects \cup {0}]
  BY NameOK DEF MapInv, Named, TypeOK, UsersOK, IterationsOK
<1>2. ASSUME NEW k \in Sockets,
             ReadFails(k) \/ CloseEnds(k) \/ Leave(k) \/ \E o \in Objects : SetPendingSubscribe(k, o)
      PROVE  /\ UNCHANGED <<maps, users, history, callback, at>>
             /\ \A i \in Iterators : todo'[i] \subseteq DOMAIN name
  BY <1>1, <1>2 DEF ReadFails, CloseEnds, Leave, SetPendingSubscribe, objects, StartIteration,
     EndIteration, Visit, Put
<1>3. ASSUME NEW g \in Connectors,
             Connect(g) \/ ConnectReturns(g) \/ \E o \in Objects : Skip(g, o) \/ Resubscribe(g, o)
      PROVE  /\ UNCHANGED <<maps, users, history, callback>>
             /\ \A h \in Connectors : at'[h] # 0 => at'[h] \in DOMAIN name
             /\ \A i \in Iterators : todo'[i] \subseteq DOMAIN name
  <2>1. \A o : Visit(g, o) => o \in DOMAIN name
    BY <1>1 DEF Visit, InReach, Iterators
  <2>2. QED
    BY <1>1, <1>3, <2>1 DEF Connect, ConnectReturns, Skip, Resubscribe, objects, StartIteration,
       EndIteration, Visit, Put
<1>4. ASSUME NEW g \in Connectors, ResubscribeSends(g)
      PROVE  /\ UNCHANGED <<maps, pc, handle, unreset, history, todo>>
             /\ callback \subseteq callback'
             /\ \A h \in Connectors : at'[h] # 0 => at'[h] \in DOMAIN name
             /\ \A u \in Users : awaited'[u] \in {awaited[u], "none"}
  BY <1>1, <1>4 DEF ResubscribeSends, Put
<1>5. Lose => UNCHANGED <<maps, users, history, callback, at, todo>>
  BY DEF Lose, objects, iterate
<1>6. QED
  BY <1>1, <1>2, <1>3, <1>4, <1>5 DEF GoroutineStep, users

LEMMA ChannelStepMaps ==
    ASSUME MapInv, ChannelStep
    PROVE  /\ MapInv' /\ UNCHANGED <<maps, handle, dropped, disputed, unreset>>
           /\ \A v \in Users : pc'[v] = pc[v] \/ (Idle(v) /\ Idle(v)')
<1>1. TypeOK'
  BY CallTypes, DispatchTypes, LoopTypes DEF ChannelStep, MapInv
<1>2. /\ pc \in [Users -> {"idle", "wait", "hasCallback", "reset", "delete", "resetting"}]
      /\ awaited \in [Users -> {"none", "subscribed", "unsubscribed"}]
      /\ AwaitsInWait
  BY DEF MapInv, TypeOK, UsersOK
<1>3. ASSUME NEW u \in Users, GiveUp(u) \/ Subscribe(u) \/ Unsubscribe(u)
      PROVE  /\ UNCHANGED <<maps, handle, dropped, disputed, unreset, at, todo>> /\ AwaitsInWait'
             /\ \A v \in Users : pc'[v] = pc[v] \/ (Idle(v) /\ Idle(v)')
  <2>1. UNCHANGED <<maps, handle, dropped, disputed, unreset, at, todo>>
    BY <1>3 DEF GiveUp, Subscribe, Unsubscribe, iterate, history
  <2>2. \/ UNCHANGED <<pc, awaited>>
        \/ GiveUp(u)
        \/ pc[u] = "idle" /\ \E kind : Await(u, kind)
    BY <1>3 DEF Subscribe, Unsubscribe, Call
  <2>3. QED
    BY <1>2, <2>1, <2>2 DEF GiveUp, Await, Move, Goto, Put, AwaitsInWait, Idle
<1>4. ASSUME NEW k \in Sockets, Dispatch(k)
      PROVE  /\ UNCHANGED <<maps, handle, dropped, disputed, unreset, at, todo>> /\ AwaitsInWait'
             /\ \A v \in Users : pc'[v] = pc[v] \/ (Idle(v) /\ Idle(v)')
  <2>1. Head(answers[k])[1] # "none"
    BY <1>4, DispatchTypes DEF MapInv
  <2>2. UNCHANGED <<maps, handle, dropped, disputed, unreset, at, todo>>
    BY <1>4 DEF Dispatch, iterate
  <2>3. \A v \in Users : \/ pc'[v] = pc[v] /\ awaited'[v] = awaited[v]
                         \/ awaited[v] # "none" /\ pc'[v] = "idle" /\ awaited'[v] = "none"
    BY <1>4, <2>1 DEF Dispatch
  <2>4. QED
    BY <1>2, <2>2, <2>3 DEF AwaitsInWait, Idle
<1>5. CASE \E u \in Users : GiveUp(u) \/ Subscribe(u) \/ Unsubscribe(u)
  BY <1>1, <1>3, <1>5, MapsKept DEF MapInv, Named, maps
<1>6. CASE \E k \in Sockets : Dispatch(k)
  BY <1>1, <1>4, <1>6, MapsKept DEF MapInv, Named, maps
<1>7. CASE GoroutineStep
  <2>1. AwaitsInWait'
    BY <1>2, <1>7, GoroutineLeaves DEF AwaitsInWait
  <2>2. QED
    BY <1>1, <1>7, <2>1, GoroutineLeaves, MapsKept DEF history
<1>8. QED
  BY <1>5, <1>6, <1>7 DEF ChannelStep

(* What every call of the manager does to the labels.                        *)
LEMMA Labels ==
    ASSUME MapInv, NEW u \in Users, ManagerStep(u)
    PROVE  /\ \A v \in Users : v # u => pc'[v] = pc[v] /\ Idle(v)
           /\ OneManages' /\ AwaitsInWait' /\ UNCHANGED at
           /\ (pc[u] = "idle" /\ Serial(u)) \/ pc[u] \notin {"idle", "wait"}
<1>1. pc \in [Users -> {"idle", "wait", "hasCallback", "reset", "delete", "resetting"}]
  BY DEF MapInv, TypeOK, UsersOK
<1>2. /\ \A v \in Users : v # u => pc'[v] = pc[v]
      /\ awaited' = awaited /\ at' = at
      /\ (pc[u] = "idle" /\ Serial(u)) \/ pc[u] \notin {"idle", "wait"}
  BY <1>1 DEF ManagerStep, ReleaseStep, ReleaseLooks, ReleaseKeeps, ReleaseDrops, ReleaseResets,
     ReleaseDeletes, ResetStep, ResetMaps, ResetsChannel, Release, Reset, Get, Remove, Move, Goto,
     Serial, users, iterate
<1>3. \A v \in Users : v # u => Idle(v)
  BY <1>2, OthersIdle DEF Idle
<1>4. OneManages'
  BY <1>2, <1>3 DEF OneManages, Idle
<1>5. awaited[u] = "none"
  BY <1>2 DEF MapInv, AwaitsInWait
<1>6. AwaitsInWait'
  BY <1>2, <1>5 DEF MapInv, AwaitsInWait
<1>7. QED
  BY <1>2, <1>3, <1>4, <1>6

(* The counts of all names but one stay true.                                *)
LEMMA OneCount ==
    ASSUME CountsAgree, NEW n \in Names, disputed \subseteq disputed',
           \A m \in Names \ {n} : /\ channels'[m] = channels[m] /\ refCounts'[m] = refCounts[m]
                                  /\ Holders(m)' = Holders(m),
           CountAgrees(n)'
    PROVE  CountsAgree'
<1>1. \A m \in Names \ {n} : CountAgrees(m)'
  BY DEF CountsAgree, CountAgrees
<1>2. QED
  BY <1>1 DEF CountsAgree

LEMMA GetMaps ==
    ASSUME MapInv, NEW u \in Users, NEW n \in Names, Get(u, n), ManagerStep(u)
    PROVE  /\ MapInv'
           /\ handle'[u] = channels'[n] /\ Mapped \subseteq Mapped'
           /\ refCounts'[n] # 0
           /\ \A m \in Names \ {n} :
                 channels'[m] = channels[m] /\ refCounts'[m] = refCounts[m]
<1>1. /\ TypeOK' /\ TypeOK
      /\ handle \in [Users -> Objects \cup {0}] /\ refCounts \in [Names -> Nat]
      /\ channels \in [Names -> Objects \cup {0}]
  BY ManagerTypes DEF MapInv, TypeOK, UsersOK, MapsOK
<1>2. /\ Serial(u) /\ ~Holds(u) /\ UNCHANGED <<pc, dropped, disputed, todo>>
      /\ refCounts' = Put(refCounts, n, refCounts[n] + 1)
      /\ handle' = Put(handle, u, channels'[n])
  BY DEF Get, history, iterate
<1>3. ~Resetting /\ ~Resetting'
  BY <1>2, NotResetting DEF Resetting
<1>4. /\ DOMAIN name \subseteq DOMAIN name' /\ (\A o \in DOMAIN name : name'[o] = name[o])
      /\ channels'[n] \in DOMAIN name' /\ name'[channels'[n]] = n /\ channels'[n] # 0
      /\ channels'[n] \notin dropped
      /\ \A m \in Names \ {n} : channels'[m] = channels[m]
      /\ \A o \in DOMAIN name : channels[name[o]] = o => channels'[name[o]] = o
      /\ channels[n] = 0 => channels'[n] \notin DOMAIN name
  <2>1. CASE channels[n] # 0
    <3>1. channels' = channels /\ name' = name
      BY <2>1 DEF Get
    <3>2. channels[n] \in Mapped
      BY <2>1 DEF MapInv, Named, Mapped
    <3>3. channels[n] \notin dropped
      <4>1. Mapped \cap dropped = {}
        BY <1>3, Zenon DEF MapInv, DroppedIsGone
      <4>2. QED
        BY <3>2, <4>1
    <3>4. QED
      BY <2>1, <3>1, <3>3 DEF MapInv, Named
  <2>2. CASE channels[n] = 0
    <3>1. Len(name) < MaxChannels /\ name' = Append(name, n)
          /\ channels' = Put(channels, n, Len(name'))
      BY <2>2 DEF Get
    <3>2. /\ DOMAIN name' = DOMAIN name \cup {Len(name')}
          /\ Len(name') \in Objects \ DOMAIN name
          /\ name'[Len(name')] = n /\ channels'[n] = Len(name')
          /\ \A o \in DOMAIN name : name'[o] = name[o]
          /\ \A m \in Names \ {n} : channels'[m] = channels[m]
      BY <1>1, <3>1, Created DEF TypeOK
    <3>3. dropped \subseteq DOMAIN name
      BY DEF MapInv, Named
    <3>4. (\A o \in DOMAIN name : name[o] \in Names /\ o # 0) /\ 0 \notin Objects
      BY <1>1, NameOK, NamesUsed DEF TypeOK, Objects
    <3>5. ASSUME NEW o \in DOMAIN name, channels[name[o]] = o
          PROVE  channels'[name[o]] = o
      <4>1. name[o] \in Names \ {n}
        BY <2>2, <3>4, <3>5, Zenon
      <4>2. QED
        BY <3>2, <3>5, <4>1, Zenon
    <3>6. channels'[n] \in DOMAIN name' /\ name'[channels'[n]] = n
      BY <3>2, Zenon
    <3>7. channels'[n] # 0 /\ channels'[n] \notin DOMAIN name
      BY <3>2, <3>4, Zenon
    <3>8. DOMAIN name \subseteq DOMAIN name' /\ channels'[n] \notin dropped
      BY <3>2, <3>3, <3>7, Zenon
    <3>9. QED
      BY <3>2, <3>5, <3>6, <3>7, <3>8, Zenon
  <2>3. QED
    BY <2>1, <2>2
<1>5. \A v \in Users \ {u} : handle'[v] = handle[v] /\ (Holds(v)' <=> Holds(v))
  BY <1>1, <1>2 DEF Put, Holds
<1>6. handle'[u] = channels'[n] /\ Holds(u)'
  BY <1>1, <1>2, <1>4 DEF Put, Holds
<1>7. Mapped \subseteq Mapped' /\ channels'[n] \in Mapped'
  BY <1>4 DEF Mapped
<1>8. Named'
  BY <1>2, <1>4, <1>5, <1>6, Labels DEF MapInv, Named
<1>9. HandlesMapped' /\ DroppedFirst'
  BY <1>2, <1>5, <1>6, <1>7 DEF MapInv, HandlesMapped, DroppedFirst
<1>10. DroppedIsGone'
  <2>1. Mapped' \subseteq Mapped \cup {channels'[n]}
    <3>1. SUFFICES ASSUME NEW o \in DOMAIN name', channels'[name'[o]] = o, o # channels'[n]
                   PROVE  o \in Mapped
      BY DEF Mapped
    <3>2. name'[o] \in Names \ {n} /\ o # 0
      <4>1. name' \in Seq(Names)
        BY <1>1 DEF TypeOK, MapsOK
      <4>2. name'[o] \in Names
        BY <3>1, <4>1, LenProperties, ElementOfSeq
      <4>3. o # 0
        BY <3>1, <4>1, LenProperties
      <4>4. QED
        BY <3>1, <4>2, <4>3
    <3>3. channels[name'[o]] = o
      BY <1>4, <3>1, <3>2
    <3>4. QED
      BY <3>2, <3>3 DEF MapInv, Named, Mapped
  <2>2. QED
    BY <1>2, <1>3, <1>4, <2>1 DEF MapInv, DroppedIsGone
<1>11. refCounts'[n] = refCounts[n] + 1 /\ \A m \in Names \ {n} : refCounts'[m] = refCounts[m]
  BY <1>1, <1>2 DEF Put
<1>12. CountsAgree'
  <2>1. u \notin Holders(n) /\ \A m \in Names : u \notin Holders(m) \/ channels[m] \in dropped
    BY <1>2, <1>3, NotResetting, OwnName DEF Holders, Holds, MapInv, DroppedIsGone
  <2>2. \A m \in Names : channels[m] \notin dropped
    <3>1. \A m \in Names : channels[m] # 0 => channels[m] \in Mapped
      BY DEF MapInv, Named, Mapped
    <3>2. 0 \notin dropped
      BY <1>1, NameOK DEF TypeOK, MapInv, Named
    <3>3. QED
      BY <1>3, <3>1, <3>2 DEF MapInv, DroppedIsGone
  <2>3. Holders(n)' = Holders(n) \cup {u}
    <3>1. CASE channels[n] # 0
      <4>1. channels' = channels
        BY <3>1 DEF Get
      <4>2. QED
        BY <1>4, <1>5, <1>6, <4>1 DEF Holders
    <3>2. CASE channels[n] = 0
      <4>1. \A v \in Users \ {u} : handle[v] # channels'[n]
        BY <1>4, <3>2 DEF MapInv, Named
      <4>2. QED
        BY <1>4, <1>5, <1>6, <3>2, <4>1 DEF Holders
    <3>3. QED
      BY <3>1, <3>2
  <2>4. \A m \in Names \ {n} : Holders(m)' = Holders(m)
    <3>1. SUFFICES ASSUME NEW m \in Names \ {n} PROVE Holders(m)' = Holders(m)
      OBVIOUS
    <3>2. channels'[m] # channels'[n]
      BY <1>4, <1>8 DEF Named
    <3>3. u \notin Holders(m) /\ u \notin Holders(m)'
      BY <1>6, <2>1, <2>2, <3>2 DEF Holders
    <3>4. QED
      BY <1>4, <1>5, <3>3 DEF Holders
  <2>5. /\ Cardinality(Holders(n)') = Cardinality(Holders(n)) + 1
        /\ Cardinality(Holders(n)) \in Nat
    BY <2>1, <2>3, HoldersFinite, FS_AddElement
  <2>6. CountAgrees(n)'
    <3>1. channels'[n] \notin disputed => channels[n] \notin disputed
      BY <1>1, <1>4 DEF Get, TypeOK, ObjectsOK, Objects
    <3>2. CountAgrees(n) /\ refCounts[n] \in Nat
      BY <1>1 DEF MapInv, CountsAgree
    <3>3. refCounts'[n] <= Cardinality(Holders(n)')
      BY <1>11, <2>5, <3>2 DEF CountAgrees
    <3>4. channels'[n] \notin disputed' => refCounts'[n] = Cardinality(Holders(n)')
      BY <1>2, <1>11, <2>5, <3>1, <3>2 DEF CountAgrees
    <3>5. QED
      BY <3>3, <3>4 DEF CountAgrees
  <2>7. QED
    BY <1>2, <1>4, <1>11, <2>4, <2>6, OneCount DEF MapInv
<1>13. LastHolder'
  <2>1. \A v \in Users : pc[v] \in {"idle", "wait"}
    BY <1>2 DEF Serial
  <2>2. QED
    BY <1>2, <2>1 DEF LastHolder, Releasing
<1>14. refCounts'[n] # 0
  BY <1>1, <1>11
<1>15. QED
  BY <1>1, <1>4, <1>6, <1>7, <1>8, <1>9, <1>10, <1>11, <1>12, <1>13, <1>14, Labels DEF MapInv

(* A user lets its handle go.                                                *)
LEMMA LetGoHolders ==
    ASSUME MapInv, NEW u \in Users, LetGo(u), UNCHANGED name
    PROVE  /\ handle'[u] = 0 /\ \A v \in Users \ {u} : handle'[v] = handle[v]
           /\ \A m \in Names : /\ channels'[m] = channels[m] => Holders(m)' = Holders(m) \ {u}
                               /\ channels'[m] = 0 => Holders(m)' = {}
<1>1. handle \in [Users -> Objects \cup {0}]
  BY DEF MapInv, TypeOK, UsersOK
<1>2. handle'[u] = 0 /\ \A v \in Users \ {u} : handle'[v] = handle[v]
  BY <1>1 DEF LetGo, Put
<1>3. QED
  BY <1>2 DEF Holders

(* It is outside the manager then, and the object of that name stays in the  *)
(* map, or goes, if nobody else holds it or it is disputed.                  *)
LEMMA LetGoMaps ==
    ASSUME MapInv, NEW u \in Users, NEW n \in Names, n = Held(u), ManagerStep(u), LetGo(u), pc'[u] = "idle", ~Resetting,
           handle[u] # 0, UNCHANGED <<name, dropped, todo>>,
           disputed \subseteq disputed', disputed' \subseteq DOMAIN name, DroppedFirst',
           \A m \in Names \ {n} : channels'[m] = channels[m] /\ refCounts'[m] = refCounts[m],
           \/ channels'[n] = channels[n]
           \/ channels'[n] = 0 /\ (Holders(n) \subseteq {u} \/ channels[n] \in disputed),
           CountAgrees(n)'
    PROVE  MapInv'
<1>1. TypeOK' /\ TypeOK
  BY ManagerTypes DEF MapInv
<1>2. /\ handle'[u] = 0 /\ \A v \in Users \ {u} : handle'[v] = handle[v]
      /\ \A m \in Names : channels'[m] = channels[m] => Holders(m)' = Holders(m) \ {u}
  BY LetGoHolders
<1>3. \A v \in Users : Idle(v)'
  BY Labels DEF Idle
<1>4. ~Resetting'
  BY <1>3 DEF Resetting, Idle
<1>5. /\ \A m \in Names : channels'[m] \in {channels[m], 0}
      /\ name' = name /\ dropped' = dropped
  OBVIOUS
<1>6. Named'
  <2>1. \A m \in Names : channels'[m] # 0 => channels'[m] \in DOMAIN name /\ name[channels'[m]] = m
    BY <1>5 DEF MapInv, Named
  <2>2. \A v \in Users : handle'[v] # 0 => handle'[v] \in DOMAIN name
    BY <1>2 DEF MapInv, Named
  <2>3. at' = at
    BY Labels
  <2>4. QED
    BY <1>5, <2>1, <2>2, <2>3 DEF MapInv, Named
<1>7. Mapped' \subseteq Mapped
  <2>1. \A o \in DOMAIN name : name[o] \in Names /\ o # 0
    BY <1>1, NameOK DEF TypeOK
  <2>2. QED
    BY <1>5, <2>1 DEF Mapped
<1>8. DroppedIsGone'
  BY <1>4, <1>5, <1>7 DEF MapInv, DroppedIsGone
<1>9. HandlesMapped'
  <2>1. ASSUME NEW v \in Users, Holds(v)' PROVE handle'[v] \in Mapped' \cup disputed'
    <3>1. v # u /\ handle'[v] = handle[v] /\ Holds(v) /\ handle[v] # 0
      BY <1>2, <1>5, <2>1 DEF Holds
    <3>2. CASE handle[v] \in disputed
      BY <3>1, <3>2
    <3>3. CASE handle[v] \in Mapped \ disputed
      <4>1. channels[Held(v)] = handle[v] /\ v \in Holders(Held(v)) /\ Held(v) \in Names
        BY <3>1, <3>3, OwnName
      <4>2. channels'[Held(v)] = channels[Held(v)]
        BY <3>1, <3>3, <4>1
      <4>3. handle[v] \in DOMAIN name
        BY <3>1 DEF MapInv, Named
      <4>4. QED
        BY <1>5, <3>1, <4>1, <4>2, <4>3 DEF Mapped, Held
    <3>4. QED
      BY <3>1, <3>2, <3>3 DEF MapInv, HandlesMapped
  <2>2. QED
    BY <2>1 DEF HandlesMapped
<1>10. CountsAgree'
  <2>1. \A m \in Names \ {n} : u \notin Holders(m)
    BY OwnName
  <2>2. \A m \in Names \ {n} : Holders(m)' = Holders(m)
    BY <1>2, <2>1
  <2>3. QED
    BY <2>1, <2>2, OneCount DEF MapInv
<1>11. LastHolder'
  BY <1>3 DEF LastHolder, Releasing, Idle
<1>12. QED
  BY <1>1, <1>6, <1>8, <1>9, <1>10, <1>11, Labels DEF MapInv

(* What a Release disputes is an object that its caller did not get.         *)
LEMMA Disputes ==
    ASSUME MapInv, NEW u \in Users, Release(u), refCounts[Held(u)] # 0
    PROVE  /\ channels[Held(u)] # 0 /\ channels[Held(u)] \in DOMAIN name
           /\ disputed \subseteq disputed' /\ disputed' \subseteq DOMAIN name
           /\ disputed' = disputed \/ disputed' = disputed \cup {channels[Held(u)]}
           /\ channels[Held(u)] = handle[u] => disputed' = disputed
           /\ channels[Held(u)] # handle[u] => channels[Held(u)] \in disputed'
           /\ disputed' # {} => dropped # {}
<1>1. handle[u] # 0 /\ Dispute(u)
  BY DEF Release
<1>2. Held(u) \in Names /\ channels[Held(u)] # 0
  BY <1>1, OwnName, CountedIsMapped
<1>3. channels[Held(u)] \in DOMAIN name /\ disputed \subseteq DOMAIN name
  BY <1>2 DEF MapInv, Named
<1>4. channels[Held(u)] # handle[u] => dropped # {}
  BY <1>1, OwnName DEF MapInv, HandlesMapped, Holds, DroppedFirst
<1>5. QED
  BY <1>1, <1>2, <1>3, <1>4 DEF Dispute, MapInv, DroppedFirst

LEMMA ReleaseMaps ==
    ASSUME MapInv, NEW u \in Users, Release(u)
    PROVE  MapInv'
<1>1. /\ handle \in [Users -> Objects \cup {0}] /\ refCounts \in [Names -> Nat]
      /\ pc \in [Users -> {"idle", "wait", "hasCallback", "reset", "delete", "resetting"}]
  BY DEF MapInv, TypeOK, UsersOK, MapsOK
<1>2. /\ ManagerStep(u) /\ UNCHANGED <<channels, name, dropped, at, todo>>
      /\ Serial(u) /\ pc[u] = "idle" /\ handle[u] # 0
  BY DEF ManagerStep, Release, iterate, Serial
<1>3. ~Resetting
  BY <1>2, NotResetting
<1>. PICK n \in Names : n = Held(u)
  BY <1>2, OwnName
<1>4. /\ n \in Names /\ CountAgrees(n) /\ refCounts[n] \in Nat
      /\ IsFiniteSet(Holders(n)) /\ Cardinality(Holders(n)) \in Nat
      /\ u \in Holders(n) <=> channels[n] = handle[u]
  BY <1>1, <1>2, OwnName, HoldersFinite DEF MapInv, CountsAgree
<1>5. LetGo(u) => Holders(n)' = Holders(n) \ {u}
  BY <1>2, <1>4, LetGoHolders
<1>6. CASE LetGo(u) /\ refCounts[n] = 0 /\ UNCHANGED <<refCounts, pc, disputed>>
  <2>1. CountAgrees(n)'
    <3>1. Cardinality(Holders(n)') \in Nat
      BY <1>4, <1>5, <1>6, FS_Subset, FS_CardinalityType
    <3>2. channels[n] \notin disputed => Holders(n) = {}
      BY <1>4, <1>6, CountedIsMapped
    <3>3. channels[n] \notin disputed => Cardinality(Holders(n)') = 0
      BY <1>5, <1>6, <3>2, FS_EmptySet
    <3>4. QED
      BY <1>2, <1>6, <3>1, <3>3 DEF CountAgrees
  <2>2. DroppedFirst' /\ disputed' = disputed /\ disputed \subseteq DOMAIN name
    BY <1>2, <1>6 DEF MapInv, DroppedFirst, Named
  <2>3. QED
    BY <1>2, <1>3, <1>6, <2>1, <2>2, LetGoMaps
<1>7. CASE /\ LetGo(u) /\ UNCHANGED pc /\ refCounts[n] > 1
           /\ refCounts' = Put(refCounts, n, refCounts[n] - 1)
  <2>1. /\ refCounts'[n] = refCounts[n] - 1
        /\ \A m \in Names \ {n} : refCounts'[m] = refCounts[m]
    BY <1>1, <1>4, <1>7 DEF Put
  <2>2. refCounts[n] # 0
    BY <1>7
  <2>3. /\ disputed \subseteq disputed' /\ disputed' \subseteq DOMAIN name
        /\ channels[n] = handle[u] => disputed' = disputed
        /\ channels[n] # handle[u] => channels[n] \in disputed'
        /\ DroppedFirst'
    BY <1>2, <2>2, Disputes DEF DroppedFirst
  <2>4. CountAgrees(n)'
    <3>1. CASE channels[n] = handle[u]
      <4>1. Cardinality(Holders(n)') = Cardinality(Holders(n)) - 1
        BY <1>4, <1>5, <1>7, <3>1, FS_RemoveElement
      <4>2. refCounts'[n] <= Cardinality(Holders(n)')
        BY <1>4, <2>1, <4>1 DEF CountAgrees
      <4>3. channels'[n] \notin disputed' => refCounts'[n] = Cardinality(Holders(n)')
        BY <1>2, <1>4, <2>1, <2>3, <3>1, <4>1 DEF CountAgrees
      <4>4. QED
        BY <4>2, <4>3 DEF CountAgrees
    <3>2. CASE channels[n] # handle[u]
      <4>1. Holders(n)' = Holders(n)
        BY <1>4, <1>5, <1>7, <3>2
      <4>2. refCounts'[n] <= Cardinality(Holders(n)')
        BY <1>4, <2>1, <4>1 DEF CountAgrees
      <4>3. QED
        BY <1>2, <2>3, <3>2, <4>2 DEF CountAgrees
    <3>3. QED
      BY <3>1, <3>2
  <2>5. QED
    BY <1>2, <1>3, <1>7, <2>1, <2>3, <2>4, LetGoMaps
<1>8. CASE refCounts[n] = 1 /\ Goto(u, "hasCallback") /\ UNCHANGED <<refCounts, handle>>
  <2>1. TypeOK'
    BY <1>2, ManagerTypes DEF MapInv
  <2>2. /\ UNCHANGED <<channels, refCounts, name, handle, dropped, at>>
        /\ pc'[u] = "hasCallback" /\ \A v \in Users : v # u => pc'[v] = pc[v]
    BY <1>1, <1>2, <1>8 DEF Goto
  <2>3. \A v \in Users : pc[v] \in {"idle", "wait"}
    BY <1>2 DEF Serial
  <2>4. ~Resetting'
    BY <2>2, <2>3 DEF Resetting
  <2>5. /\ disputed \subseteq disputed' /\ disputed' \subseteq DOMAIN name
        /\ channels[n] = handle[u] \/ channels[n] \in disputed'
        /\ DroppedFirst'
    BY <1>2, <1>8, Disputes DEF DroppedFirst
  <2>6. Named' /\ HandlesMapped'
    BY <1>2, <2>2, <2>5 DEF MapInv, Named, HandlesMapped, Holds, Mapped
  <2>7. DroppedIsGone' /\ CountsAgree'
    <3>1. \A m \in Names : Holders(m)' = Holders(m)
      BY <2>2 DEF Holders
    <3>2. CountsAgree'
      BY <2>2, <2>5, <3>1 DEF MapInv, CountsAgree, CountAgrees
    <3>3. DroppedIsGone'
      BY <1>3, <2>2, <2>4 DEF MapInv, DroppedIsGone, Mapped
    <3>4. QED
      BY <3>2, <3>3
  <2>8. LastHolder'
    BY <1>2, <1>8, <2>2, <2>3, <2>5 DEF LastHolder, Releasing, Held
  <2>9. QED
    BY <1>2, <2>1, <2>5, <2>6, <2>7, <2>8, Labels DEF MapInv
<1>9. QED
  BY <1>6, <1>7, <1>8 DEF Release

(* The end of a Release: the count was 1.                                    *)
LEMMA ReleaseStepMaps ==
    ASSUME MapInv, NEW u \in Users, ReleaseStep(u)
    PROVE  /\ MapInv' /\ Releasing(u) /\ handle[u] # 0 /\ ~Resetting
           /\ \/ channels[Held(u)] \in disputed
              \/ channels[Held(u)] = handle[u] /\ Holders(Held(u)) = {u}
<1>1. /\ handle \in [Users -> Objects \cup {0}] /\ refCounts \in [Names -> Nat]
      /\ channels \in [Names -> Objects \cup {0}]
      /\ pc \in [Users -> {"idle", "wait", "hasCallback", "reset", "delete", "resetting"}]
      /\ disputed \subseteq Objects /\ 0 \notin Objects
  BY DEF MapInv, TypeOK, UsersOK, MapsOK, ObjectsOK, Objects
<1>2. ManagerStep(u) /\ UNCHANGED <<name, dropped, disputed, todo>> /\ Releasing(u)
  BY DEF ManagerStep, ReleaseStep, ReleaseLooks, ReleaseKeeps, ReleaseDrops, ReleaseResets,
     ReleaseDeletes, Move, Releasing, maps, history, iterate
<1>3. /\ handle[u] # 0 /\ refCounts[Held(u)] = 1 /\ ~Resetting
      /\ channels[Held(u)] = handle[u] \/ channels[Held(u)] \in disputed
  BY <1>2, NotResetting DEF MapInv, LastHolder
<1> PICK n \in Names : n = Held(u)
  BY <1>3, OwnName
<1>4. channels[n] \in disputed \/ (channels[n] = handle[u] /\ Holders(n) = {u})
  BY <1>3, SoleHolder
<1>5. /\ DroppedFirst' /\ disputed' = disputed /\ disputed \subseteq DOMAIN name
      /\ name' = name /\ CountAgrees(n)
      /\ IsFiniteSet(Holders(n))
  BY <1>2, HoldersFinite DEF MapInv, DroppedFirst, Named, CountsAgree
<1>6. CASE ReleaseKeeps(u)
  <2>1. /\ LetGo(u) /\ pc'[u] = "idle" /\ UNCHANGED channels
        /\ refCounts'[n] = 0
        /\ \A m \in Names \ {n} : refCounts'[m] = refCounts[m]
    BY <1>1, <1>6 DEF ReleaseKeeps, Put, Move, Goto
  <2>2. Holders(n)' = Holders(n) \ {u}
    BY <1>5, <2>1, LetGoHolders
  <2>3. Cardinality(Holders(n)') \in Nat
    BY <1>5, <2>2, FS_Subset, FS_CardinalityType
  <2>4. channels[n] \notin disputed => Cardinality(Holders(n)') = 0
    BY <1>4, <2>2, FS_EmptySet
  <2>5. CountAgrees(n)'
    BY <1>5, <2>1, <2>3, <2>4 DEF CountAgrees
  <2>6. QED
    BY <1>2, <1>3, <1>4, <1>5, <2>1, <2>5, LetGoMaps
<1>7. CASE ReleaseDeletes(u)
  <2>1. /\ LetGo(u) /\ pc'[u] = "idle"
        /\ refCounts'[n] = 0 /\ channels'[n] = 0
        /\ \A m \in Names \ {n} : refCounts'[m] = refCounts[m] /\ channels'[m] = channels[m]
    BY <1>1, <1>7 DEF ReleaseDeletes, Put, Move, Goto
  <2>2. Holders(n)' = {}
    BY <1>5, <2>1, LetGoHolders
  <2>3. Cardinality(Holders(n)') = 0
    BY <2>2, FS_EmptySet
  <2>4. CountAgrees(n)'
    BY <2>1, <2>3 DEF CountAgrees
  <2>5. Holders(n) \subseteq {u} \/ channels[n] \in disputed
    BY <1>4
  <2>6. QED
    BY <1>2, <1>3, <1>4, <1>5, <2>1, <2>4, <2>5, LetGoMaps
<1>8. CASE ReleaseDrops(u) \/ ReleaseResets(u)
  <2>1. UNCHANGED <<maps, handle, dropped, disputed, at, todo>>
    BY <1>8 DEF ReleaseDrops, ReleaseResets, iterate, history
  <2>2. TypeOK'
    BY <1>2, ManagerTypes DEF MapInv
  <2>3. \A v \in Users : pc'[v] = pc[v] \/ (Releasing(v) /\ Releasing(v)')
    BY <1>1, <1>8 DEF ReleaseDrops, ReleaseResets, Move, Goto, Releasing
  <2>4. /\ \A g \in Connectors : at'[g] # 0 => at'[g] \in DOMAIN name
        /\ \A i \in Iterators : todo'[i] \subseteq DOMAIN name
    BY <2>1 DEF MapInv, Named
  <2>5. AwaitsInWait'
    BY <1>2, Labels
  <2>6. MapInv'
    BY <2>1, <2>2, <2>3, <2>4, <2>5, MapsKept DEF maps
  <2>7. QED
    BY <1>2, <1>3, <1>4, <2>6
<1>9. QED
  BY <1>2, <1>3, <1>4, <1>6, <1>7, <1>8 DEF ReleaseStep, ReleaseLooks

LEMMA RemoveMaps ==
    ASSUME MapInv, NEW u \in Users, NEW n \in Names, Remove(u, n), ManagerStep(u)
    PROVE  /\ MapInv'
           /\ channels'[n] = 0 /\ \A m \in Names \ {n} : channels'[m] = channels[m]
<1>1. /\ TypeOK' /\ TypeOK
      /\ channels \in [Names -> Objects \cup {0}] /\ refCounts \in [Names -> Nat]
  BY ManagerTypes DEF MapInv, TypeOK, MapsOK
<1>2. /\ Serial(u) /\ UNCHANGED <<name, pc, handle, at, todo, disputed>> /\ channels[n] # 0
      /\ channels'[n] = 0 /\ refCounts'[n] = 0 /\ dropped' = dropped \cup {channels[n]}
      /\ \A m \in Names \ {n} : channels'[m] = channels[m] /\ refCounts'[m] = refCounts[m]
  BY <1>1 DEF Remove, Put, users, iterate
<1>3. ~Resetting /\ ~Resetting'
  BY <1>2, NotResetting DEF Resetting
<1>4. channels[n] \in DOMAIN name /\ name[channels[n]] = n
  BY <1>2 DEF MapInv, Named
<1>5. Named' /\ DroppedFirst'
  BY <1>2, <1>4 DEF MapInv, Named, DroppedFirst
<1>6. \A o \in Mapped : o # channels[n] => o \in Mapped'
  <2>1. \A o \in Mapped : name[o] \in Names
    BY <1>1, NameOK DEF TypeOK, Mapped
  <2>2. QED
    BY <1>2, <2>1 DEF Mapped
<1>7. HandlesMapped'
  BY <1>2, <1>6 DEF MapInv, HandlesMapped, Holds
<1>8. Mapped' \subseteq Mapped /\ channels[n] \notin Mapped'
  <2>1. \A o \in DOMAIN name : name[o] \in Names /\ o # 0
    BY <1>1, NameOK DEF TypeOK
  <2>2. QED
    BY <1>2, <1>4, <2>1 DEF Mapped
<1>9. DroppedIsGone'
  BY <1>2, <1>3, <1>8 DEF MapInv, DroppedIsGone
<1>10. CountsAgree'
  <2>1. Holders(n)' = {}
    BY <1>2 DEF Holders
  <2>2. \A m \in Names \ {n} : Holders(m)' = Holders(m)
    BY <1>2 DEF Holders
  <2>3. CountAgrees(n)'
    BY <1>2, <2>1, FS_EmptySet DEF CountAgrees
  <2>4. QED
    BY <1>2, <2>2, <2>3, OneCount DEF MapInv
<1>11. LastHolder'
  BY <1>2 DEF LastHolder, Releasing, Serial
<1>12. QED
  BY <1>1, <1>2, <1>5, <1>7, <1>9, <1>10, <1>11, Labels DEF MapInv

LEMMA ResetMapsStays ==
    ASSUME MapInv, NEW u \in Users, Reset(u)
    PROVE  MapInv' /\ Resetting'
<1>1. ManagerStep(u) /\ TypeOK' /\ TypeOK
  BY ManagerTypes DEF MapInv, ManagerStep
<1>2. /\ Serial(u) /\ UNCHANGED <<channels, refCounts, name, handle, at, todo, disputed>>
      /\ pc' = [pc EXCEPT ![u] = "resetting"] /\ dropped' = dropped \cup Mapped
  BY DEF Reset, Goto, maps, iterate
<1>3. Resetting' /\ \A v \in Users : pc'[v] \in {"idle", "wait", "resetting"}
  BY <1>1, <1>2 DEF Resetting, TypeOK, UsersOK, Serial
<1>4. Mapped' = Mapped /\ Mapped \subseteq DOMAIN name
  BY <1>2 DEF Mapped
<1>5. Named' /\ DroppedFirst'
  BY <1>2, <1>4 DEF MapInv, Named, DroppedFirst
<1>6. HandlesMapped'
  BY <1>2, <1>4 DEF MapInv, HandlesMapped, Holds
<1>7. DroppedIsGone'
  BY <1>2, <1>3, <1>4 DEF DroppedIsGone
<1>8. CountsAgree'
  <2>1. \A n \in Names : Holders(n)' = Holders(n)
    BY <1>2 DEF Holders
  <2>2. QED
    BY <1>2, <2>1 DEF MapInv, CountsAgree, CountAgrees
<1>9. LastHolder'
  BY <1>3 DEF LastHolder, Releasing
<1>10. QED
  BY <1>1, <1>3, <1>5, <1>6, <1>7, <1>8, <1>9, Labels DEF MapInv

LEMMA ResetsChannelMaps ==
    ASSUME MapInv, NEW u \in Users, NEW o \in Objects, ResetsChannel(u, o)
    PROVE  MapInv' /\ Resetting /\ Resetting'
<1>1. ManagerStep(u) /\ UNCHANGED <<maps, pc, handle, dropped, disputed, at, todo>> /\ Resetting
  BY DEF ManagerStep, ResetStep, ResetsChannel, history, iterate, Resetting
<1>2. TypeOK' /\ AwaitsInWait'
  BY <1>1, ManagerTypes, Labels DEF MapInv
<1>3. /\ \A g \in Connectors : at'[g] # 0 => at'[g] \in DOMAIN name
      /\ \A i \in Iterators : todo'[i] \subseteq DOMAIN name
  BY <1>1 DEF MapInv, Named
<1>4. MapInv' /\ Resetting'
  BY <1>1, <1>2, <1>3, MapsKept DEF maps, Resetting
<1>5. QED
  BY <1>1, <1>4

LEMMA ResetMapsMaps ==
    ASSUME MapInv, NEW u \in Users, ResetMaps(u)
    PROVE  MapInv' /\ Mapped \subseteq dropped /\ ~Resetting'
<1>1. ManagerStep(u) /\ TypeOK' /\ TypeOK
  BY ManagerTypes DEF MapInv, ManagerStep, ResetStep
<1>2. /\ UNCHANGED <<name, handle, dropped, disputed, at>>
      /\ \A n \in Names : channels'[n] = 0 /\ refCounts'[n] = 0
      /\ pc[u] = "resetting" /\ pc'[u] = "idle"
  BY <1>1 DEF ResetMaps, Move, Goto, TypeOK, UsersOK, history
<1>3. Resetting /\ Mapped \subseteq dropped
  BY <1>2 DEF Resetting, MapInv, DroppedIsGone
<1>4. \A v \in Users : Idle(v)'
  BY <1>2, Labels, <1>1 DEF Idle
<1>5. ~Resetting'
  BY <1>4 DEF Resetting, Idle
<1>6. Mapped' = {}
  <2>1. \A o \in DOMAIN name : name[o] \in Names /\ o # 0
    BY <1>1, NameOK DEF TypeOK
  <2>2. QED
    BY <1>2, <2>1 DEF Mapped
<1>7. Named' /\ DroppedFirst'
  <2>1. \A i \in Iterators : todo'[i] \subseteq DOMAIN name
    BY <1>1, NameOK DEF ResetMaps, TypeOK, MapInv, Named
  <2>2. QED
    BY <1>2, <2>1 DEF MapInv, Named, DroppedFirst
<1>8. HandlesMapped'
  BY <1>2, <1>3 DEF MapInv, HandlesMapped, Holds
<1>9. DroppedIsGone'
  BY <1>5, <1>6 DEF DroppedIsGone
<1>10. CountsAgree'
  <2>1. \A n \in Names : Holders(n)' = {}
    BY <1>2 DEF Holders
  <2>2. \A n \in Names : Cardinality(Holders(n)') = 0
    BY <2>1, FS_EmptySet
  <2>3. QED
    BY <1>2, <2>2 DEF CountsAgree, CountAgrees
<1>11. LastHolder'
  BY <1>4 DEF LastHolder, Releasing, Idle
<1>12. QED
  BY <1>1, <1>3, <1>5, <1>7, <1>8, <1>9, <1>10, <1>11, Labels DEF MapInv

LEMMA MapsStep == MapInv /\ [Next]_vars => MapInv'
<1> SUFFICES ASSUME MapInv, [Next]_vars PROVE MapInv'
  OBVIOUS
<1>1. ASSUME NEW u \in Users, ManagerStep(u) PROVE MapInv'
  <2>1. ASSUME NEW n \in Uses[u], Get(u, n) \/ Remove(u, n) PROVE MapInv'
    BY <1>1, <2>1, NamesUsed, GetMaps, RemoveMaps
  <2>2. QED
    BY <1>1, <2>1, ReleaseMaps, ReleaseStepMaps, ResetMapsStays, ResetsChannelMaps, ResetMapsMaps
       DEF ManagerStep, ResetStep
<1>2. CASE ChannelStep
  BY <1>2, ChannelStepMaps
<1>3. CASE UNCHANGED vars
  <2>1. UNCHANGED <<maps, handle, dropped, disputed, at, todo, pc, awaited>>
    BY <1>3 DEF vars, users, history, iterate
  <2>2. TypeOK'
    BY <1>3 DEF vars, maps, objects, socket, iterate, users, history, bounds, MapInv, TypeOK,
       MapsOK, ObjectsOK, IterationsOK, SocketOK, UsersOK, CountersOK
  <2>3. /\ AwaitsInWait'
        /\ \A g \in Connectors : at'[g] # 0 => at'[g] \in DOMAIN name
        /\ \A i \in Iterators : todo'[i] \subseteq DOMAIN name
    BY <2>1 DEF MapInv, AwaitsInWait, Named
  <2>4. QED
    BY <2>1, <2>2, <2>3, MapsKept DEF maps
<1>4. QED
  BY <1>1, <1>2, <1>3, Steps

LEMMA MapsAlways == Spec => []MapInv
<1>1. Init => MapInv
  BY InitInv DEF KeptInv
<1>2. QED
  BY <1>1, MapsStep, PTL DEF Spec

(* All variables of the manager, its channels and its callers keep their     *)
(* types.                                                                    *)
THEOREM ManagerTypesHold == Spec => []TypeOK
<1>1. MapInv => TypeOK
  BY DEF MapInv
<1>2. QED
  BY <1>1, MapsAlways, PTL

(* Whoever holds a channel holds the one that answers are dispatched to, and *)
(* refCounts says how many hold it: no interleaving of Get, Release, Remove  *)
(* and Reset with the connection's goroutines loses or invents a reference,  *)
(* but for a channel that a Release of an earlier one was counted against.   *)
THEOREM CountsAreRight == Spec => []HandlesAreCounted
<1>1. MapInv => HandlesAreCounted
  BY DEF MapInv, HandlesMapped, CountsAgree, CountAgrees, HandlesAreCounted
<1>2. QED
  BY <1>1, MapsAlways, PTL

-----------------------------------------------------------------------------
(* What is wanted, and what is kept *)

(* Who holds an undisputed channel that somebody releases for good is that   *)
(* one.                                                                      *)
LEMMA OneReleases ==
    ASSUME MapInv, NEW u \in Users, Releasing(u), channels[Held(u)] \notin disputed
    PROVE  /\ channels[Held(u)] = handle[u]
           /\ \A v \in Users : handle[v] = handle[u] => u = v
<1>1. handle[u] # 0 /\ refCounts[Held(u)] = 1 /\ channels[Held(u)] = handle[u]
  BY DEF MapInv, LastHolder
<1>2. Holders(Held(u)) = {u}
  BY <1>1, SoleHolder
<1>3. QED
  BY <1>1, <1>2 DEF Holders

(* Calls on a channel, and the connection's goroutines.                      *)
LEMMA ChannelStepKeeps ==
    ASSUME KeptInv, ChannelStep
    PROVE  WantedInv' /\ LetGoUnwanted' /\ KeptForCallback'
<1>1. /\ MapInv /\ MapInv' /\ TypeOK /\ channels' = channels /\ refCounts' = refCounts
      /\ name' = name /\ handle' = handle /\ dropped' = dropped /\ disputed' = disputed
      /\ Mapped' = Mapped /\ 0 \notin Objects /\ wanted \subseteq Objects
      /\ \A v \in Users : Held(v)' = Held(v)
  BY ChannelStepMaps DEF KeptInv, MapInv, TypeOK, ObjectsOK, maps, Mapped, Objects, Held
<1>2. \A v \in Users : ~Idle(v) \/ ~Idle(v)' => pc'[v] = pc[v]
  BY <1>1, ChannelStepMaps
<1>3. Resetting' <=> Resetting
  BY <1>2 DEF Resetting, Idle
<1>4. \A v \in Users : pc'[v] \in {"reset", "delete"} => pc[v] \in {"reset", "delete"}
  BY <1>2 DEF Idle
<1>5. ASSUME UNCHANGED <<wanted, stale>>, callback \subseteq callback'
      PROVE  WantedInv' /\ LetGoUnwanted' /\ KeptForCallback'
  <2>1. wanted' = wanted /\ stale' = stale
    BY <1>5
  <2>2. WantedInv'
    BY <1>1, <1>5, <2>1 DEF KeptInv, WantedInv
  <2>3. LetGoUnwanted'
    BY <1>1, <1>4, <2>1 DEF KeptInv, LetGoUnwanted
  <2>4. KeptForCallback'
    BY <1>1, <1>3, <1>5, <2>1 DEF KeptInv, KeptForCallback
  <2>5. QED
    BY <2>2, <2>3, <2>4
<1>6. ASSUME NEW u \in Users, Subscribe(u) PROVE WantedInv' /\ LetGoUnwanted' /\ KeptForCallback'
  <2>1. /\ handle[u] # 0 /\ pc[u] = "idle" /\ stale' = stale
        /\ callback' = callback \cup {handle[u]} /\ wanted' = wanted \cup ({handle[u]} \ dropped)
    BY <1>6 DEF Subscribe, Call
  <2>2. handle[u] \in Mapped \cup disputed \cup dropped
    BY <1>1, <2>1 DEF MapInv, HandlesMapped, Holds
  <2>3. WantedInv'
    BY <1>1, <2>1, <2>2 DEF KeptInv, WantedInv
  <2>4. LetGoUnwanted'
    <3>1. SUFFICES ASSUME ~stale, NEW v \in Users, pc[v] \in {"reset", "delete"},
                          channels[Held(v)] \notin disputed
                   PROVE  handle[v] \notin wanted'
      BY <1>1, <1>4, <2>1 DEF LetGoUnwanted
    <3>2. handle[v] # handle[u]
      BY <1>1, <2>1, <3>1, OneReleases DEF Releasing
    <3>3. QED
      BY <2>1, <3>1, <3>2 DEF KeptInv, LetGoUnwanted
  <2>5. KeptForCallback'
    BY <1>1, <1>3, <2>1 DEF KeptInv, KeptForCallback
  <2>6. QED
    BY <2>3, <2>4, <2>5
<1>7. ASSUME NEW u \in Users, Unsubscribe(u) PROVE WantedInv' /\ LetGoUnwanted' /\ KeptForCallback'
  <2>1. /\ handle[u] # 0 /\ stale' = stale
        /\ callback \ {handle[u]} \subseteq callback' /\ wanted' = wanted \ ({handle[u]} \ dropped)
    BY <1>7 DEF Unsubscribe, Call
  <2>2. WantedInv'
    BY <1>1, <2>1 DEF KeptInv, WantedInv
  <2>3. LetGoUnwanted'
    BY <1>1, <1>4, <2>1 DEF KeptInv, LetGoUnwanted
  <2>4. \A n \in Names : channels[n] \notin disputed /\ refCounts[n] = 0 => channels[n] # handle[u]
    BY <1>1, <2>1, CountedIsMapped DEF Holders
  <2>5. KeptForCallback'
    BY <1>1, <1>3, <2>1, <2>4 DEF KeptInv, KeptForCallback
  <2>6. QED
    BY <2>2, <2>3, <2>5
<1>8. ASSUME NEW k \in Sockets, Dispatch(k)
      PROVE  WantedInv' /\ LetGoUnwanted' /\ KeptForCallback'
  <2> DEFINE o == channels[Head(answers[k])[2]]
             waiting == {v \in Users : awaited[v] = Head(answers[k])[1] /\ handle[v] = o /\ o # 0}
  <2>1. Head(answers[k])[1] \in {"subscribed", "unsubscribed"}
    BY <1>1, <1>8, DispatchTypes
  <2>2. /\ wanted' = wanted
        /\ \/ callback' = callback
           \/ Head(answers[k])[1] = "unsubscribed" /\ callback' = callback \ {o}
    BY <1>8, <2>1 DEF Dispatch
  <2>3. /\ stale => stale'
        /\ Head(answers[k])[1] = "unsubscribed" /\ o # 0 /\ (waiting = {} \/ o \in wanted) => stale'
    BY <1>8, Zenon DEF Dispatch
  <2>4. ASSUME ~stale', callback' # callback
        PROVE  callback' = callback \ {o} /\ (o # 0 => o \notin wanted /\ waiting # {})
    BY <2>2, <2>3, <2>4
  <2>5. ~stale' => wanted \cap callback \subseteq callback'
    BY <1>1, <2>4
  <2>6. WantedInv'
    BY <1>1, <2>2, <2>3, <2>5 DEF KeptInv, WantedInv
  <2>7. LetGoUnwanted'
    BY <1>1, <1>4, <2>2, <2>3 DEF KeptInv, LetGoUnwanted
  <2>8. ASSUME ~stale', ~Resetting, NEW n \in Names, channels[n] # 0, refCounts[n] = 0,
               channels[n] \notin disputed
        PROVE  channels[n] \in callback'
    <3>1. channels[n] \in callback
      BY <2>3, <2>8 DEF KeptInv, KeptForCallback
    <3>2. \A v \in Users : handle[v] # channels[n]
      BY <1>1, <2>8, CountedIsMapped DEF Holders
    <3>3. callback' # callback => channels[n] # o
      BY <2>4, <2>8, <3>2
    <3>4. QED
      BY <2>2, <3>1, <3>3
  <2>9. KeptForCallback'
    BY <1>1, <1>3, <2>8 DEF KeptForCallback
  <2>10. QED
    BY <2>6, <2>7, <2>9
<1>9. ASSUME NEW u \in Users, GiveUp(u) PROVE UNCHANGED <<wanted, stale, callback>>
  BY <1>9 DEF GiveUp, objects, history
<1>10. CASE GoroutineStep
  BY <1>1, <1>5, <1>10, GoroutineLeaves DEF history
<1>11. QED
  BY <1>5, <1>6, <1>7, <1>8, <1>9, <1>10 DEF ChannelStep

(* The calls of the manager.                                                 *)
LEMMA ManagerStepKeeps ==
    ASSUME KeptInv, NEW u \in Users, ManagerStep(u)
    PROVE  WantedInv' /\ LetGoUnwanted' /\ KeptForCallback'
<1>1. /\ MapInv /\ MapInv' /\ TypeOK /\ TypeOK'
      /\ pc \in [Users -> {"idle", "wait", "hasCallback", "reset", "delete", "resetting"}]
      /\ refCounts \in [Names -> Nat] /\ channels \in [Names -> Objects \cup {0}]
      /\ 0 \notin disputed
  <2>1. [Next]_vars
    BY DEF ManagerStep, Next, UserStep
  <2>2. MapInv /\ MapInv' /\ TypeOK /\ TypeOK'
    BY <2>1, MapsStep DEF KeptInv, MapInv
  <2>3. disputed \subseteq Objects /\ 0 \notin Objects
    BY <2>2 DEF TypeOK, ObjectsOK, Objects
  <2>4. QED
    BY <2>2, <2>3 DEF TypeOK, UsersOK, MapsOK
<1>2. wanted' = wanted /\ stale' = stale
  BY DEF ManagerStep, ReleaseStep, ReleaseLooks, ReleaseKeeps, ReleaseDrops, ReleaseResets,
     ReleaseDeletes, ResetStep, ResetMaps, ResetsChannel, Release, Reset, Get, Remove, history
<1>3. \A v \in Users : v # u => pc'[v] = pc[v] /\ Idle(v)
  BY <1>1, Labels
<1>4. ASSUME NEW n \in Names, Get(u, n) PROVE WantedInv' /\ LetGoUnwanted' /\ KeptForCallback'
  <2>1. /\ callback' = callback /\ dropped' = dropped /\ disputed' = disputed
        /\ Serial(u) /\ pc' = pc
    BY <1>4 DEF Get, objects, history
  <2>2. /\ Mapped \subseteq Mapped' /\ refCounts'[n] # 0
        /\ \A m \in Names \ {n} : channels'[m] = channels[m] /\ refCounts'[m] = refCounts[m]
    BY <1>1, <1>4, GetMaps
  <2>3. WantedInv'
    BY <1>2, <2>1, <2>2 DEF KeptInv, WantedInv
  <2>4. LetGoUnwanted'
    BY <2>1 DEF LetGoUnwanted, Serial
  <2>5. KeptForCallback'
    BY <1>1, <1>2, <2>1, <2>2, NotResetting DEF KeptInv, KeptForCallback
  <2>6. QED
    BY <2>3, <2>4, <2>5
<1>5. ASSUME NEW n \in Names, Remove(u, n) PROVE WantedInv' /\ LetGoUnwanted' /\ KeptForCallback'
  <2>1. /\ callback' = callback /\ dropped' = dropped \cup {channels[n]} /\ Serial(u)
        /\ pc' = pc /\ name' = name /\ disputed' = disputed
        /\ \A m \in Names \ {n} : refCounts'[m] = refCounts[m]
    BY <1>1, <1>5 DEF Remove, Put, objects, users
  <2>2. channels'[n] = 0 /\ \A m \in Names \ {n} : channels'[m] = channels[m]
    BY <1>1, <1>5, RemoveMaps
  <2>3. Mapped \ {channels[n]} \subseteq Mapped'
    <3>1. \A o \in Mapped : name[o] \in Names
      BY <1>1, NameOK DEF TypeOK, Mapped
    <3>2. QED
      BY <2>1, <2>2, <3>1 DEF Mapped
  <2>4. WantedInv'
    BY <1>2, <2>1, <2>3 DEF KeptInv, WantedInv
  <2>5. LetGoUnwanted'
    BY <2>1 DEF LetGoUnwanted, Serial
  <2>6. KeptForCallback'
    BY <1>1, <1>2, <2>1, <2>2, NotResetting DEF KeptInv, KeptForCallback
  <2>7. QED
    BY <2>4, <2>5, <2>6
<1>6. CASE Release(u)
  <2>1. /\ channels' = channels /\ name' = name /\ callback' = callback /\ dropped' = dropped
        /\ disputed \subseteq disputed'
        /\ Serial(u) /\ handle[u] # 0 /\ (pc' = pc \/ pc'[u] = "hasCallback")
    BY <1>1, <1>6 DEF Release, Goto, objects, Dispute
  <2>2. Mapped' = Mapped
    BY <2>1 DEF Mapped
  <2>3. WantedInv'
    BY <1>2, <2>1, <2>2 DEF KeptInv, WantedInv
  <2>4. LetGoUnwanted'
    <3>1. \A v \in Users : pc'[v] \notin {"reset", "delete"}
      BY <1>3, <2>1 DEF Serial
    <3>2. QED
      BY <3>1 DEF LetGoUnwanted
  <2>5. \A n \in Names : refCounts'[n] = 0 => refCounts[n] = 0
    BY <1>1, <1>6 DEF Release, Put
  <2>6. KeptForCallback'
    BY <1>1, <1>2, <2>1, <2>5, NotResetting DEF KeptInv, KeptForCallback
  <2>7. QED
    BY <2>3, <2>4, <2>6
<1>7. CASE ReleaseStep(u)
  <2>1. /\ handle[u] # 0 /\ Releasing(u) /\ refCounts[Held(u)] = 1 /\ ~Resetting
        /\ channels[Held(u)] = handle[u] \/ channels[Held(u)] \in disputed
    BY <1>1, <1>7, ReleaseStepMaps DEF MapInv, LastHolder
  <2> PICK n \in Names : n = Held(u)
    BY <1>1, <2>1, OwnName
  <2>2. channels[n] # 0 /\ \A m \in Names \ {n} : channels[m] # channels[n]
    BY <1>1, <2>1 DEF MapInv, Named
  <2>3. \A v \in Users : v # u => pc'[v] \in {"idle", "wait"}
    BY <1>3 DEF Idle
  <2>4. CASE ReleaseKeeps(u) /\ channels[n] \in callback
    <3>1. /\ channels' = channels /\ name' = name /\ callback' = callback
          /\ dropped' = dropped /\ disputed' = disputed /\ pc'[u] = "idle"
          /\ \A m \in Names \ {n} : refCounts'[m] = refCounts[m]
      BY <1>1, <2>4 DEF ReleaseKeeps, Move, Goto, Put, objects, history
    <3>2. WantedInv'
      BY <1>2, <3>1 DEF KeptInv, WantedInv, Mapped
    <3>3. LetGoUnwanted'
      BY <2>3, <3>1 DEF LetGoUnwanted
    <3>4. KeptForCallback'
      BY <1>2, <2>1, <2>4, <3>1 DEF KeptInv, KeptForCallback
    <3>5. QED
      BY <3>2, <3>3, <3>4
  <2>5. CASE ReleaseDrops(u) /\ channels[n] \notin callback
    <3>1. /\ UNCHANGED <<channels, refCounts, name, callback, dropped, disputed, handle>>
      BY <2>5 DEF ReleaseDrops, maps, objects, history
    <3>2. ~stale /\ channels[n] \notin disputed => handle[u] \notin wanted
      <4>1. CASE handle[u] \in dropped
        <5>1. channels[n] # 0 => channels[n] \in Mapped
          BY <1>1 DEF MapInv, Named, Mapped
        <5>2. QED
          BY <1>1, <2>1, <2>2, <4>1, <5>1 DEF MapInv, DroppedIsGone
      <4>2. CASE handle[u] \notin dropped
        BY <2>1, <2>5, <4>2 DEF KeptInv, WantedInv
      <4>3. QED
        BY <4>1, <4>2
    <3>3. WantedInv' /\ KeptForCallback'
      BY <1>2, <2>1, <3>1 DEF KeptInv, WantedInv, Mapped, KeptForCallback
    <3>4. LetGoUnwanted'
      BY <1>2, <2>3, <3>1, <3>2 DEF LetGoUnwanted, Held
    <3>5. QED
      BY <3>3, <3>4
  <2>6. CASE ReleaseResets(u)
    <3>1. /\ UNCHANGED <<channels, refCounts, name, dropped, disputed, handle>>
          /\ callback' = callback \ {channels[n]} /\ pc[u] = "reset"
      BY <2>6 DEF ReleaseResets, ResetObject, Move, maps, history
    <3>2. ~stale /\ channels[n] \notin disputed => channels[n] \notin wanted
      BY <2>1, <3>1 DEF KeptInv, LetGoUnwanted
    <3>3. WantedInv'
      BY <1>2, <3>1, <3>2 DEF KeptInv, WantedInv, Mapped
    <3>4. LetGoUnwanted'
      <4>1. ~stale /\ channels[Held(u)] \notin disputed => handle[u] \notin wanted
        BY <3>1 DEF KeptInv, LetGoUnwanted
      <4>2. QED
        BY <1>2, <2>3, <3>1, <4>1 DEF LetGoUnwanted, Held
    <3>5. \A m \in Names : refCounts[m] = 0 => channels[m] # channels[n]
      BY <2>1, <2>2
    <3>6. KeptForCallback'
      BY <1>2, <2>1, <3>1, <3>5 DEF KeptInv, KeptForCallback
    <3>7. QED
      BY <3>3, <3>4, <3>6
  <2>7. CASE ReleaseDeletes(u)
    <3>1. /\ UNCHANGED <<name, callback, dropped, disputed>> /\ pc[u] = "delete" /\ pc'[u] = "idle"
          /\ channels'[n] = 0
          /\ \A m \in Names \ {n} : channels'[m] = channels[m] /\ refCounts'[m] = refCounts[m]
      BY <1>1, <2>7 DEF ReleaseDeletes, Move, Goto, Put, objects, history
    <3>2. ~stale /\ channels[n] \notin disputed => channels[n] \notin wanted
      BY <2>1, <3>1 DEF KeptInv, LetGoUnwanted
    <3>3. Mapped \ {channels[n]} \subseteq Mapped'
      <4>1. \A o \in Mapped : name[o] \in Names
        BY <1>1, NameOK DEF TypeOK, Mapped
      <4>2. QED
        BY <3>1, <4>1 DEF Mapped
    <3>4. WantedInv'
      BY <1>2, <3>1, <3>2, <3>3 DEF KeptInv, WantedInv
    <3>5. LetGoUnwanted'
      BY <2>3, <3>1 DEF LetGoUnwanted
    <3>6. KeptForCallback'
      BY <1>2, <2>1, <3>1 DEF KeptInv, KeptForCallback
    <3>7. QED
      BY <3>4, <3>5, <3>6
  <2>8. QED
    BY <1>7, <2>4, <2>5, <2>6, <2>7 DEF ReleaseStep, ReleaseLooks
<1>8. CASE Reset(u)
  <2>1. /\ channels' = channels /\ name' = name /\ callback' = callback
        /\ dropped' = dropped \cup Mapped /\ disputed' = disputed /\ Serial(u)
        /\ pc'[u] = "resetting" /\ Resetting'
    BY <1>1, <1>8, ResetMapsStays DEF Reset, Goto, maps, objects
  <2>2. WantedInv'
    BY <1>2, <2>1 DEF KeptInv, WantedInv, Mapped
  <2>3. LetGoUnwanted' /\ KeptForCallback'
    <3>1. \A v \in Users : pc'[v] \notin {"reset", "delete"}
      BY <1>3, <2>1 DEF Serial, Idle
    <3>2. QED
      BY <2>1, <3>1 DEF LetGoUnwanted, KeptForCallback
  <2>4. QED
    BY <2>2, <2>3
<1>9. CASE ResetStep(u)
  <2>1. /\ pc[u] = "resetting" /\ pc'[u] \in {"resetting", "idle"}
        /\ UNCHANGED <<name, dropped, disputed>> /\ Resetting
    <3>1. CASE ResetMaps(u)
      BY <1>1, <3>1 DEF ResetMaps, Move, Goto, history, Resetting
    <3>2. CASE \E o \in Objects : ResetsChannel(u, o)
      BY <1>1, <3>2 DEF ResetsChannel, maps, history, Resetting
    <3>3. QED
      BY <1>9, <3>1, <3>2 DEF ResetStep
  <2>2. wanted \ (dropped \cup disputed) = {} \/ stale
    BY <1>1, <2>1 DEF KeptInv, WantedInv, MapInv, DroppedIsGone
  <2>3. WantedInv'
    BY <1>2, <2>1, <2>2 DEF WantedInv
  <2>4. LetGoUnwanted'
    <3>1. \A v \in Users : pc'[v] \notin {"reset", "delete"}
      BY <1>3, <2>1 DEF Idle
    <3>2. QED
      BY <3>1 DEF LetGoUnwanted
  <2>5. KeptForCallback'
    <3>1. CASE ResetMaps(u)
      BY <3>1 DEF ResetMaps, KeptForCallback
    <3>2. CASE \E o \in Objects : ResetsChannel(u, o)
      BY <1>1, <3>2, ResetsChannelMaps DEF KeptForCallback
    <3>3. QED
      BY <1>9, <3>1, <3>2 DEF ResetStep
  <2>6. QED
    BY <2>3, <2>4, <2>5
<1>10. QED
  BY <1>4, <1>5, <1>6, <1>7, <1>8, <1>9, NamesUsed DEF ManagerStep

LEMMA KeptAlways == Spec => []KeptInv
<1>1. KeptInv /\ [Next]_vars => KeptInv'
  <2> SUFFICES ASSUME KeptInv, [Next]_vars PROVE KeptInv'
    OBVIOUS
  <2>1. MapInv'
    BY MapsStep DEF KeptInv
  <2>2. CASE \E u \in Users : ManagerStep(u)
    BY <2>1, <2>2, ManagerStepKeeps DEF KeptInv
  <2>3. CASE ChannelStep
    BY <2>1, <2>3, ChannelStepKeeps DEF KeptInv
  <2>4. CASE UNCHANGED vars
    <3>1. UNCHANGED <<channels, refCounts, name, callback, pc, handle, wanted, dropped, disputed,
                      stale>>
      BY <2>4 DEF vars, maps, objects, users, history
    <3>2. WantedInv' /\ LetGoUnwanted' /\ KeptForCallback'
      BY <3>1 DEF KeptInv, WantedInv, Mapped, LetGoUnwanted, Held, KeptForCallback, Resetting
    <3>3. QED
      BY <2>1, <3>2 DEF KeptInv
  <2>5. QED
    BY <2>2, <2>3, <2>4, Steps
<1>2. QED
  BY <1>1, InitInv, PTL DEF Spec

(* What the application has subscribed stays in the map, where dispatch and  *)
(* reconnects find it, though all who held it have released it; a Release of *)
(* an earlier channel of the name is what can take it out.                   *)
THEOREM WantedIsFound == Spec => []WantedStaysMapped
<1>1. KeptInv => WantedStaysMapped
  BY DEF KeptInv, WantedInv, WantedStaysMapped
<1>2. QED
  BY <1>1, KeptAlways, PTL

(* Nothing stays in the map for nothing: a channel that nobody holds has a   *)
(* callback.                                                                 *)
THEOREM NothingIsLeft == Spec => []KeptForCallback
<1>1. KeptInv => KeptForCallback
  BY DEF KeptInv
<1>2. QED
  BY <1>1, KeptAlways, PTL
-----------------------------------------------------------------------------
(* The manager is a registry *)

(* Outside a Reset nothing that is mapped was dropped.                       *)
LEMMA NoneDropped ==
    ASSUME MapInv
    PROVE  /\ 0 \notin dropped /\ 0 \notin Objects
           /\ channels \in [Names -> Objects \cup {0}]
           /\ ~Resetting => Registered = channels /\ \A m \in Names : channels[m] \notin dropped
           /\ Resetting => Registered = [n \in Names |-> 0]
<1>1. /\ channels \in [Names -> Objects \cup {0}] /\ 0 \notin dropped /\ 0 \notin Objects
  BY NameOK, NamesUsed DEF MapInv, TypeOK, MapsOK, Named, Objects
<1>2. \A n \in Names : channels[n] # 0 => channels[n] \in Mapped
  BY DEF MapInv, Named, Mapped
<1>3. CASE ~Resetting
  <2>1. \A n \in Names : channels[n] \notin dropped
    BY <1>1, <1>2, <1>3 DEF MapInv, DroppedIsGone
  <2>2. QED
    BY <1>1, <1>3, <2>1 DEF Registered
<1>4. CASE Resetting
  <2>1. \A n \in Names : channels[n] = 0 \/ channels[n] \in dropped
    BY <1>2, <1>4 DEF MapInv, DroppedIsGone
  <2>2. QED
    BY <1>1, <1>4, <2>1 DEF Registered
<1>5. QED
  BY <1>1, <1>3, <1>4

LEMMA GetRegisters ==
    ASSUME MapInv, NEW u \in Users, NEW n \in Names, Get(u, n), ManagerStep(u)
    PROVE  Shared!Next
<1>1. /\ Serial(u) /\ ~Holds(u) /\ UNCHANGED <<dropped, disputed, wanted, stale, pc>>
      /\ handle' = Put(handle, u, channels'[n])
  BY DEF Get, history
<1>2. ~Resetting /\ ~Resetting'
  BY <1>1, NotResetting DEF Resetting
<1>3. MapInv' /\ TypeOK /\ handle'[u] = channels'[n]
  BY GetMaps DEF MapInv
<1>4. /\ Registered = channels /\ 0 \notin dropped /\ 0 \notin Objects
      /\ channels \in [Names -> Objects \cup {0}]
  BY <1>2, NoneDropped
<1>5. channels' \in [Names -> Objects \cup {0}]
  BY <1>3 DEF MapInv, TypeOK, MapsOK
<1>6. \A m \in Names : channels'[m] \notin dropped'
  <2>1. \A m \in Names : channels'[m] # 0 => channels'[m] \in Mapped'
    BY <1>3 DEF MapInv, Named, Mapped
  <2>2. QED
    BY <1>1, <1>2, <1>3, <1>4, <2>1 DEF MapInv, DroppedIsGone
<1>7. Registered' = channels'
  BY <1>5, <1>6 DEF Registered
<1>8. Shared!Find(n) \/ Shared!Create(n)
  <2>1. CASE channels[n] # 0
    <3>1. channels' = channels /\ name' = name
      BY <2>1 DEF Get
    <3>2. QED
      BY <1>4, <1>7, <2>1, <3>1 DEF Shared!Find
  <2>2. CASE channels[n] = 0
    <3>1. /\ Len(name) < MaxChannels /\ name' = Append(name, n)
          /\ channels' = Put(channels, n, Len(name'))
      BY <2>2 DEF Get
    <3>2. /\ DOMAIN name' = DOMAIN name \cup {Len(name')}
          /\ Len(name') \in Objects \ DOMAIN name
      BY <1>3, <3>1, Created DEF TypeOK
    <3>3. QED
      BY <1>4, <1>7, <2>2, <3>1, <3>2 DEF Shared!Create, Put
  <2>3. QED
    BY <2>1, <2>2
<1>9. InHand[u] = 0 /\ InHand' = [InHand EXCEPT ![u] = channels'[n]]
  <2>1. handle \in [Users -> Objects \cup {0}]
    BY <1>3 DEF TypeOK, UsersOK
  <2>2. \A v \in Users \ {u} : handle'[v] = handle[v] /\ (Holds(v)' <=> Holds(v))
    BY <1>1, <2>1 DEF Put, Holds
  <2>3. Holds(u)' \/ handle'[u] = 0
    BY <1>3, <1>6 DEF Holds
  <2>4. QED
    BY <1>1, <1>3, <2>2, <2>3 DEF InHand
<1>10. Shared!Get(u, n)
  BY <1>1, <1>7, <1>8, <1>9 DEF Shared!Get
<1>11. QED
  BY <1>10 DEF Shared!Next

(* A user lets go of what it holds, if it holds anything still.              *)
LEMMA LetGoSeen ==
    ASSUME MapInv, NEW u \in Users, LetGo(u), UNCHANGED dropped
    PROVE  /\ InHand' = [InHand EXCEPT ![u] = 0]
           /\ Holds(u) => InHand[u] = handle[u] /\ InHand[u] # 0
           /\ ~Holds(u) => InHand' = InHand
           /\ \A v \in Users : InHand[v] # 0 => InHand[v] = handle[v]
<1>1. handle \in [Users -> Objects \cup {0}] /\ handle' = [handle EXCEPT ![u] = 0]
  BY DEF MapInv, TypeOK, UsersOK, LetGo, Put
<1>2. \A v \in Users \ {u} : handle'[v] = handle[v] /\ (Holds(v)' <=> Holds(v))
  BY <1>1 DEF Holds
<1>3. QED
  BY <1>1, <1>2 DEF InHand, Holds

(* Nobody can tell a step that changes neither the map nor the handles.      *)
LEMMA Unseen ==
    ASSUME MapInv, UNCHANGED <<channels, name, dropped, disputed, wanted, stale>>,
           InHand' = InHand
    PROVE  UNCHANGED Shared!vars
<1>1. Registered' = Registered
  BY DEF Registered
<1>2. QED
  BY <1>1 DEF Shared!vars

(* The count goes down, and its object may become disputed.                  *)
LEMMA ReleaseRegisters ==
    ASSUME KeptInv, NEW u \in Users, Release(u)
    PROVE  [Shared!Next]_(Shared!vars)
<1>1. /\ MapInv /\ UNCHANGED <<channels, name, dropped, wanted, stale>>
      /\ Serial(u) /\ handle[u] # 0
  BY DEF KeptInv, Release
<1>2. /\ ~Resetting /\ Registered = channels /\ \A m \in Names : channels[m] \notin dropped
      /\ Held(u) \in Names /\ channels \in [Names -> Objects \cup {0}]
  BY <1>1, NotResetting, NoneDropped, OwnName
<1>3. Registered' = Registered
  BY <1>1 DEF Registered
<1>4. LetGo(u) \/ UNCHANGED handle
  BY DEF Release
<1>5. /\ InHand' = InHand \/ InHand' = [InHand EXCEPT ![u] = 0]
      /\ LetGo(u) => InHand' = InHand \/ (InHand[u] # 0 /\ InHand' = [InHand EXCEPT ![u] = 0])
  <2>1. CASE LetGo(u)
    BY <1>1, <2>1, LetGoSeen
  <2>2. CASE UNCHANGED handle /\ ~LetGo(u)
    BY <1>1, <2>2 DEF InHand, Holds
  <2>3. QED
    BY <1>4, <2>1, <2>2
<1>6. CASE disputed' = disputed
  <2>1. CASE InHand' = InHand
    BY <1>1, <1>6, <2>1, Unseen
  <2>2. CASE LetGo(u) /\ InHand' # InHand
    <3>1. Shared!LetGo(u)
      BY <1>1, <1>5, <1>6, <2>2 DEF Shared!LetGo
    <3>2. Shared!Keep(u)
      BY <1>3, <3>1 DEF Shared!Keep
    <3>3. QED
      BY <3>2 DEF Shared!Next
  <2>3. CASE UNCHANGED handle
    BY <1>1, <1>6, <2>3, Unseen DEF InHand, Holds
  <2>4. QED
    BY <1>4, <2>1, <2>2, <2>3
<1>7. CASE disputed' # disputed
  <2>1. refCounts[Held(u)] # 0
    BY <1>7 DEF Release
  <2>2. /\ channels[Held(u)] # 0 /\ disputed' = disputed \cup {channels[Held(u)]}
        /\ dropped # {}
    BY <1>1, <1>7, <2>1, Disputes
  <2>3. Shared!LetGoOne
    BY <1>5 DEF Shared!LetGoOne
  <2>4. Shared!Dispute(Held(u))
    BY <1>1, <1>2, <1>3, <2>2, <2>3 DEF Shared!Dispute
  <2>5. QED
    BY <1>2, <2>4 DEF Shared!Next
<1>8. QED
  BY <1>6, <1>7

(* The last one keeps the object, or takes it out.                           *)
LEMMA LastRegisters ==
    ASSUME KeptInv, NEW u \in Users, ReleaseStep(u)
    PROVE  [Shared!Next]_(Shared!vars)
<1>1. /\ MapInv /\ UNCHANGED <<name, dropped, disputed, wanted, stale>>
      /\ handle[u] # 0 /\ ~Resetting
      /\ \/ channels[Held(u)] \in disputed
         \/ channels[Held(u)] = handle[u] /\ Holders(Held(u)) = {u}
  BY ReleaseStepMaps DEF KeptInv, ReleaseStep, ReleaseLooks, ReleaseKeeps, ReleaseDrops,
     ReleaseResets, ReleaseDeletes, history, maps
<1> PICK n \in Names : n = Held(u)
  BY <1>1, OwnName
<1>2. /\ Registered = channels /\ 0 \notin dropped
      /\ \A m \in Names : channels[m] \notin dropped
      /\ channels \in [Names -> Objects \cup {0}]
  BY <1>1, NoneDropped
<1>3. CASE UNCHANGED <<channels, handle>>
  BY <1>1, <1>3, Unseen DEF InHand, Holds
<1>4. CASE LetGo(u) /\ UNCHANGED channels
  <2>1. CASE Holds(u)
    <3>1. Shared!LetGo(u)
      BY <1>1, <1>4, <2>1, LetGoSeen DEF Shared!LetGo
    <3>2. Shared!Keep(u)
      BY <1>1, <1>4, <3>1 DEF Shared!Keep, Registered
    <3>3. QED
      BY <3>2 DEF Shared!Next
  <2>2. CASE ~Holds(u)
    BY <1>1, <1>4, <2>2, LetGoSeen, Unseen
  <2>3. QED
    BY <2>1, <2>2
<1>5. CASE ReleaseDeletes(u)
  <2>1. LetGo(u) /\ channels' = [channels EXCEPT ![n] = 0]
    BY <1>5 DEF ReleaseDeletes, Put
  <2>2. Registered' = [Registered EXCEPT ![n] = 0]
    BY <1>1, <1>2, <2>1 DEF Registered
  <2>3. CASE channels[n] \in disputed
    <3>1. Shared!LetGoOne
      BY <1>1, <2>1, LetGoSeen DEF Shared!LetGoOne
    <3>2. Shared!Lose(n)
      BY <1>1, <1>2, <2>2, <2>3, <3>1 DEF Shared!Lose
    <3>3. QED
      BY <3>2 DEF Shared!Next
  <2>4. CASE channels[n] \notin disputed
    <3>1. channels[n] = handle[u] /\ Holders(n) = {u} /\ Holds(u)
      BY <1>1, <1>2, <2>4 DEF Holds
    <3>2. InHand[u] = handle[u] /\ Shared!LetGo(u)
      BY <1>1, <2>1, <3>1, LetGoSeen DEF Shared!LetGo
    <3>3. \A v \in Users \ {u} : InHand[v] # InHand[u]
      <4>1. \A v \in Users \ {u} : handle[v] # handle[u]
        BY <1>1, <3>1 DEF Holders
      <4>2. QED
        BY <1>1, <2>1, <3>2, <4>1, LetGoSeen
    <3>4. handle[u] \in wanted => stale
      BY <1>5, <2>4 DEF KeptInv, LetGoUnwanted, ReleaseDeletes, Move
    <3>5. Shared!Drop(u)
      BY <1>2, <2>2, <3>1, <3>2, <3>3, <3>4 DEF Shared!Drop
    <3>6. QED
      BY <3>5 DEF Shared!Next
  <2>5. QED
    BY <2>3, <2>4
<1>6. QED
  BY <1>3, <1>4, <1>5 DEF ReleaseStep, ReleaseLooks, ReleaseKeeps, ReleaseDrops, ReleaseResets,
     maps

(* Remove and Reset: who holds what is taken out holds nothing.              *)
LEMMA RemoveRegisters ==
    ASSUME MapInv, NEW u \in Users, NEW n \in Names, Remove(u, n), ManagerStep(u)
    PROVE  Shared!Next
<1>1. /\ Serial(u) /\ UNCHANGED <<name, handle, wanted, stale, disputed>> /\ channels[n] # 0
      /\ channels' = Put(channels, n, 0) /\ dropped' = dropped \cup {channels[n]}
  BY DEF Remove, users
<1>2. /\ Registered = channels /\ 0 \notin dropped /\ channels \in [Names -> Objects \cup {0}]
      /\ \A m \in Names : channels[m] \notin dropped
  BY <1>1, NotResetting, NoneDropped
<1>3. \A m \in Names \ {n} : channels[m] # channels[n]
  BY <1>1 DEF MapInv, Named
<1>4. Registered' = [m \in Names |-> IF m \in {n} THEN 0 ELSE Registered[m]]
  BY <1>1, <1>2, <1>3 DEF Registered, Put
<1>5. {Registered[m] : m \in {n}} \ {0} = {channels[n]}
  BY <1>1, <1>2
<1>6. InHand' = [v \in Users |-> IF InHand[v] \in {channels[n]} THEN 0 ELSE InHand[v]]
  BY <1>1 DEF InHand, Holds
<1>7. Shared!TakeOut({n})
  BY <1>1, <1>4, <1>5, <1>6 DEF Shared!TakeOut
<1>8. Shared!Remove(n)
  BY <1>1, <1>2, <1>7 DEF Shared!Remove
<1>9. QED
  BY <1>8 DEF Shared!Next

(* Reset happens in its first step; the others are not seen.                 *)
LEMMA ResetRegisters ==
    ASSUME MapInv, NEW u \in Users, Reset(u) \/ ResetStep(u)
    PROVE  [Shared!Next]_(Shared!vars)
<1>1. CASE Reset(u)
  <2>1. /\ Serial(u) /\ UNCHANGED <<channels, name, handle, wanted, stale, disputed>>
        /\ dropped' = dropped \cup Mapped
    BY <1>1 DEF Reset, maps
  <2>2. /\ Registered = channels /\ 0 \notin dropped /\ channels \in [Names -> Objects \cup {0}]
    BY <2>1, NotResetting, NoneDropped
  <2>3. Mapped = {Registered[m] : m \in Names} \ {0}
    <3>1. \A o \in Mapped : name[o] \in Names /\ channels[name[o]] = o /\ o # 0
      BY NameOK DEF MapInv, TypeOK, Mapped
    <3>2. \A m \in Names : channels[m] # 0 => channels[m] \in Mapped
      BY DEF MapInv, Named, Mapped
    <3>3. QED
      BY <2>2, <3>1, <3>2
  <2>4. Registered' = [m \in Names |-> IF m \in Names THEN 0 ELSE Registered[m]]
    BY <2>1, <2>2, <2>3 DEF Registered
  <2>5. InHand' = [v \in Users |-> IF InHand[v] \in Mapped THEN 0 ELSE InHand[v]]
    BY <2>1 DEF InHand, Holds
  <2>6. dropped' = dropped \cup ({Registered[m] : m \in Names} \ {0})
    BY <2>1, <2>3
  <2>7. Shared!Reset
    BY <2>1, <2>3, <2>4, <2>5, <2>6 DEF Shared!Reset, Shared!TakeOut
  <2>8. QED
    BY <2>7 DEF Shared!Next
<1>2. CASE ResetMaps(u)
  <2>1. /\ Resetting /\ channels' = [n \in Names |-> 0]
        /\ UNCHANGED <<name, handle, dropped, disputed, wanted, stale>>
    BY <1>2 DEF Resetting, ResetMaps, Move, history
  <2>2. Registered = [n \in Names |-> 0] /\ 0 \notin dropped
    BY <2>1, NoneDropped
  <2>3. Registered' = Registered /\ InHand' = InHand
    BY <2>1, <2>2 DEF Registered, InHand, Holds
  <2>4. QED
    BY <2>1, <2>3 DEF Shared!vars
<1>3. CASE \E o \in Objects : ResetsChannel(u, o)
  BY <1>3, Unseen DEF ResetsChannel, maps, history, InHand, Holds
<1>4. QED
  BY <1>1, <1>2, <1>3 DEF ResetStep

(* Calls on a channel change what is wanted; the connection's goroutines     *)
(* may wipe a channel.                                                       *)
LEMMA ChannelRegisters ==
    ASSUME MapInv, ChannelStep
    PROVE  [Shared!Next]_(Shared!vars)
<1>1. /\ channels' = channels /\ name' = name /\ handle' = handle /\ dropped' = dropped
      /\ disputed' = disputed
  BY ChannelStepMaps DEF maps
<1>2. Registered' = Registered /\ InHand' = InHand
  BY <1>1 DEF Registered, InHand, Holds
<1>3. ASSUME UNCHANGED <<wanted, stale>> PROVE UNCHANGED Shared!vars
  BY <1>1, <1>2, <1>3 DEF Shared!vars
<1>4. ASSUME NEW u \in Users, Subscribe(u) \/ Unsubscribe(u)
      PROVE  [Shared!Next]_(Shared!vars)
  <2>1. /\ handle[u] # 0 /\ stale' = stale
        /\ \/ wanted' = wanted \cup ({handle[u]} \ dropped)
           \/ wanted' = wanted \ ({handle[u]} \ dropped)
    BY <1>4 DEF Subscribe, Unsubscribe, Call
  <2>2. CASE handle[u] \in dropped
    BY <1>3, <2>1, <2>2
  <2>3. CASE handle[u] \notin dropped
    <3>1. InHand[u] = handle[u] /\ InHand[u] # 0
      BY <2>1, <2>3 DEF InHand, Holds
    <3>2. Shared!Subscribe(u) \/ Shared!Unsubscribe(u)
      BY <1>1, <1>2, <2>1, <2>3, <3>1 DEF Shared!Subscribe, Shared!Unsubscribe
    <3>3. QED
      BY <3>2 DEF Shared!Next
  <2>4. QED
    BY <2>2, <2>3
<1>5. ASSUME NEW k \in Sockets, Dispatch(k) PROVE [Shared!Next]_(Shared!vars)
  <2>1. wanted' = wanted /\ (stale' = stale \/ stale' = TRUE)
    BY <1>5 DEF Dispatch, MapInv, TypeOK, CountersOK
  <2>2. CASE stale' = stale
    BY <1>3, <2>1, <2>2
  <2>3. CASE stale' = TRUE
    <3>1. Shared!Wipe
      BY <1>1, <1>2, <2>1, <2>3 DEF Shared!Wipe
    <3>2. QED
      BY <3>1 DEF Shared!Next
  <2>4. QED
    BY <2>1, <2>2, <2>3
<1>6. GoroutineStep => UNCHANGED <<wanted, stale>>
  BY GoroutineLeaves DEF history
<1>7. (\E u \in Users : GiveUp(u)) => UNCHANGED <<wanted, stale>>
  BY DEF GiveUp, history
<1>8. QED
  BY <1>3, <1>4, <1>5, <1>6, <1>7 DEF ChannelStep

LEMMA StartsEmpty == Init => Shared!Init
<1> SUFFICES ASSUME Init PROVE Shared!Init
  OBVIOUS
<1>1. DOMAIN name = {}
  BY EmptySeq, LenProperties DEF Init
<1>2. Registered = [n \in Names |-> 0] /\ InHand = [u \in Users |-> 0]
  BY DEF Init, Registered, InHand, Holds
<1>3. QED
  BY <1>1, <1>2 DEF Init, Shared!Init

(* To those who call it, the manager is a map of channels shared by their    *)
(* holders, each call one step: Release and Reset take several, in the midst *)
(* of answers, losses and resubscriptions, and nobody can tell.  A Release   *)
(* of a channel that was removed disputes the one there is.                  *)
THEOREM ManagerIsRegistry == Spec => IsRegistry
<1>1. ASSUME KeptInv, [Next]_vars PROVE [Shared!Next]_(Shared!vars)
  <2>1. ASSUME NEW u \in Users, ManagerStep(u) PROVE [Shared!Next]_(Shared!vars)
    <3>1. ASSUME NEW n \in Uses[u], Get(u, n) \/ Remove(u, n) PROVE Shared!Next
      BY <1>1, <2>1, <3>1, NamesUsed, GetRegisters, RemoveRegisters DEF KeptInv
    <3>2. QED
      BY <1>1, <2>1, <3>1, ReleaseRegisters, LastRegisters, ResetRegisters
         DEF ManagerStep, KeptInv
  <2>2. CASE ChannelStep
    BY <1>1, <2>2, ChannelRegisters DEF KeptInv
  <2>3. CASE UNCHANGED vars
    <3>1. UNCHANGED <<channels, name, dropped, disputed, wanted, stale, handle>>
      BY <2>3 DEF vars, maps, users, history
    <3>2. Registered' = Registered /\ InHand' = InHand
      BY <3>1 DEF Registered, InHand, Holds
    <3>3. QED
      BY <3>1, <3>2 DEF Shared!vars
  <2>4. QED
    BY <1>1, <2>1, <2>2, <2>3, Steps
<1>2. KeptInv /\ [Next]_vars => [Shared!Next]_(Shared!vars)
  BY <1>1
<1>3. QED
  BY <1>2, StartsEmpty, KeptAlways, PTL DEF Spec, IsRegistry, Shared!Spec
=============================================================================
