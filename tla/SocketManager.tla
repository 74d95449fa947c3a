---------------------------- MODULE SocketManager ----------------------------
(***************************************************************************)
(* SocketManager (channel/socket.go): the channels by name and their       *)
(* reference counts, used by application goroutines that Get a channel,    *)
(* subscribe on it and Release it, by the read loops that dispatch the     *)
(* server's answers and mark all channels when their connection is lost,   *)
(* and by the goroutines that connect and resubscribe them.                *)
(*                                                                         *)
(* The maps have no lock, so an application must call Get, Release, Remove *)
(* and Reset from one goroutine at a time (Serial): what two of them would *)
(* do at once is undefined and left out.  The connection's goroutines are  *)
(* nobody's to schedule; each of their accesses to a map, and each         *)
(* critical section of a channel, is a step.  Iterating over a map follows *)
(* Go: a channel removed before it is reached is skipped, one added        *)
(* meanwhile may be reached, and what follows a Reset goes over the old    *)
(* map.                                                                    *)
(*                                                                         *)
(* A Connect may close a socket that works; the loop of that socket leaves *)
(* or runs onClose later, next to the loop and the resubscription of the   *)
(* next connection.  Dialling and startReadLoop are one step, and contexts *)
(* given to Connect do not end: SocketChannel has both.                    *)
(*                                                                         *)
(* A channel is what the manager can tell of it, and its calls are those   *)
(* with one event, each in one step up to its wait: their interleaving is  *)
(* the subject of SocketChannel, and so is the operation queue, hence no   *)
(* call that would be queued is made.  A goroutine has one channel at a    *)
(* time, which others may Remove under it.                                 *)
(***************************************************************************)
EXTENDS Naturals, Sequences, FiniteSets

CONSTANTS
    Users,          \* application goroutines
    Connectors,     \* goroutines that run Connect
    Names,          \* names of channels
    Uses,           \* the names every user uses
    Subscribers,    \* the users that subscribe, the others only hold
    MaxChannels,    \* bound on the channels created
    MaxConnects,    \* bound on the sockets dialled
    MaxCalls,       \* bound on the calls of the users, Release not counted
    MaxLosses       \* bound on the working connections lost or closed

Objects == 1 .. MaxChannels
Sockets == 1 .. MaxConnects     \* and their read loops
Iterators == Sockets \cup Connectors

ASSUME ManagerAssumption ==
    /\ IsFiniteSet(Users)
    /\ Sockets \cap Connectors = {}
    /\ Uses \in [Users -> SUBSET Names] /\ Subscribers \subseteq Users
    /\ {MaxChannels, MaxConnects, MaxCalls, MaxLosses} \subseteq Nat

VARIABLES
    channels,           \* the object of every name, 0 when it has none
    refCounts,          \* of every name, 0 when it has none
    name,               \* of every object that was created
    callback, subscribed, pendingSubscribe, pendingUnsubscribe, reconnectPending,
                        \* the objects whose field is set
    conn, alive,        \* the socket in use, 0 before the first; its peer reads it
    answers,            \* of every socket: frames <<kind, name>> not yet read
    reader,             \* every read loop: "none", "reading", "closing" (onClose),
                        \* "down", or "left" when it was cancelled
    connector, at,      \* where every Connect is, and the object it resubscribes
    todo, seen,         \* of every iteration: present at the start; visited
    oldMap,             \* the iterations over a map that Reset has replaced
    pc, handle,         \* where every user is, and the object it got, or 0
    awaited,            \* the answer its call waits for
    unreset,            \* the objects a Reset has yet to reset
    \* history
    wanted,             \* objects subscribed and not unsubscribed since
    dropped,            \* objects taken out by Remove and Reset
    disputed,           \* objects a Release of an earlier one was counted against
    stale,              \* an UNSUBSCRIBED of an older call wiped a channel
    calls, losses

maps     == <<channels, refCounts, name>>
objects  == <<callback, subscribed, pendingSubscribe, pendingUnsubscribe, reconnectPending>>
socket   == <<conn, alive, answers>>
iterate  == <<reader, connector, at, todo, seen, oldMap>>
users    == <<pc, handle, awaited, unreset>>
history  == <<wanted, dropped, disputed, stale>>
bounds   == <<calls, losses>>
vars     == <<maps, objects, socket, iterate, users, history, bounds>>

Init ==
    /\ channels = [n \in Names |-> 0] /\ refCounts = [n \in Names |-> 0] /\ name = <<>>
    /\ callback = {} /\ subscribed = {} /\ pendingSubscribe = {}
    /\ pendingUnsubscribe = {} /\ reconnectPending = {}
    /\ conn = 0 /\ alive = FALSE /\ answers = [k \in Sockets |-> <<>>]
    /\ reader = [k \in Sockets |-> "none"]
    /\ connector = [g \in Connectors |-> "idle"] /\ at = [g \in Connectors |-> 0]
    /\ todo = [i \in Iterators |-> {}] /\ seen = [i \in Iterators |-> {}]
    /\ oldMap = {}
    /\ pc = [u \in Users |-> "idle"] /\ handle = [u \in Users |-> 0]
    /\ awaited = [u \in Users |-> "none"] /\ unreset = {}
    /\ wanted = {} /\ dropped = {} /\ disputed = {}
    /\ stale = FALSE
    /\ calls = 0 /\ losses = 0

Goto(u, label) == pc' = [pc EXCEPT ![u] = label]
Move(u, from, to) == pc[u] = from /\ Goto(u, to)
Put(f, n, v) == [f EXCEPT ![n] = v]
Holds(u) == handle[u] # 0 /\ handle[u] \notin dropped
Held(u) == name[handle[u]]

Mapped == {o \in DOMAIN name : channels[name[o]] = o}

Counted == calls < MaxCalls /\ calls' = calls + 1

(* u calls the manager while no other goroutine does.                        *)
Serial(u) == pc[u] = "idle" /\ \A v \in Users : pc[v] \in {"idle", "wait"}

-----------------------------------------------------------------------------
(* Get: find or create the channel, and count.                               *)

GetCountsNew(u, n) ==
    /\ Serial(u) /\ ~Holds(u) /\ Counted
    /\ IF channels[n] # 0
       THEN UNCHANGED <<channels, refCounts, name>>
       ELSE /\ Len(name) < MaxChannels
            /\ name' = Append(name, n)
            /\ channels' = Put(channels, n, Len(name'))
            /\ refCounts' = Put(refCounts, n, refCounts[n] + 1)
    /\ handle' = Put(handle, u, channels'[n])
    /\ UNCHANGED <<objects, socket, iterate, pc, awaited, unreset, history, losses>>
Get(u, n) ==
    /\ Serial(u) /\ ~Holds(u) /\ Counted
    /\ IF channels[n] # 0
       THEN UNCHANGED <<channels, name>>
       ELSE /\ Len(name) < MaxChannels
            /\ name' = Append(name, n)
            /\ channels' = Put(channels, n, Len(name'))
    /\ refCounts' = Put(refCounts, n, refCounts[n] + 1)
    /\ handle' = Put(handle, u, channels'[n])
    /\ UNCHANGED <<objects, socket, iterate, pc, awaited, unreset, history, losses>>

-----------------------------------------------------------------------------
(* Release of the name, by whoever got a channel of that name.  If that one  *)
(* was removed since, the Release counts against the one there is.          *)

LetGo(u) == handle' = Put(handle, u, 0)
Dispute(u) ==
    disputed' = disputed \cup ({channels[Held(u)]} \ {handle[u], 0})

ReleaseUnguarded(u) ==
    /\ Serial(u) /\ handle[u] # 0
    /\ \/ /\ refCounts[Held(u)] # 1
          /\ refCounts' = Put(refCounts, Held(u), refCounts[Held(u)] - 1)
          /\ LetGo(u) /\ UNCHANGED pc
       \/ /\ refCounts[Held(u)] = 1
          /\ Goto(u, "hasCallback") /\ UNCHANGED <<refCounts, handle>>
    /\ Dispute(u)
    /\ UNCHANGED <<channels, name, objects, socket, iterate, awaited, unreset, wanted, dropped,
                   stale, bounds>>
Release(u) ==
    /\ Serial(u) /\ handle[u] # 0
    /\ \/ refCounts[Held(u)] = 0 /\ LetGo(u) /\ UNCHANGED <<refCounts, pc, disputed>>
       \/ /\ refCounts[Held(u)] > 1
          /\ refCounts' = Put(refCounts, Held(u), refCounts[Held(u)] - 1)
          /\ Dispute(u) /\ LetGo(u) /\ UNCHANGED pc
       \/ /\ refCounts[Held(u)] = 1
          /\ Dispute(u) /\ Goto(u, "hasCallback") /\ UNCHANGED <<refCounts, handle>>
    /\ UNCHANGED <<channels, name, objects, socket, iterate, awaited, unreset, wanted, dropped,
                   stale, bounds>>

(* The last one looks: a channel with a callback is kept, for reconnects.    *)
ReleaseKeeps(u) ==
    /\ Move(u, "hasCallback", "idle")
    /\ refCounts' = Put(refCounts, Held(u), 0)
    /\ LetGo(u)
    /\ UNCHANGED <<channels, name, objects, socket, iterate, awaited, unreset, history, bounds>>
ReleaseDrops(u) ==
    /\ Move(u, "hasCallback", "reset")
    /\ UNCHANGED <<maps, objects, socket, iterate, handle, awaited, unreset, history, bounds>>
ReleaseLooks(u) ==
    /\ pc[u] = "hasCallback"
    /\ IF channels[Held(u)] \in callback THEN ReleaseKeeps(u) ELSE ReleaseDrops(u)

(* SocketChannel.Reset.                                                      *)
ResetObject(o) ==
    /\ callback' = callback \ {o} /\ subscribed' = subscribed \ {o}
    /\ pendingSubscribe' = pendingSubscribe \ {o}
    /\ pendingUnsubscribe' = pendingUnsubscribe \ {o}
    /\ UNCHANGED reconnectPending

ReleaseResets(u) ==
    /\ Move(u, "reset", "delete")
    /\ ResetObject(channels[Held(u)])
    /\ UNCHANGED <<maps, socket, iterate, handle, awaited, unreset, history, bounds>>

ReleaseDeletes(u) ==
    /\ Move(u, "delete", "idle")
    /\ channels' = Put(channels, Held(u), 0) /\ refCounts' = Put(refCounts, Held(u), 0)
    /\ LetGo(u)
    /\ UNCHANGED <<name, objects, socket, iterate, awaited, unreset, history, bounds>>

-----------------------------------------------------------------------------
(* Remove, and Reset, which resets the channels one after another.           *)

Remove(u, n) ==
    /\ Serial(u) /\ Counted
    /\ channels[n] # 0
    /\ channels' = Put(channels, n, 0) /\ refCounts' = Put(refCounts, n, 0)
    /\ dropped' = dropped \cup {channels[n]}
    /\ UNCHANGED <<name, objects, socket, iterate, users, wanted, disputed, stale, losses>>

Reset(u) ==
    /\ Serial(u) /\ Counted
    /\ Goto(u, "resetting") /\ unreset' = Mapped
    /\ dropped' = dropped \cup Mapped
    /\ UNCHANGED <<maps, objects, socket, iterate, handle, awaited, wanted, disputed, stale,
                   losses>>

ResetsChannel(u, o) ==
    /\ pc[u] = "resetting" /\ o \in unreset
    /\ ResetObject(o)
    /\ unreset' = unreset \ {o}
    /\ UNCHANGED <<maps, socket, iterate, pc, handle, awaited, history, bounds>>

Iterating == {k \in Sockets : reader[k] = "closing"} \cup {g \in Connectors : connector[g] # "idle"}

ResetMaps(u) ==
    /\ unreset = {} /\ Move(u, "resetting", "idle")
    /\ channels' = [n \in Names |-> 0] /\ refCounts' = [n \in Names |-> 0]
    /\ todo' = [i \in Iterators |-> IF i \in Iterating \ oldMap THEN Mapped ELSE todo[i]]
    /\ oldMap' = Iterating
    /\ UNCHANGED <<name, objects, socket, reader, connector, at, seen, handle, awaited,
                   unreset, history, bounds>>

-----------------------------------------------------------------------------
(* Subscribe and Unsubscribe of one event, by a goroutine that got the       *)
(* channel, removed meanwhile or not.                                        *)

(* ws.Send: the server answers, or the peer is gone and the frame vanishes,  *)
(* or it is refused.                                                         *)
Sent(kind, n) ==
    IF alive THEN answers' = [answers EXCEPT ![conn] = Append(@, <<kind, n>>)]
    ELSE conn # 0 /\ UNCHANGED answers
Refused == ~alive /\ UNCHANGED answers

Call(u) == u \in Subscribers /\ handle[u] # 0 /\ pc[u] = "idle" /\ Counted
Await(u, kind) == Goto(u, "wait") /\ awaited' = Put(awaited, u, kind)

Subscribe(u) ==
    LET o == handle[u] IN
    /\ Call(u) /\ conn # 0 /\ o \notin pendingUnsubscribe
    /\ callback' = callback \cup {o} /\ wanted' = wanted \cup ({o} \ dropped)
    /\ \/ /\ o \in subscribed \cup pendingSubscribe
          /\ UNCHANGED <<pendingSubscribe, answers, pc, awaited>>
       \/ /\ o \notin subscribed \cup pendingSubscribe
          /\ Sent("subscribed", name[o])
          /\ pendingSubscribe' = pendingSubscribe \cup {o}
          /\ Await(u, "subscribed")
       \/ /\ o \notin subscribed \cup pendingSubscribe
          /\ Refused /\ UNCHANGED <<pendingSubscribe, pc, awaited>>
    /\ UNCHANGED <<maps, subscribed, pendingUnsubscribe, reconnectPending, conn, alive,
                   iterate, handle, unreset, dropped, disputed, stale, losses>>

(* The last callback goes at once, if the channel is subscribed, else with   *)
(* the answer.                                                               *)
Unsubscribe(u) ==
    LET o == handle[u] IN
    /\ Call(u) /\ o \notin pendingUnsubscribe
    /\ IF o \in subscribed THEN o \in callback ELSE o \notin pendingSubscribe
    /\ callback' = callback \ (subscribed \cap {o}) /\ wanted' = wanted \ ({o} \ dropped)
    /\ \/ /\ Sent("unsubscribed", name[o])
          /\ pendingUnsubscribe' = pendingUnsubscribe \cup {o}
          /\ Await(u, "unsubscribed")
       \/ Refused /\ UNCHANGED <<pendingUnsubscribe, pc, awaited>>
    /\ UNCHANGED <<maps, subscribed, pendingSubscribe, reconnectPending, conn, alive,
                   iterate, handle, unreset, dropped, disputed, stale, losses>>

(* waitAck times out, or the context ends.                                   *)
GiveUp(u) ==
    /\ Move(u, "wait", "idle")
    /\ awaited' = Put(awaited, u, "none")
    /\ UNCHANGED <<maps, objects, socket, iterate, handle, unreset, history, bounds>>

-----------------------------------------------------------------------------
(* The read loops *)

Dispatch(k) ==
    /\ reader[k] = "reading" /\ answers[k] # <<>>
    /\ answers' = Put(answers, k, Tail(answers[k]))
    /\ LET kind == Head(answers[k])[1]
           o == channels[Head(answers[k])[2]]
           waiting == {u \in Users : awaited[u] = kind /\ handle[u] = o /\ o # 0}
       IN /\ pc' = [u \in Users |-> IF u \in waiting THEN "idle" ELSE pc[u]]
          /\ awaited' = [u \in Users |-> IF u \in waiting THEN "none" ELSE awaited[u]]
          /\ stale' = \/ stale
                      \/ kind = "unsubscribed" /\ o # 0 /\ (waiting = {} \/ o \in wanted)
          /\ IF kind = "subscribed"
             THEN /\ subscribed' = subscribed \cup ({o} \ {0})
                  /\ pendingSubscribe' = pendingSubscribe \ {o}
                  /\ reconnectPending' = reconnectPending \ {o}
                  /\ UNCHANGED <<callback, pendingUnsubscribe>>
             ELSE /\ subscribed' = subscribed \ {o}
                  /\ pendingUnsubscribe' = pendingUnsubscribe \ {o}
                  /\ callback' = callback \ {o}
                  /\ UNCHANGED <<pendingSubscribe, reconnectPending>>
    /\ UNCHANGED <<maps, conn, alive, iterate, handle, unreset, wanted, dropped, disputed,
                   bounds>>

StartIteration(i) == todo' = Put(todo, i, Mapped) /\ UNCHANGED <<seen, oldMap>>
InReach(i) == IF i \in oldMap THEN todo[i] ELSE Mapped
Visit(i, o) ==
    /\ o \in InReach(i) \ seen[i]
    /\ seen' = Put(seen, i, seen[i] \cup {o})
    /\ UNCHANGED <<todo, oldMap>>
Visited(i) == todo[i] \cap InReach(i) \subseteq seen[i]
EndIteration(i) ==
    todo' = Put(todo, i, {}) /\ seen' = Put(seen, i, {}) /\ oldMap' = oldMap \ {i}

(* A read fails; what was not read is lost.  onClose begins.                 *)
ReadFails(k) ==
    /\ reader[k] = "reading" /\ (k # conn \/ ~alive)
    /\ reader' = Put(reader, k, "closing") /\ answers' = Put(answers, k, <<>>)
    /\ StartIteration(k)
    /\ UNCHANGED <<maps, objects, conn, alive, connector, at, users, history, bounds>>

(* PendingSubscribeAllChannels.                                              *)
MarkForgetsReconnect(k, o) ==
    /\ reader[k] = "closing" /\ Visit(k, o)
    /\ subscribed' = subscribed \ {o}
    /\ pendingSubscribe' = pendingSubscribe \cup {o}
    /\ UNCHANGED <<maps, callback, pendingUnsubscribe, reconnectPending, socket, reader,
                   connector, at, users, history, bounds>>
SetPendingSubscribe(k, o) ==
    /\ reader[k] = "closing" /\ Visit(k, o)
    /\ subscribed' = subscribed \ {o}
    /\ pendingSubscribe' = pendingSubscribe \cup {o}
    /\ reconnectPending' = reconnectPending \cup {o}
    /\ UNCHANGED <<maps, callback, pendingUnsubscribe, socket, reader, connector, at,
                   users, history, bounds>>

CloseEnds(k) ==
    /\ reader[k] = "closing" /\ Visited(k)
    /\ reader' = Put(reader, k, "down") /\ EndIteration(k)
    /\ UNCHANGED <<maps, objects, socket, connector, at, users, history, bounds>>

(* The next Connect has cancelled the loop, which leaves without onClose if  *)
(* it was not reading.                                                       *)
Leave(k) ==
    /\ reader[k] = "reading" /\ k # conn
    /\ reader' = Put(reader, k, "left") /\ answers' = Put(answers, k, <<>>)
    /\ UNCHANGED <<maps, objects, conn, alive, connector, at, todo, seen, oldMap, users, history,
                   bounds>>

-----------------------------------------------------------------------------
(* Connect, then ResubscribeAfterReconnect *)

Connect(g) ==
    /\ connector[g] = "idle" /\ conn < MaxConnects
    /\ alive => losses < MaxLosses
    /\ losses' = IF alive THEN losses + 1 ELSE losses
    /\ conn' = conn + 1 /\ alive' = TRUE
    /\ reader' = Put(reader, conn', "reading")
    /\ connector' = Put(connector, g, "visiting") /\ StartIteration(g)
    /\ UNCHANGED <<maps, objects, answers, at, users, history, calls>>

Skip(g, o) ==
    /\ connector[g] = "visiting" /\ Visit(g, o)
    /\ o \notin reconnectPending \cap callback
    /\ UNCHANGED <<maps, objects, socket, reader, connector, at, users, history, bounds>>

(* Resubscribe copies the callbacks in one critical section and stores the   *)
(* copy in another; nothing to do if there are none left.                    *)
Resubscribe(g, o) ==
    /\ connector[g] = "visiting" /\ Visit(g, o)
    /\ o \in reconnectPending \cap callback
    /\ subscribed' = subscribed \ {o}
    /\ pendingSubscribe' = pendingSubscribe \ {o}
    /\ pendingUnsubscribe' = pendingUnsubscribe \ {o}
    /\ connector' = Put(connector, g, "copied") /\ at' = Put(at, g, o)
    /\ UNCHANGED <<maps, callback, reconnectPending, socket, reader, users, history, bounds>>

(* Whoever waited for the channel's done signal waits in vain from here.     *)
(* What the wait for the answer takes is before the next visit.              *)
ResubscribeSends(g) ==
    /\ connector[g] = "copied"
    /\ callback' = callback \cup {at[g]}
    /\ \/ /\ Sent("subscribed", name[at[g]])
          /\ pendingSubscribe' = pendingSubscribe \cup {at[g]}
       \/ Refused /\ pendingSubscribe' = pendingSubscribe \ {at[g]}
    /\ connector' = Put(connector, g, "visiting") /\ at' = Put(at, g, 0)
    /\ awaited' = [u \in Users |-> IF handle[u] = at[g] /\ awaited[u] = "subscribed"
                                   THEN "none" ELSE awaited[u]]
    /\ UNCHANGED <<maps, subscribed, pendingUnsubscribe, reconnectPending, conn, alive,
                   reader, todo, seen, oldMap, pc, handle, unreset, history, bounds>>

ConnectReturns(g) ==
    /\ connector[g] = "visiting" /\ Visited(g)
    /\ connector' = Put(connector, g, "idle") /\ EndIteration(g)
    /\ UNCHANGED <<maps, objects, socket, reader, at, users, history, bounds>>

(* The environment: the peer goes away.                                      *)
Lose ==
    /\ alive /\ losses < MaxLosses /\ losses' = losses + 1
    /\ alive' = FALSE
    /\ UNCHANGED <<maps, objects, conn, answers, iterate, users, history, calls>>

-----------------------------------------------------------------------------
ReleaseStep(u) == ReleaseLooks(u) \/ ReleaseResets(u) \/ ReleaseDeletes(u)
ResetStep(u) == ResetMaps(u) \/ \E o \in Objects : ResetsChannel(u, o)
UserStep(u) == ReleaseStep(u) \/ ResetStep(u) \/ GiveUp(u)
ReadLoop(k) ==
    \/ Dispatch(k) \/ ReadFails(k) \/ CloseEnds(k) \/ Leave(k)
    \/ \E o \in Objects : SetPendingSubscribe(k, o)
Resubscribing(g) ==
    \/ ResubscribeSends(g) \/ ConnectReturns(g)
    \/ \E o \in Objects : Skip(g, o) \/ Resubscribe(g, o)

Next ==
    \/ \E u \in Users :
        \/ UserStep(u) \/ Release(u) \/ Subscribe(u) \/ Unsubscribe(u) \/ Reset(u)
        \/ \E n \in Uses[u] : Get(u, n) \/ Remove(u, n)
    \/ \E k \in Sockets : ReadLoop(k)
    \/ \E g \in Connectors : Resubscribing(g) \/ Connect(g)
    \/ Lose

Spec == Init /\ [][Next]_vars

(* Goroutines run, waits end, a read of a dead connection fails, and         *)
(* somebody connects again.  Nobody has to call, nor to connect while the    *)
(* connection works.                                                         *)
Fairness ==
    /\ \A u \in Users : WF_vars(UserStep(u))
    /\ \A k \in Sockets : WF_vars(ReadLoop(k))
    /\ \A g \in Connectors : WF_vars(Resubscribing(g) \/ (~alive /\ Connect(g)))
FairSpec == Spec /\ Fairness
-----------------------------------------------------------------------------
(* Properties *)

MapsOK ==
    /\ channels \in [Names -> Objects \cup {0}] /\ refCounts \in [Names -> Nat]
    /\ name \in Seq(Names) /\ Len(name) <= MaxChannels
ObjectsOK ==
    {callback, subscribed, pendingSubscribe, pendingUnsubscribe, reconnectPending,
     wanted, dropped, disputed, unreset} \subseteq SUBSET Objects
IterationsOK ==
    /\ {todo, seen} \subseteq [Iterators -> SUBSET Objects] /\ oldMap \subseteq Iterators
    /\ reader \in [Sockets -> {"none", "reading", "closing", "down", "left"}]
    /\ connector \in [Connectors -> {"idle", "visiting", "copied"}]
    /\ at \in [Connectors -> Objects \cup {0}]
    /\ \A g \in Connectors : at[g] # 0 <=> connector[g] = "copied"
SocketOK ==
    /\ conn \in 0 .. MaxConnects /\ alive \in BOOLEAN /\ (alive => conn # 0)
    /\ answers \in [Sockets -> Seq({"subscribed", "unsubscribed"} \X Names)]
UsersOK ==
    /\ pc \in [Users -> {"idle", "wait", "hasCallback", "reset", "delete", "resetting"}]
    /\ handle \in [Users -> Objects \cup {0}]
    /\ awaited \in [Users -> {"none", "subscribed", "unsubscribed"}]
CountersOK ==
    /\ stale \in BOOLEAN
    /\ {calls, losses} \subseteq Nat
TypeOK == MapsOK /\ ObjectsOK /\ IterationsOK /\ SocketOK /\ UsersOK /\ CountersOK

(* Whoever holds a channel holds the one that answers are dispatched to, and *)
(* refCounts is the number of those who hold it, whatever is released, kept, *)
(* removed and reset.  The exception is a channel that a Release was counted *)
(* against whose Get had returned an earlier one of its name, removed since: *)
(* the count of that one is too low, and it may go while others hold it.     *)
Holders(n) == {u \in Users : handle[u] # 0 /\ handle[u] = channels[n]}
HandlesAreCounted ==
    /\ \A u \in Users : Holds(u) => handle[u] \in Mapped \cup disputed
    /\ \A n \in Names :
           /\ refCounts[n] <= Cardinality(Holders(n))
           /\ channels[n] \notin disputed => refCounts[n] = Cardinality(Holders(n))

(* What the application has subscribed stays in the map, where dispatch and  *)
(* reconnects find it, even if all who held it have released it.  The        *)
(* exceptions are the channels disputed, and stale: the UNSUBSCRIBED of an   *)
(* older call, of this channel or of an earlier one of its name, has wiped   *)
(* the callbacks meanwhile.                                                  *)
WantedStaysMapped == ~stale => wanted \ (dropped \cup disputed) \subseteq Mapped

(* A channel that nobody holds is in the map for its callback only, unless   *)
(* somebody gave up waiting for an answer that removes it later.             *)
Resetting == \E u \in Users : pc[u] = "resetting"
KeptForCallback ==
    ~stale /\ ~Resetting =>
        \A n \in Names :
            channels[n] # 0 /\ refCounts[n] = 0 /\ channels[n] \notin disputed
                => channels[n] \in callback

(* Get, Release, Remove and Reset are atomic to those who call them, though  *)
(* Release takes up to four steps and Reset one for every channel, among     *)
(* those of the connection, and a counter stands for the holders: the        *)
(* manager is a Registry.  Reset happens when it begins, Release at its end. *)
Registered == [n \in Names |-> IF channels[n] \in dropped THEN 0 ELSE channels[n]]
InHand == [u \in Users |-> IF Holds(u) THEN handle[u] ELSE 0]
Shared == INSTANCE Registry WITH
    None <- 0, channels <- Registered, used <- DOMAIN name, held <- InHand, removed <- dropped,
    wiped <- stale
IsRegistry == Shared!Spec

(* The loops of the connections before have run onClose.                     *)
Settled == \A k \in 1 .. conn - 1 : reader[k] = "down"

(* Every subscribed channel with a callback is subscribed again after a      *)
(* loss, whatever channels come and go while onClose and the resubscription  *)
(* go through the map, unless the application gives it up, or a Connect does *)
(* not wait for onClose: then the resubscription may pass a channel before   *)
(* it is marked, or no loop is left to mark it.                              *)
ChannelsComeBack ==
    \A o \in Objects :
        o \in subscribed \cap callback /\ ~alive
        ~> \/ o \in subscribed /\ alive
           \/ o \notin callback \/ o \in dropped \cup disputed \/ ~Settled
=============================================================================
