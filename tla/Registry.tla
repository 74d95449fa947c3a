------------------------------- MODULE Registry -------------------------------
(***************************************************************************)
(* What SocketManager promises to goroutines that share channels by name   *)
(* ("manages socket channels with ref counting", channel/socket.go, line   *)
(* 590), with the set of holders in place of the counter and every call in *)
(* one step.  All who hold a name hold one object.  Letting go of it takes *)
(* the object out of the map only if nobody else holds it, and never if    *)
(* somebody wants to hear from it, unless the server has wiped channels by *)
(* its answers to older calls; only Remove and Reset may do that, and what *)
(* they took is known.  An object that is out of the map never comes back. *)
(* Once something was removed, an object may become disputed, by letting   *)
(* go of another of its name, and only such a one may be lost to those who *)
(* hold it.                                                                *)
(***************************************************************************)
CONSTANTS
    Users, Names, Objects,
    None                    \* no object

VARIABLES
    channels,               \* the object of every name
    used,                   \* the objects there have been
    held,                   \* the object every user holds
    removed,                \* the objects taken out by Remove and Reset
    disputed,               \* the objects let go by who did not hold them
    wanted,                 \* objects subscribed to and not unsubscribed since
    wiped                   \* has an answer to an older call come in?

vars == <<channels, used, held, removed, disputed, wanted, wiped>>

Init ==
    /\ channels = [n \in Names |-> None] /\ used = {}
    /\ held = [u \in Users |-> None]
    /\ removed = {} /\ disputed = {} /\ wanted = {} /\ wiped = FALSE

Find(n) == channels[n] # None /\ UNCHANGED <<channels, used>>
Create(n) ==
    /\ channels[n] = None
    /\ \E o \in Objects \ used :
        /\ channels' = [channels EXCEPT ![n] = o]
        /\ used' = used \cup {o}
Get(u, n) ==
    /\ held[u] = None
    /\ Find(n) \/ Create(n)
    /\ held' = [held EXCEPT ![u] = channels'[n]]
    /\ UNCHANGED <<removed, disputed, wanted, wiped>>

(* Release: the object stays in the map, or goes with its last holder.       *)
LetGo(u) ==
    /\ held[u] # None /\ held' = [held EXCEPT ![u] = None]
    /\ UNCHANGED <<used, removed, disputed, wanted, wiped>>
Keep(u) == LetGo(u) /\ UNCHANGED channels
Drop(u) ==
    /\ LetGo(u)
    /\ \A v \in Users \ {u} : held[v] # held[u]
    /\ held[u] \in wanted => wiped
    /\ \E n \in Names :
        /\ channels[n] = held[u]
        /\ channels' = [channels EXCEPT ![n] = None]

(* Somebody lets go of an object that was removed, or lost, and it counts    *)
(* for the object there is, which may go.                                    *)
LetGoOne == UNCHANGED held \/ \E u \in Users : held' = [held EXCEPT ![u] = None]
Dispute(n) ==
    /\ removed # {} /\ channels[n] # None
    /\ disputed' = disputed \cup {channels[n]}
    /\ LetGoOne
    /\ UNCHANGED <<channels, used, removed, wanted, wiped>>
Lose(n) ==
    /\ channels[n] \in disputed
    /\ channels' = [channels EXCEPT ![n] = None]
    /\ LetGoOne
    /\ UNCHANGED <<used, removed, disputed, wanted, wiped>>

(* Who holds what is removed holds nothing.                                  *)
TakeOut(ns) ==
    LET objects == {channels[n] : n \in ns} \ {None}
    IN /\ channels' = [n \in Names |-> IF n \in ns THEN None ELSE channels[n]]
       /\ held' = [u \in Users |-> IF held[u] \in objects THEN None ELSE held[u]]
       /\ removed' = removed \cup objects
       /\ UNCHANGED <<used, disputed, wanted, wiped>>
Remove(n) == channels[n] # None /\ TakeOut({n})
Reset == TakeOut(Names)

Subscribe(u) ==
    /\ held[u] # None /\ wanted' = wanted \cup {held[u]}
    /\ UNCHANGED <<channels, used, held, removed, disputed, wiped>>
Unsubscribe(u) ==
    /\ held[u] # None /\ wanted' = wanted \ {held[u]}
    /\ UNCHANGED <<channels, used, held, removed, disputed, wiped>>

Wipe == wiped' = TRUE /\ UNCHANGED <<channels, used, held, removed, disputed, wanted>>

Next ==
    \/ \E u \in Users :
        \/ Keep(u) \/ Drop(u) \/ Subscribe(u) \/ Unsubscribe(u)
        \/ \E n \in Names : Get(u, n)
    \/ \E n \in Names : Remove(n) \/ Dispute(n) \/ Lose(n)
    \/ Reset \/ Wipe

Spec == Init /\ [][Next]_vars
=============================================================================
