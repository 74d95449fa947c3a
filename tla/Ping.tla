-------------------------------- MODULE Ping --------------------------------
(***************************************************************************)
(* Ping and completePing (connection/connection.go): callers register an   *)
(* id and a one-slot channel under c.mu, write a PING and wait; a read     *)
(* loop that gets a PONG takes the entry out under c.mu and then sends to  *)
(* the channel, outside the lock.  Two read loops may be alive at once     *)
(* (see Connection), so the readers are a set.                             *)
(*                                                                         *)
(* The round trip time is not modelled: what matters is whose PONG woke    *)
(* whom.  A PONG without a readable id is id 0, which no caller has.       *)
(***************************************************************************)
EXTENDS Naturals, FiniteSets

CONSTANTS
    Pingers,        \* application goroutines
    Readers,        \* read loops
    MaxPings,       \* bound on pingCounter
    MaxCopies,      \* bound on the PONGs the peer duplicates
    MaxAbandoned    \* bound on the calls whose write fails or whose context ends

Ids == Nat \ {0}

ASSUME PingAssumption == {MaxPings, MaxCopies, MaxAbandoned} \subseteq Nat

VARIABLES
    pingCounter,
    pendingPings,   \* the ids that have an entry
    full,           \* the ids whose channel holds a value
    pc, id,         \* where every caller is, and its id
    at, got,        \* where every reader is, and the id of its PONG
    pongs,          \* PONGs on their way, by id; 0 stands for a bad id
    copies,
    abandoned       \* calls that returned on a failed write or an ended context

pings == <<pingCounter, pendingPings, full>>
callers == <<pc, id>>
readers == <<at, got>>
vars == <<pings, callers, readers, pongs, copies, abandoned>>

Init ==
    /\ pingCounter = 0 /\ pendingPings = {} /\ full = {}
    /\ pc = [p \in Pingers |-> "idle"] /\ id = [p \in Pingers |-> 0]
    /\ at = [r \in Readers |-> "read"] /\ got = [r \in Readers |-> 0]
    /\ pongs = {} /\ copies = 0 /\ abandoned = 0

Move(p, from, to) == pc[p] = from /\ pc' = [pc EXCEPT ![p] = to]

(* Under c.mu: a new id and its entry.                                       *)
RegisterFromZero(p) ==
    /\ Move(p, "idle", "send") /\ pingCounter < MaxPings
    /\ pingCounter' = pingCounter + 1
    /\ id' = [id EXCEPT ![p] = pingCounter]
    /\ pendingPings' = pendingPings \cup {pingCounter}
    /\ UNCHANGED <<full, readers, pongs, copies, abandoned>>
RegisterAgain(p) ==
    /\ Move(p, "idle", "send") /\ pingCounter < MaxPings
    /\ pingCounter' = pingCounter + 1
    /\ id' = [id EXCEPT ![p] = IF @ = 0 THEN pingCounter' ELSE @]
    /\ pendingPings' = pendingPings \cup {id'[p]}
    /\ UNCHANGED <<full, readers, pongs, copies, abandoned>>
Register(p) ==
    /\ Move(p, "idle", "send") /\ pingCounter < MaxPings
    /\ pingCounter' = pingCounter + 1
    /\ id' = [id EXCEPT ![p] = pingCounter']
    /\ pendingPings' = pendingPings \cup {pingCounter'}
    /\ UNCHANGED <<full, readers, pongs, copies, abandoned>>

(* The PING is written; the peer may answer, now or never.                   *)
Send(p) ==
    /\ Move(p, "send", "wait")
    /\ \E answered \in BOOLEAN : pongs' = IF answered THEN pongs \cup {id[p]} ELSE pongs
    /\ UNCHANGED <<pings, id, readers, copies, abandoned>>

(* Two returns that leave the entry behind.                                  *)
Abandon == abandoned < MaxAbandoned /\ abandoned' = abandoned + 1
SendFails(p) ==
    /\ Move(p, "send", "idle") /\ Abandon
    /\ UNCHANGED <<pings, id, readers, pongs, copies>>

ContextDone(p) ==
    /\ Move(p, "wait", "idle") /\ Abandon
    /\ UNCHANGED <<pings, id, readers, pongs, copies>>

Answered(p) ==
    /\ Move(p, "wait", "idle") /\ id[p] \in full
    /\ full' = full \ {id[p]}
    /\ UNCHANGED <<pingCounter, pendingPings, id, readers, pongs, copies, abandoned>>

(* time.After fires, then the entry is removed under c.mu.                   *)
TimeoutFiresIfTaken(p) ==
    /\ Move(p, "wait", "timeout") /\ id[p] \notin pendingPings
    /\ UNCHANGED <<pings, id, readers, pongs, copies, abandoned>>
TimeoutFires(p) ==
    /\ Move(p, "wait", "timeout")
    /\ UNCHANGED <<pings, id, readers, pongs, copies, abandoned>>
TimeoutLeaves(p) ==
    /\ Move(p, "timeout", "idle")
    /\ UNCHANGED <<pings, id, readers, pongs, copies, abandoned>>
Timeout(p) ==
    /\ Move(p, "timeout", "idle")
    /\ pendingPings' = pendingPings \ {id[p]}
    /\ UNCHANGED <<pingCounter, full, id, readers, pongs, copies, abandoned>>

-----------------------------------------------------------------------------
(* completePing: under c.mu the entry is looked up and deleted ...           *)
TakeEntry(r) ==
    /\ at[r] = "read"
    /\ \E i \in pongs \cup {0} :
        /\ \/ pongs' = pongs \ {i} /\ UNCHANGED copies
           \/ copies < MaxCopies /\ copies' = copies + 1 /\ UNCHANGED pongs
        /\ got' = [got EXCEPT ![r] = i]
        /\ at' = [at EXCEPT ![r] = IF i \in pendingPings THEN "deliver" ELSE "read"]
        /\ pendingPings' = pendingPings \ {i}
    /\ UNCHANGED <<pingCounter, full, callers, abandoned>>

(* ... and the value is sent, which waits as long as the slot is taken.      *)
Deliver(r) ==
    /\ at[r] = "deliver" /\ got[r] \notin full
    /\ full' = full \cup {got[r]}
    /\ at' = [at EXCEPT ![r] = "read"]
    /\ UNCHANGED <<pingCounter, pendingPings, callers, got, pongs, copies, abandoned>>

-----------------------------------------------------------------------------
Return(p) == SendFails(p) \/ ContextDone(p) \/ Answered(p) \/ TimeoutFires(p) \/ Timeout(p)

Next ==
    \/ \E p \in Pingers : Register(p) \/ Send(p) \/ Return(p)
    \/ \E r \in Readers : TakeEntry(r) \/ Deliver(r)

Spec == Init /\ [][Next]_vars

(* Callers run, and their timeouts fire.                                     *)
FairSpec == Spec /\ \A p \in Pingers : WF_vars(Send(p) \/ Return(p))

-----------------------------------------------------------------------------
(* Properties *)

(* No entry has the id of an unreadable PONG.                                *)
TypeOK ==
    /\ pingCounter \in Nat /\ pendingPings \subseteq Ids /\ full \subseteq Ids
    /\ pc \in [Pingers -> {"idle", "send", "wait", "timeout"}]
    /\ id \in [Pingers -> Nat]
    /\ at \in [Readers -> {"read", "deliver"}]
    /\ got \in [Readers -> Nat]
    /\ pongs \subseteq Nat /\ copies \in Nat /\ abandoned \in Nat

(* completePing never blocks a read loop: when a reader is about to send,    *)
(* the slot is free, whatever PONGs were duplicated and whoever gave up.     *)
ReaderNeverBlocks ==
    \A r \in Readers : at[r] = "deliver" => got[r] \notin full

(* Nobody is woken by a PONG for somebody else's PING: callers that are      *)
(* waiting have different ids.                                               *)
WaitersDiffer ==
    \A p, q \in Pingers : pc[p] # "idle" /\ pc[q] # "idle" /\ id[p] = id[q] => p = q

(* The table does not grow but by the calls that were abandoned: any other   *)
(* entry belongs to a call under way.                                        *)
Orphans == {i \in pendingPings : \A p \in Pingers : ~(pc[p] # "idle" /\ id[p] = i)}
NoEntryLeaks == Cardinality(Orphans) <= abandoned

(* Every call returns.                                                       *)
PingReturns == \A p \in Pingers : pc[p] # "idle" ~> pc[p] = "idle"
=============================================================================
