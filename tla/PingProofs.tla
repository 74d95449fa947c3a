------------------------------ MODULE PingProofs ------------------------------
(***************************************************************************)
(* Proofs about Ping, for any number of callers, read loops and PONGs.     *)
(*                                                                         *)
(* That a read loop never blocks is not inductive: the slot of an id is    *)
(* free because an id is in one place only, the table, the hands of one    *)
(* read loop, or the slot, and because a new id is larger than all others. *)
(* Last, that the table grows only by the calls that were given up.        *)
(***************************************************************************)
EXTENDS Ping, FiniteSetTheorems, TLAPS

(* Ids are used once: none is larger than the counter.                       *)
IdsWereCounted ==
    /\ \A i \in pendingPings \cup full : i <= pingCounter
    /\ \A p \in Pingers : id[p] <= pingCounter

(* An id is in one place.                                                    *)
OnePlace ==
    /\ pendingPings \cap full = {}
    /\ \A r \in Readers : at[r] = "deliver" =>
          got[r] \in Ids /\ got[r] <= pingCounter /\ got[r] \notin pendingPings \cup full
    /\ \A r, s \in Readers :
          at[r] = "deliver" /\ at[s] = "deliver" /\ got[r] = got[s] => r = s

PingInv == TypeOK /\ IdsWereCounted /\ OnePlace /\ WaitersDiffer

LEMMA InitInv == Init => PingInv
BY DEF Init, PingInv, TypeOK, IdsWereCounted, OnePlace, WaitersDiffer, Ids

LEMMA RegisterStep ==
    ASSUME PingInv, NEW p \in Pingers, Register(p) PROVE PingInv'
<1> USE DEF PingInv, TypeOK, Register, Move, Ids, readers
<1>1. TypeOK'
  OBVIOUS
<1>2. IdsWereCounted'
  BY DEF IdsWereCounted
<1>3. OnePlace'
  BY DEF IdsWereCounted, OnePlace
<1>4. WaitersDiffer'
  BY DEF IdsWereCounted, WaitersDiffer
<1>5. QED
  BY <1>1, <1>2, <1>3, <1>4

LEMMA CallerStep ==
    ASSUME PingInv, NEW p \in Pingers, Send(p) \/ Return(p) PROVE PingInv'
<1> USE DEF PingInv, Send, Return, SendFails, ContextDone, Abandon, Answered, TimeoutFires, Timeout,
        Move, Ids, pings, readers
<1>1. TypeOK'
  <2>1. CASE Send(p)
    <3>1. pongs' \subseteq Nat
      BY <2>1 DEF TypeOK
    <3>2. pc' \in [Pingers -> {"idle", "send", "wait", "timeout"}]
      BY <2>1 DEF TypeOK
    <3>3. UNCHANGED <<pingCounter, pendingPings, full, id, at, got, copies, abandoned>>
      BY <2>1
    <3>4. QED
      BY <3>1, <3>2, <3>3 DEF TypeOK
  <2>2. CASE Return(p)
    <3>1. /\ pc' \in [Pingers -> {"idle", "send", "wait", "timeout"}]
          /\ pendingPings' \subseteq Ids /\ full' \subseteq Ids
      BY <2>2 DEF TypeOK
    <3>2. abandoned' \in Nat
      BY <2>2 DEF TypeOK
    <3>3. UNCHANGED <<pingCounter, id, at, got, pongs, copies>>
      BY <2>2
    <3>4. QED
      BY <3>1, <3>2, <3>3 DEF TypeOK
  <2>3. QED
    BY <2>1, <2>2
<1>2. IdsWereCounted'
  BY DEF TypeOK, IdsWereCounted
<1>3. OnePlace'
  BY DEF TypeOK, OnePlace
<1>4. WaitersDiffer'
  BY DEF TypeOK, WaitersDiffer
<1>5. QED
  BY <1>1, <1>2, <1>3, <1>4

LEMMA TakeEntryStep ==
    ASSUME PingInv, NEW r \in Readers, TakeEntry(r) PROVE PingInv'
<1> USE DEF PingInv, Ids, callers
<1>1. PICK i \in pongs \cup {0} :
        /\ pongs' \in {pongs, pongs \ {i}} /\ copies' \in {copies, copies + 1}
        /\ got' = [got EXCEPT ![r] = i]
        /\ at' = [at EXCEPT ![r] = IF i \in pendingPings THEN "deliver" ELSE "read"]
        /\ pendingPings' = pendingPings \ {i}
        /\ at[r] = "read"
        /\ UNCHANGED <<pingCounter, full, callers, abandoned>>
  BY DEF TakeEntry
<1>2. TypeOK'
  BY <1>1 DEF TypeOK
<1>3. IdsWereCounted'
  BY <1>1 DEF TypeOK, IdsWereCounted
<1>4. OnePlace'
  BY <1>1 DEF TypeOK, IdsWereCounted, OnePlace
<1>5. WaitersDiffer'
  BY <1>1 DEF WaitersDiffer
<1>6. QED
  BY <1>2, <1>3, <1>4, <1>5

LEMMA DeliverStep ==
    ASSUME PingInv, NEW r \in Readers, Deliver(r) PROVE PingInv'
<1> USE DEF PingInv, Deliver, Ids, callers
<1>1. TypeOK'
  BY DEF TypeOK, OnePlace
<1>2. IdsWereCounted'
  BY DEF TypeOK, IdsWereCounted, OnePlace
<1>3. OnePlace'
  BY DEF TypeOK, OnePlace
<1>4. WaitersDiffer'
  BY DEF WaitersDiffer
<1>5. QED
  BY <1>1, <1>2, <1>3, <1>4

LEMMA InvStep == PingInv /\ [Next]_vars => PingInv'
<1> SUFFICES ASSUME PingInv, [Next]_vars PROVE PingInv'
  OBVIOUS
<1>1. CASE UNCHANGED vars
  BY <1>1 DEF vars, pings, callers, readers, PingInv, TypeOK, IdsWereCounted, OnePlace,
     WaitersDiffer
<1>2. CASE Next
  BY <1>2, RegisterStep, CallerStep, TakeEntryStep, DeliverStep DEF Next
<1>3. QED
  BY <1>1, <1>2

LEMMA InvAlways == Spec => []PingInv
BY InitInv, InvStep, PTL DEF Spec

(* Every variable keeps its type.                                            *)
THEOREM TypeCorrect == Spec => []TypeOK
<1>1. PingInv => TypeOK
  BY DEF PingInv
<1>2. QED
  BY <1>1, InvAlways, PTL

(* completePing never blocks a read loop, however many read loops there are  *)
(* and whatever the peer duplicates.                                         *)
THEOREM ReadersNeverBlock == Spec => []ReaderNeverBlocks
<1>1. PingInv => ReaderNeverBlocks
  BY DEF PingInv, OnePlace, ReaderNeverBlocks
<1>2. QED
  BY <1>1, InvAlways, PTL

(* Two callers that wait never have the same id.                             *)
THEOREM WaitersAlwaysDiffer == Spec => []WaitersDiffer
<1>1. PingInv => WaitersDiffer
  BY DEF PingInv
<1>2. QED
  BY <1>1, InvAlways, PTL

-----------------------------------------------------------------------------
(* Entries left behind *)

LeakInv == IsFiniteSet(Orphans) /\ Cardinality(Orphans) <= abandoned

(* A step that leaves behind at most one entry more than were left, and      *)
(* counts it, keeps the bound.                                               *)
LEMMA LeaksCounted ==
    ASSUME LeakInv, abandoned \in Nat,
           \/ Orphans' \subseteq Orphans /\ abandoned' = abandoned
           \/ /\ \E i : Orphans' \subseteq Orphans \cup {i}
              /\ abandoned' = abandoned + 1
    PROVE  LeakInv'
<1> USE DEF LeakInv
<1>1. CASE Orphans' \subseteq Orphans /\ abandoned' = abandoned
  <2>1. IsFiniteSet(Orphans') /\ Cardinality(Orphans') <= Cardinality(Orphans)
    BY <1>1, FS_Subset
  <2>2. Cardinality(Orphans') \in Nat /\ Cardinality(Orphans) \in Nat
    BY <2>1, FS_CardinalityType
  <2>3. QED
    BY <1>1, <2>1, <2>2
<1>2. ASSUME NEW i, Orphans' \subseteq Orphans \cup {i}, abandoned' = abandoned + 1
      PROVE  LeakInv'
  <2>1. /\ IsFiniteSet(Orphans \cup {i})
        /\ Cardinality(Orphans \cup {i}) <= Cardinality(Orphans) + 1
    <3>1. Cardinality(Orphans) \in Nat
      BY FS_CardinalityType
    <3>2. QED
      BY <3>1, FS_AddElement
  <2>2. IsFiniteSet(Orphans') /\ Cardinality(Orphans') <= Cardinality(Orphans \cup {i})
    BY <1>2, <2>1, FS_Subset
  <2>3. /\ Cardinality(Orphans') \in Nat /\ Cardinality(Orphans) \in Nat
        /\ Cardinality(Orphans \cup {i}) \in Nat
    BY <2>1, <2>2, FS_CardinalityType
  <2>4. QED
    BY <1>2, <2>1, <2>2, <2>3
<1>3. QED
  BY <1>1, <1>2

(* Only a failed write or an ended context leaves an entry: a caller that    *)
(* was answered has none in the table, because its id is in the slot.        *)
LEMMA LeakStep ==
    ASSUME PingInv, LeakInv, [Next]_vars PROVE LeakInv'
<1> USE DEF PingInv, TypeOK
<1>1. ASSUME NEW p \in Pingers, Register(p) PROVE LeakInv'
  <2>1. Orphans' \subseteq Orphans /\ abandoned' = abandoned
    BY <1>1 DEF Register, Move, Orphans
  <2>2. QED
    BY <2>1, LeaksCounted
<1>2. ASSUME NEW p \in Pingers, Send(p) \/ TimeoutFires(p) PROVE LeakInv'
  <2>1. Orphans' \subseteq Orphans /\ abandoned' = abandoned
    BY <1>2 DEF Send, TimeoutFires, Move, Orphans, pings
  <2>2. QED
    BY <2>1, LeaksCounted
<1>3. ASSUME NEW p \in Pingers, SendFails(p) \/ ContextDone(p) PROVE LeakInv'
  <2>1. Orphans' \subseteq Orphans \cup {id[p]} /\ abandoned' = abandoned + 1
    BY <1>3 DEF SendFails, ContextDone, Abandon, Move, Orphans, pings
  <2>2. QED
    BY <2>1, LeaksCounted
<1>4. ASSUME NEW p \in Pingers, Answered(p) PROVE LeakInv'
  <2>1. id[p] \notin pendingPings
    BY <1>4 DEF Answered, OnePlace
  <2>2. Orphans' \subseteq Orphans /\ abandoned' = abandoned
    BY <1>4, <2>1 DEF Answered, Move, Orphans
  <2>3. QED
    BY <2>2, LeaksCounted
<1>5. ASSUME NEW p \in Pingers, Timeout(p) PROVE LeakInv'
  <2>1. Orphans' \subseteq Orphans /\ abandoned' = abandoned
    BY <1>5 DEF Timeout, Move, Orphans
  <2>2. QED
    BY <2>1, LeaksCounted
<1>6. ASSUME NEW r \in Readers, TakeEntry(r) \/ Deliver(r) PROVE LeakInv'
  <2>1. Orphans' \subseteq Orphans /\ abandoned' = abandoned
    BY <1>6 DEF TakeEntry, Deliver, Orphans, callers
  <2>2. QED
    BY <2>1, LeaksCounted
<1>7. CASE UNCHANGED vars
  <2>1. Orphans' \subseteq Orphans /\ abandoned' = abandoned
    BY <1>7 DEF vars, pings, callers, Orphans
  <2>2. QED
    BY <2>1, LeaksCounted
<1>8. QED
  BY <1>1, <1>2, <1>3, <1>4, <1>5, <1>6, <1>7 DEF Next, Return

(* The table of pings never holds more entries without a caller than calls   *)
(* were abandoned.                                                           *)
THEOREM LeaksAreAbandoned == Spec => []NoEntryLeaks
<1>1. Init => LeakInv
  <2>1. Init => Orphans = {} /\ abandoned = 0
    BY DEF Init, Orphans
  <2>2. QED
    BY <2>1, FS_EmptySet DEF LeakInv
<1>2. PingInv /\ LeakInv /\ [Next]_vars => LeakInv'
  BY LeakStep
<1>3. LeakInv => NoEntryLeaks
  BY DEF LeakInv, NoEntryLeaks
<1>4. QED
  BY <1>1, <1>2, <1>3, InvAlways, PTL DEF Spec
==============================================================================
