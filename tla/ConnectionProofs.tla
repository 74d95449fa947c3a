--------------------------- MODULE ConnectionProofs ---------------------------
(***************************************************************************)
(* Proofs about Connection, for any number of users, sockets, failures and *)
(* losses: type correctness, and that at most one goroutine reconnects and *)
(* no more of them than MaxReconnectAttempts ever dial.  These two hold    *)
(* until somebody calls Reset, which clears isReconnecting and the         *)
(* attempts under the feet of a sleeping tryReconnect: their premise is    *)
(* that resets, which is never decreased, is 0.  Then, that a socket that  *)
(* works is read, and that a lost one is in somebody's charge until it is  *)
(* replaced.                                                               *)
(***************************************************************************)
EXTENDS Connection, FiniteSetTheorems, TLAPS

(* Every step keeps every variable in its type.                              *)
LEMMA TypeStep ==
    ASSUME TypeOK, [Next]_vars PROVE TypeOK'
<1> USE ConnectionAssumption DEF TypeOK, NetOK, FieldsOK, LoopsOK, ThreadsOK, CountersOK, vars, net, fields, loopVars, bounds,
        Move, Goto, Ids, MaybeId, Threads, Labels, ConnectLabels, UserLabels, ResetLabels,
        ReconnectLabels
<1>1. CASE UNCHANGED vars
  BY <1>1
<1>2. ASSUME NEW t \in Threads, ConnectStart(t) PROVE TypeOK'
  BY <1>2 DEF ConnectStart, Returned
<1>3. ASSUME NEW t \in Threads, AuthFails(t) PROVE TypeOK'
  BY <1>3 DEF AuthFails, Returned
<1>4. ASSUME NEW t \in Threads, DialFails(t) PROVE TypeOK'
  BY <1>4 DEF DialFails, Returned, Closed
<1>5. ASSUME NEW t \in Threads, Dial(t) PROVE TypeOK'
  <2>1. NetOK' /\ FieldsOK' /\ LoopsOK'
    BY <1>5 DEF Dial, Closed
  <2>2. ThreadsOK' /\ CountersOK'
    BY <1>5 DEF Dial
  <2>3. QED
    BY <2>1, <2>2
<1>6. ASSUME NEW t \in Threads, CancelOldLoop(t) PROVE TypeOK'
  BY <1>6 DEF CancelOldLoop, Cancel
<1>7. ASSUME NEW t \in Threads, SetReadCancel(t) PROVE TypeOK'
  BY <1>7 DEF SetReadCancel
<1>8. ASSUME NEW t \in Threads, StartReadLoop(t) PROVE TypeOK'
  <2>1. NetOK' /\ FieldsOK' /\ ThreadsOK' /\ CountersOK'
    BY <1>8 DEF StartReadLoop
  <2>2. LoopsOK'
    <3>1. CASE wsConn = 0
      BY <1>8, <3>1 DEF StartReadLoop
    <3>2. CASE wsConn # 0
      <4>1. reading' \in [Ids -> MaybeId]
        <5>1. reading' = [reading EXCEPT ![mine[t]] = wsConn]
          BY <1>8, <3>2 DEF StartReadLoop
        <5>2. QED
          BY <5>1
      <4>2. loop' \in [Ids -> {"none", "top", "reading", "onClose", "done"}]
        BY <1>8, <3>2 DEF StartReadLoop
      <4>3. QED
        BY <1>8, <4>1, <4>2 DEF StartReadLoop
    <3>3. QED
      BY <3>1, <3>2
  <2>3. QED
    BY <2>1, <2>2
<1>9. ASSUME NEW t \in Threads, Resubscribe(t) PROVE TypeOK'
  BY <1>9 DEF Resubscribe, Returned
<1>10. ASSUME NEW u \in Users, Call(u) PROVE TypeOK'
  BY <1>10 DEF Call
<1>11. ASSUME NEW u \in Users, Disconnect(u) PROVE TypeOK'
  BY <1>11 DEF Disconnect
<1>12. ASSUME NEW u \in Users, WsDisconnect(u) \/ WsReset(u) PROVE TypeOK'
  BY <1>12 DEF WsDisconnect, WsReset, WsClose, Closed
<1>13. ASSUME NEW u \in Users, Reset(u) PROVE TypeOK'
  BY <1>13 DEF Reset
<1>14. ASSUME NEW u \in Users, ResetReadCancel(u) PROVE TypeOK'
  BY <1>14 DEF ResetReadCancel, Cancel
<1>15. ASSUME NEW u \in Users, ResetFields(u) PROVE TypeOK'
  BY <1>15 DEF ResetFields
<1>16. ASSUME NEW i \in Ids, Loop(i) PROVE TypeOK'
  <2>1. CASE LoopTop(i)
    BY <2>1 DEF LoopTop, LoopGoto
  <2>2. CASE ReadMessage(i)
    BY <2>2 DEF ReadMessage, LoopGoto
  <2>3. CASE ReadFails(i)
    BY <2>3 DEF ReadFails, LoopGoto
  <2>4. CASE OnClose(i)
    <3>1. ThreadsOK'
      BY <2>4 DEF OnClose
    <3>2. LoopsOK'
      BY <2>4 DEF OnClose, LoopGoto
    <3>3. QED
      BY <2>4, <3>1, <3>2 DEF OnClose
  <2>5. QED
    BY <1>16, <2>1, <2>2, <2>3, <2>4 DEF Loop
<1>17. ASSUME NEW i \in Ids, TryReconnect(i) PROVE TypeOK'
  <2>1. ThreadsOK'
    BY <1>17 DEF TryReconnect
  <2>2. FieldsOK'
    <3>1. CASE isReconnecting \/ reconnectAttempts >= MaxReconnectAttempts
      BY <1>17, <3>1 DEF TryReconnect
    <3>2. CASE ~(isReconnecting \/ reconnectAttempts >= MaxReconnectAttempts)
      BY <1>17, <3>2 DEF TryReconnect
    <3>3. QED
      BY <3>1, <3>2
  <2>3. QED
    BY <1>17, <2>1, <2>2 DEF TryReconnect
<1>18. ASSUME NEW i \in Ids, Reconnected(i) PROVE TypeOK'
  BY <1>18 DEF Reconnected
<1>19. ASSUME NEW i \in Ids, Lose(i) PROVE TypeOK'
  BY <1>19 DEF Lose
<1>20. ASSUME NEW i \in Ids, ContextDone(i) PROVE TypeOK'
  BY <1>20 DEF ContextDone, Cancel
<1>21. QED
  BY <1>1, <1>2, <1>3, <1>4, <1>5, <1>6, <1>7, <1>8, <1>9, <1>10, <1>11, <1>12, <1>13,
     <1>14, <1>15, <1>16, <1>17, <1>18, <1>19, <1>20
  DEF Next, Connect, UserStep, Reconnect

(* The initial values have the types.                                        *)
LEMMA InitTypeOK == Init => TypeOK
<1> SUFFICES ASSUME Init PROVE TypeOK
  OBVIOUS
<1> USE DEF Init
<1>1. NetOK
  BY DEF NetOK, MaybeId
<1>2. FieldsOK
  BY DEF FieldsOK
<1>3. LoopsOK
  BY DEF LoopsOK, MaybeId
<1>4. ThreadsOK
  BY DEF ThreadsOK, Labels, UserLabels
<1>5. CountersOK
  BY ConnectionAssumption DEF CountersOK
<1>6. QED
  BY <1>1, <1>2, <1>3, <1>4, <1>5 DEF TypeOK

(* Every variable keeps its type.                                            *)
THEOREM TypeCorrect == Spec => []TypeOK
<1>1. Init => TypeOK
  BY InitTypeOK
<1>2. TypeOK /\ [Next]_vars => TypeOK'
  BY TypeStep
<1>3. QED
  BY <1>1, <1>2, PTL DEF Spec

-----------------------------------------------------------------------------
(* Until the first Reset, isReconnecting covers every goroutine that         *)
(* reconnects.                                                               *)
NoReset == resets = 0 => \A t \in Threads : pc[t] \notin ResetLabels
SingleInv == TypeOK /\ NoReset /\ SingleReconnector

(* A call of Reset, once counted, stays counted.                             *)
LEMMA ResetsAreCounted ==
    ASSUME TypeOK, [Next]_vars PROVE resets' = 0 => resets = 0
<1>1. resets' \in {resets, resets + 1}
  BY DEF Next, vars, bounds, Connect, ConnectStart, AuthFails, DialFails, Dial, CancelOldLoop,
     SetReadCancel, StartReadLoop, Resubscribe, Call, UserStep, Disconnect, WsDisconnect, WsClose,
     Reset, ResetReadCancel, WsReset, ResetFields, Loop, LoopTop, ReadMessage, ReadFails, OnClose,
     Reconnect, TryReconnect, Reconnected, Lose, ContextDone
<1>2. QED
  BY <1>1 DEF TypeOK, CountersOK

(* No step adds a second reconnecting goroutine.                             *)
LEMMA SingleStep ==
    ASSUME SingleInv, [Next]_vars
    PROVE  NoReset' /\ SingleReconnector'
<1> SUFFICES ASSUME resets' = 0, resets = 0
             PROVE  NoReset' /\ SingleReconnector'
  BY ResetsAreCounted DEF SingleInv, NoReset, SingleReconnector
<1> USE ConnectionAssumption DEF SingleInv, TypeOK, FieldsOK, ThreadsOK, NoReset,
        SingleReconnector, Reconnecting, vars, fields, Move, Goto, Threads,
        ConnectLabels, ResetLabels
<1>1. CASE UNCHANGED vars
  BY <1>1
<1>2. ASSUME NEW t \in Threads, Connect(t) PROVE NoReset' /\ SingleReconnector'
  <2>1. pc' = pc \/ \E l \in ConnectLabels \cup {"idle", "reconnected"} :
            /\ pc[t] \in ConnectLabels /\ pc' = [pc EXCEPT ![t] = l]
    BY <1>2 DEF Connect, ConnectStart, AuthFails, DialFails, Dial, CancelOldLoop,
        SetReadCancel, StartReadLoop, Resubscribe, Returned
  <2>2. isReconnecting' = isReconnecting
    BY <1>2 DEF Connect, ConnectStart, AuthFails, DialFails, Dial, CancelOldLoop,
        SetReadCancel, StartReadLoop, Resubscribe
  <2>3. QED
    BY <2>1, <2>2
<1>3. ASSUME NEW u \in Users, Call(u) PROVE NoReset' /\ SingleReconnector'
  <2>1. PICK o \in UserOps :
          Move(u, "idle", o) /\ resets' = IF o = "reset" THEN resets + 1 ELSE resets
    BY <1>3 DEF Call
  <2>2. o # "reset" /\ o \in {"connect", "disconnect", "reset"}
    <3>1. CASE o = "reset"
      BY <2>1, <3>1
    <3>2. CASE o # "reset"
      BY <3>2
    <3>3. QED
      BY <3>1, <3>2
  <2>3. isReconnecting' = isReconnecting
    BY <1>3 DEF Call
  <2>4. QED
    BY <1>3, <2>1, <2>2, <2>3 DEF Call
<1>4. ASSUME NEW u \in Users, UserStep(u) PROVE NoReset' /\ SingleReconnector'
  BY <1>4 DEF UserStep, Disconnect, WsDisconnect, WsClose, Reset, ResetReadCancel, WsReset,
     ResetFields
<1>5. ASSUME NEW i \in Ids, Loop(i) PROVE NoReset' /\ SingleReconnector'
  BY <1>5 DEF Loop, LoopTop, ReadMessage, ReadFails, OnClose
<1>6. ASSUME NEW i \in Ids, TryReconnect(i) PROVE NoReset' /\ SingleReconnector'
  BY <1>6 DEF TryReconnect
<1>7. ASSUME NEW i \in Ids, Reconnected(i) PROVE NoReset' /\ SingleReconnector'
  BY <1>7 DEF Reconnected
<1>8. ASSUME NEW i \in Ids, Lose(i) \/ ContextDone(i) PROVE NoReset' /\ SingleReconnector'
  BY <1>8 DEF Lose, ContextDone
<1>9. QED
  BY <1>1, <1>2, <1>3, <1>4, <1>5, <1>6, <1>7, <1>8 DEF Next, Reconnect

(* Until the first Reset, at most one goroutine reconnects, and              *)
(* isReconnecting says so.                                                   *)
THEOREM OneReconnector == Spec => []SingleReconnector
<1>1. Init => SingleInv
  <2>1. Init => TypeOK
    BY InitTypeOK
  <2>2. Init => NoReset /\ SingleReconnector
    BY DEF Init, NoReset, ResetLabels, SingleReconnector, Reconnecting, ConnectLabels, Threads
  <2>3. QED
    BY <2>1, <2>2 DEF SingleInv
<1>2. SingleInv /\ [Next]_vars => SingleInv'
  BY TypeStep, SingleStep DEF SingleInv
<1>3. SingleInv => SingleReconnector
  BY DEF SingleInv
<1>4. QED
  BY <1>1, <1>2, <1>3, PTL DEF Spec

-----------------------------------------------------------------------------
(* Every step either spends nothing, or counts the one goroutine it adds.    *)
LEMMA SpentStep ==
    ASSUME TypeOK, NoReset, resets = 0, [Next]_vars
    PROVE  \/ Spent' \subseteq Spent /\ reconnectAttempts' = reconnectAttempts
           \/ /\ reconnectAttempts < MaxReconnectAttempts
              /\ reconnectAttempts' = reconnectAttempts + 1
              /\ \E i \in Ids : Spent' \subseteq Spent \cup {i}
<1> DEFINE Saves == Spent' \subseteq Spent /\ reconnectAttempts' = reconnectAttempts
<1> USE ConnectionAssumption DEF TypeOK, FieldsOK, ThreadsOK, NoReset, Spent, Reconnecting,
        vars, fields, Move, Goto, Threads, ConnectLabels, ResetLabels
<1>1. CASE UNCHANGED vars
  BY <1>1
<1>2. ASSUME NEW t \in Threads, Connect(t) PROVE Saves
  <2>1. reconnectAttempts' = reconnectAttempts
    BY <1>2 DEF Connect, ConnectStart, AuthFails, DialFails, Dial, CancelOldLoop,
        SetReadCancel, StartReadLoop, Resubscribe
  <2>2. pc[t] \in ConnectLabels
    BY <1>2 DEF Connect, ConnectStart, AuthFails, DialFails, Dial, CancelOldLoop,
        SetReadCancel, StartReadLoop, Resubscribe
  <2>3. \A i \in Ids \ {t} : pc'[i] = pc[i] /\ mine'[i] = mine[i]
    BY <1>2 DEF Connect, ConnectStart, AuthFails, DialFails, Dial, CancelOldLoop,
        SetReadCancel, StartReadLoop, Resubscribe
  <2>4. QED
    BY <2>1, <2>2, <2>3
<1>3. ASSUME NEW u \in Users, Call(u) \/ UserStep(u) PROVE Saves
  <2>1. \A i \in Ids : pc'[i] = pc[i] /\ mine' = mine
    BY <1>3 DEF Call, UserStep, Disconnect, WsDisconnect, WsClose, Reset, ResetReadCancel,
       WsReset, ResetFields
  <2>2. reconnectAttempts' = reconnectAttempts
    BY <1>3 DEF Call, UserStep, Disconnect, WsDisconnect, WsClose, Reset, ResetReadCancel,
       WsReset, ResetFields
  <2>3. QED
    BY <2>1, <2>2
<1>4. ASSUME NEW i \in Ids, Loop(i) PROVE Saves
  BY <1>4 DEF Loop, LoopTop, ReadMessage, ReadFails, OnClose
<1>5. ASSUME NEW i \in Ids, TryReconnect(i)
      PROVE  Saves \/ /\ reconnectAttempts < MaxReconnectAttempts
                      /\ reconnectAttempts' = reconnectAttempts + 1
                      /\ Spent' \subseteq Spent \cup {i}
  BY <1>5 DEF TryReconnect
<1>6. ASSUME NEW i \in Ids, Reconnected(i) \/ Lose(i) \/ ContextDone(i) PROVE Saves
  BY <1>6 DEF Reconnected, Lose, ContextDone
<1>7. QED
  BY <1>1, <1>2, <1>3, <1>4, <1>5, <1>6 DEF Next, Reconnect

(* There are finitely many of them.                                          *)
LEMMA SpentIsFinite == IsFiniteSet(Spent)
<1>1. IsFiniteSet(Ids)
  BY FS_Interval, ConnectionAssumption DEF Ids
<1>2. QED
  BY <1>1, FS_Subset DEF Spent

(* So no step exceeds the budget.                                            *)
LEMMA BudgetStep ==
    ASSUME TypeOK, NoReset, DialsWithinBudget, [Next]_vars
    PROVE  DialsWithinBudget'
<1> SUFFICES ASSUME resets' = 0, resets = 0 PROVE DialsWithinBudget'
  BY ResetsAreCounted DEF DialsWithinBudget
<1> USE DEF DialsWithinBudget, TypeOK, FieldsOK
<1>1. MaxReconnectAttempts \in Nat
  BY ConnectionAssumption
<1>2. IsFiniteSet(Spent) /\ Cardinality(Spent) \in Nat
  BY SpentIsFinite, FS_CardinalityType
<1>3. CASE Spent' \subseteq Spent /\ reconnectAttempts' = reconnectAttempts
  <2>1. Cardinality(Spent') <= Cardinality(Spent) /\ Cardinality(Spent') \in Nat
    BY <1>2, <1>3, FS_Subset, FS_CardinalityType
  <2>2. QED
    BY <1>1, <1>2, <1>3, <2>1
<1>4. CASE /\ reconnectAttempts < MaxReconnectAttempts
           /\ reconnectAttempts' = reconnectAttempts + 1
           /\ \E i \in Ids : Spent' \subseteq Spent \cup {i}
  <2>1. PICK i \in Ids : Spent' \subseteq Spent \cup {i}
    BY <1>4
  <2>2. /\ IsFiniteSet(Spent \cup {i})
        /\ Cardinality(Spent \cup {i}) <= Cardinality(Spent) + 1
        /\ Cardinality(Spent \cup {i}) \in Nat
    <3>1. /\ IsFiniteSet(Spent \cup {i})
          /\ \/ Cardinality(Spent \cup {i}) = Cardinality(Spent)
             \/ Cardinality(Spent \cup {i}) = Cardinality(Spent) + 1
      BY <1>2, FS_AddElement, Zenon
    <3>2. QED
      BY <1>2, <3>1
  <2>3. Cardinality(Spent') <= Cardinality(Spent \cup {i}) /\ Cardinality(Spent') \in Nat
    BY <2>1, <2>2, FS_Subset, FS_CardinalityType
  <2>4. QED
    BY <1>1, <1>2, <1>4, <2>2, <2>3
<1>5. QED
  BY <1>3, <1>4, SpentStep

(* Nobody reconnects at first, and nothing is spent.                         *)
LEMMA InitBudget == Init => SingleInv /\ DialsWithinBudget
<1> SUFFICES ASSUME Init PROVE SingleInv /\ DialsWithinBudget
  OBVIOUS
<1>1. TypeOK
  BY InitTypeOK
<1>2. NoReset /\ SingleReconnector /\ Spent = {}
  BY DEF Init, NoReset, ResetLabels, SingleReconnector, Reconnecting, ConnectLabels, Threads,
     Spent
<1>3. DialsWithinBudget
  BY <1>2, FS_EmptySet, ConnectionAssumption DEF Init, DialsWithinBudget
<1>4. QED
  BY <1>1, <1>2, <1>3 DEF SingleInv

(* Until the first Reset, the goroutines that ever dialled on their own      *)
(* number at most MaxReconnectAttempts.                                      *)
THEOREM BudgetKept == Spec => []DialsWithinBudget
<1>1. Init => SingleInv /\ DialsWithinBudget
  BY InitBudget
<1>2. SingleInv /\ DialsWithinBudget /\ [Next]_vars => SingleInv' /\ DialsWithinBudget'
  BY TypeStep, SingleStep, BudgetStep DEF SingleInv
<1>3. QED
  BY <1>1, <1>2, PTL DEF Spec

-----------------------------------------------------------------------------
(* Why a socket that works is read *)

(* Every dial starts one read loop at most, so there are numbers enough.     *)
Owing == {t \in Threads : pc[t] \in {"readCancel", "setReadCancel"}}
LoopsAreDialled == IsFiniteSet(Owing) /\ Cardinality(Owing) + loops <= dials

(* A thread is about to start a loop of its own that nobody knows yet, and a *)
(* loop that has not ended has no reconnector.                               *)
Starting(t) == pc[t] = "startReadLoop"
LoopsAreNumbered ==
    /\ readCancel <= loops /\ \A i \in cancelled : i <= loops
    /\ \A t \in Threads : Starting(t) => mine[t] \in 1 .. loops
    /\ \A t, s \in Threads : Starting(t) /\ Starting(s) /\ mine[t] = mine[s] => t = s
    /\ \A i \in Ids :
        /\ loop[i] # "none" => i <= loops
        /\ loop[i] # "none" => \A t \in Threads : ~ (Starting(t) /\ mine[t] = i)
        /\ loop[i] # "done" => pc[i] = "idle"

(* Somebody reads the socket, or will: the thread that dialled it, whoever   *)
(* cancelled the loop that should have; or a Reset is about to close it.     *)
ReadsNow(i) == reading[i] = wsConn /\ loop[i] \in {"top", "reading"} /\ i \notin cancelled
WillRead(t) ==
    \/ pc[t] \in {"readCancel", "setReadCancel", "wsReset"}
    \/ Starting(t) /\ mine[t] \notin cancelled
WillBeRead ==
    contexts = 0 /\ wsConn # 0 /\ socket[wsConn] = "open"
        => (\E i \in Ids : ReadsNow(i)) \/ (\E t \in Threads : WillRead(t))

LiveInv == TypeOK /\ LoopsAreDialled /\ LoopsAreNumbered /\ WillBeRead

(* Only Dial adds a thread that owes a loop, and only starting one takes it. *)
LEMMA OwingStep ==
    ASSUME LiveInv, [Next]_vars
    PROVE  LoopsAreDialled'
<1> USE DEF LiveInv, TypeOK, CountersOK, ThreadsOK
<1>1. /\ IsFiniteSet(Owing) /\ Cardinality(Owing) \in Nat /\ Cardinality(Owing) + loops <= dials
      /\ loops \in Nat /\ dials \in Nat
  BY FS_CardinalityType, ConnectionAssumption DEF LoopsAreDialled
<1>2. ASSUME Owing' \subseteq Owing, UNCHANGED <<loops, dials>> PROVE LoopsAreDialled'
  <2>1. /\ IsFiniteSet(Owing') /\ Cardinality(Owing') <= Cardinality(Owing)
        /\ Cardinality(Owing') \in Nat
    BY <1>1, <1>2, FS_Subset, FS_CardinalityType
  <2>2. QED
    BY <1>1, <1>2, <2>1 DEF LoopsAreDialled
<1>3. ASSUME NEW t \in Threads, Dial(t) PROVE LoopsAreDialled'
  <2>1. Owing' = Owing \cup {t} /\ t \notin Owing /\ dials' = dials + 1 /\ loops' = loops
    BY <1>3 DEF Dial, Move, Goto, Owing
  <2>2. IsFiniteSet(Owing') /\ Cardinality(Owing') = Cardinality(Owing) + 1
    BY <1>1, <2>1, FS_AddElement, Zenon
  <2>3. QED
    BY <1>1, <2>1, <2>2 DEF LoopsAreDialled
<1>4. ASSUME NEW t \in Threads, SetReadCancel(t) PROVE LoopsAreDialled'
  <2>1. Owing' = Owing \ {t} /\ t \in Owing /\ dials' = dials /\ loops' = loops + 1
    BY <1>4 DEF SetReadCancel, Move, Goto, Owing
  <2>2. IsFiniteSet(Owing') /\ Cardinality(Owing') = Cardinality(Owing) - 1
    BY <1>1, <2>1, FS_RemoveElement, Zenon
  <2>3. QED
    BY <1>1, <2>1, <2>2 DEF LoopsAreDialled
<1>5. ASSUME NEW t \in Threads, \/ ConnectStart(t) \/ AuthFails(t) \/ DialFails(t)
                                \/ CancelOldLoop(t) \/ StartReadLoop(t) \/ Resubscribe(t)
      PROVE  LoopsAreDialled'
  <2>1. Owing' \subseteq Owing /\ UNCHANGED <<loops, dials>>
    BY <1>5 DEF ConnectStart, AuthFails, DialFails, CancelOldLoop, StartReadLoop, Resubscribe,
       Returned, Move, Goto, Owing
  <2>2. QED
    BY <1>2, <2>1
<1>6. ASSUME NEW u \in Users, Call(u) \/ UserStep(u) PROVE LoopsAreDialled'
  <2>1. \A o \in UserOps : o \notin {"readCancel", "setReadCancel"}
    BY ConnectionAssumption
  <2>2. Owing' \subseteq Owing /\ UNCHANGED <<loops, dials>>
    BY <1>6, <2>1 DEF Call, UserStep, Disconnect, WsDisconnect, WsClose, Reset, ResetReadCancel,
       WsReset, ResetFields, Move, Goto, Owing
  <2>3. QED
    BY <1>2, <2>2
<1>7. ASSUME NEW i \in Ids, Loop(i) \/ Reconnect(i) \/ Lose(i) \/ ContextDone(i)
      PROVE  LoopsAreDialled'
  <2>1. Owing' \subseteq Owing /\ UNCHANGED <<loops, dials>>
    BY <1>7 DEF Loop, LoopTop, ReadMessage, ReadFails, OnClose, Reconnect, TryReconnect,
       Reconnected, Lose, ContextDone, Move, Goto, Owing
  <2>2. QED
    BY <1>2, <2>1
<1>8. CASE UNCHANGED vars
  BY <1>2, <1>8 DEF vars, Owing
<1>9. QED
  BY <1>3, <1>4, <1>5, <1>6, <1>7, <1>8 DEF Next, Connect

(* A thread that starts a loop has a number for it.                          *)
LEMMA StartingHasId ==
    ASSUME LiveInv, NEW t \in Threads, Starting(t)
    PROVE  mine[t] \in Ids
<1>1. Cardinality(Owing) \in Nat /\ loops \in Nat /\ dials \in 0 .. MaxDials /\ MaxDials \in Nat
      /\ Cardinality(Owing) + loops <= dials
  BY FS_CardinalityType, ConnectionAssumption DEF LiveInv, TypeOK, CountersOK, LoopsAreDialled
<1>2. mine[t] \in 1 .. loops
  BY DEF LiveInv, LoopsAreNumbered
<1>3. QED
  BY <1>1, <1>2 DEF Ids

(* Nothing starts, and no loop or reconnector begins.                        *)
LEMMA NumbersStay ==
    ASSUME LiveInv, UNCHANGED <<readCancel, mine, loops>>,
           \A i \in cancelled' : i \in cancelled \/ i <= loops,
           \A t \in Threads : Starting(t)' => Starting(t),
           \A i \in Ids :
               /\ loop'[i] # "none" <=> loop[i] # "none"
               /\ loop'[i] # "done" => loop[i] # "done" /\ pc'[i] = pc[i]
    PROVE  LoopsAreNumbered'
BY DEF LiveInv, LoopsAreNumbered

(* A new loop gets a new number, and only a thread that starts one has it.    *)
LEMMA NumberedStep ==
    ASSUME LiveInv, [Next]_vars
    PROVE  LoopsAreNumbered'
<1> USE DEF LiveInv, TypeOK, CountersOK, LoopsOK, ThreadsOK
<1>1. ASSUME NEW t \in Threads, \/ ConnectStart(t) \/ AuthFails(t) \/ DialFails(t)
                                \/ Dial(t) \/ CancelOldLoop(t) \/ Resubscribe(t)
      PROVE  LoopsAreNumbered'
  <2>1. /\ UNCHANGED <<readCancel, mine, loops, loop>>
        /\ cancelled' = cancelled \/ cancelled' = cancelled \cup {readCancel}
        /\ pc[t] \in ConnectLabels
        /\ \A s \in Threads \ {t} : pc'[s] = pc[s]
        /\ ~Starting(t)'
    BY <1>1 DEF ConnectStart, AuthFails, DialFails, Dial, CancelOldLoop, Resubscribe,
       Cancel, Returned, Move, Goto, Starting, loopVars, ConnectLabels
  <2>2. \A i \in Ids : loop[i] # "done" => i # t
    BY <2>1 DEF LoopsAreNumbered, ConnectLabels
  <2>3. \A i \in cancelled' : i \in cancelled \/ i <= loops
    BY <2>1 DEF LoopsAreNumbered
  <2>4. Ids \subseteq Threads
    BY DEF Threads
  <2>5. QED
    BY <2>1, <2>2, <2>3, <2>4, NumbersStay DEF Starting
<1>2. ASSUME NEW t \in Threads, SetReadCancel(t) PROVE LoopsAreNumbered'
  <2>1. /\ pc[t] = "setReadCancel" /\ pc' = [pc EXCEPT ![t] = "startReadLoop"]
        /\ loops' = loops + 1 /\ readCancel' = loops + 1
        /\ mine' = [mine EXCEPT ![t] = loops + 1]
        /\ UNCHANGED <<cancelled, loop>>
    BY <1>2 DEF SetReadCancel, Move, Goto
  <2>2. loops \in Nat /\ cancelled \subseteq Nat /\ Ids \subseteq Nat /\ Ids \subseteq Threads
    BY DEF Ids, Threads
  <2>3. /\ readCancel' <= loops' /\ \A i \in cancelled' : i <= loops'
    BY <2>1, <2>2 DEF LoopsAreNumbered
  <2>4. \A s \in Threads \ {t} : mine'[s] = mine[s] /\ (Starting(s)' <=> Starting(s))
    BY <2>1 DEF Starting
  <2>5. mine'[t] = loops + 1
    BY <2>1
  <2>6. \A s \in Threads \ {t} : Starting(s) => mine[s] \in 1 .. loops
    BY DEF LoopsAreNumbered
  <2>7. \A s \in Threads : Starting(s)' => mine'[s] \in 1 .. loops'
    BY <2>1, <2>2, <2>4, <2>5, <2>6
  <2>8. \A r, s \in Threads : Starting(r)' /\ Starting(s)' /\ mine'[r] = mine'[s] => r = s
    BY <2>2, <2>4, <2>5, <2>6 DEF LoopsAreNumbered
  <2>9. ASSUME NEW i \in Ids
        PROVE  /\ loop'[i] # "none" => i <= loops'
               /\ loop'[i] # "none" => \A s \in Threads : ~ (Starting(s)' /\ mine'[s] = i)
               /\ loop'[i] # "done" => pc'[i] = "idle"
    <3>1. loop[i] # "none" => i <= loops
      BY DEF LoopsAreNumbered
    <3>2. loop[i] # "none" => i # loops + 1 /\ i <= loops'
      BY <2>1, <2>2, <3>1
    <3>3. loop[i] # "done" => i # t
      BY <2>1 DEF LoopsAreNumbered
    <3>4. QED
      BY <2>1, <2>2, <2>4, <2>5, <3>2, <3>3 DEF LoopsAreNumbered
  <2>10. QED
    BY <2>3, <2>7, <2>8, <2>9 DEF LoopsAreNumbered
<1>3. ASSUME NEW t \in Threads, StartReadLoop(t) PROVE LoopsAreNumbered'
  <2>1. /\ Starting(t) /\ pc' = [pc EXCEPT ![t] = "resubscribe"]
        /\ loop' = loop \/ loop' = [loop EXCEPT ![mine[t]] = "top"]
        /\ UNCHANGED <<cancelled, mine, readCancel, loops>>
    BY <1>3 DEF StartReadLoop, Move, Goto, Starting
  <2>2. mine[t] \in Ids /\ mine[t] \in 1 .. loops /\ loop[mine[t]] = "none"
    BY <2>1, StartingHasId DEF LoopsAreNumbered
  <2>3. /\ \A s \in Threads \ {t} : Starting(s)' <=> Starting(s)
        /\ ~Starting(t)'
    BY <2>1 DEF Starting
  <2>4. /\ \A i \in Ids \ {mine[t]} : loop'[i] = loop[i]
        /\ loop'[mine[t]] \in {"none", "top"}
    BY <2>1, <2>2
  <2>5. \A i \in Ids : pc[i] = "idle" => pc'[i] = "idle"
    BY <2>1 DEF Starting, Threads
  <2>6. ASSUME NEW i \in Ids
        PROVE  /\ loop'[i] # "none" => i <= loops'
               /\ loop'[i] # "none" => \A s \in Threads : ~ (Starting(s)' /\ mine'[s] = i)
               /\ loop'[i] # "done" => pc'[i] = "idle"
    <3>1. CASE i = mine[t]
      BY <2>1, <2>2, <2>3, <2>5, <3>1 DEF LoopsAreNumbered
    <3>2. CASE i # mine[t]
      BY <2>1, <2>3, <2>4, <2>5, <3>2 DEF LoopsAreNumbered
    <3>3. QED
      BY <3>1, <3>2
  <2>7. QED
    BY <2>1, <2>3, <2>6 DEF LoopsAreNumbered
<1>4. ASSUME NEW u \in Users, Call(u) \/ UserStep(u) PROVE LoopsAreNumbered'
  <2>1. u \in Threads /\ u \notin Ids /\ \A o \in UserOps : o # "startReadLoop"
    BY ConnectionAssumption DEF Threads
  <2>2. /\ UNCHANGED <<readCancel, mine, loops, loop>>
        /\ cancelled' = cancelled \/ cancelled' = cancelled \cup {readCancel}
        /\ \A s \in Threads \ {u} : pc'[s] = pc[s]
        /\ ~Starting(u)'
    BY <1>4, <2>1 DEF Call, UserStep, Disconnect, WsDisconnect, WsClose, Reset, ResetReadCancel,
       WsReset, ResetFields, Cancel, Move, Goto, Starting, loopVars
  <2>3. \A i \in cancelled' : i \in cancelled \/ i <= loops
    BY <2>2 DEF LoopsAreNumbered
  <2>4. Ids \subseteq Threads
    BY DEF Threads
  <2>5. QED
    BY <2>1, <2>2, <2>3, <2>4, NumbersStay DEF Starting
<1>5. ASSUME NEW i \in Ids, Loop(i) \/ Lose(i) \/ ContextDone(i) PROVE LoopsAreNumbered'
  <2>1. /\ UNCHANGED <<readCancel, mine, loops>>
        /\ cancelled' = cancelled \/ (cancelled' = cancelled \cup {i} /\ loop[i] # "none")
        /\ \A j \in Ids \ {i} : loop'[j] = loop[j]
        /\ loop'[i] = loop[i] \/ (loop[i] \notin {"none", "done"} /\ loop'[i] # "none")
        /\ pc' = pc \/ (pc' = [pc EXCEPT ![i] = "tryReconnect"] /\ loop'[i] = "done")
    BY <1>5 DEF Loop, LoopTop, ReadMessage, ReadFails, OnClose, Lose, ContextDone, LoopGoto,
       Goto, Cancel, loopVars
  <2>2. \A j \in cancelled' : j \in cancelled \/ j <= loops
    BY <2>1 DEF LoopsAreNumbered
  <2>3. \A t \in Threads : Starting(t)' => Starting(t)
    BY <2>1 DEF Starting
  <2>4. \A j \in Ids :
            /\ loop'[j] # "none" <=> loop[j] # "none"
            /\ loop'[j] # "done" => loop[j] # "done" /\ pc'[j] = pc[j]
    BY <2>1 DEF Threads
  <2>5. QED
    BY <2>1, <2>2, <2>3, <2>4, NumbersStay
<1>6. ASSUME NEW i \in Ids, Reconnect(i) PROVE LoopsAreNumbered'
  <2>1. /\ UNCHANGED <<readCancel, mine, loops, loop, cancelled>>
        /\ pc[i] \in {"tryReconnect", "reconnected"}
        /\ \A s \in Threads \ {i} : pc'[s] = pc[s]
        /\ ~Starting(i)'
    BY <1>6 DEF Reconnect, TryReconnect, Reconnected, Move, Goto, loopVars, Starting, Threads
  <2>2. \A j \in Ids : loop[j] # "done" => j # i
    BY <2>1 DEF LoopsAreNumbered
  <2>3. Ids \subseteq Threads
    BY DEF Threads
  <2>4. QED
    BY <2>1, <2>2, <2>3, NumbersStay DEF Starting
<1>7. CASE UNCHANGED vars
  BY <1>7, NumbersStay DEF vars, loopVars, Starting
<1>8. QED
  BY <1>1, <1>2, <1>3, <1>4, <1>5, <1>6, <1>7 DEF Next, Connect

(* Whoever could have read the socket is replaced by somebody who will.      *)
LEMMA ReadStep ==
    ASSUME LiveInv, [Next]_vars
    PROVE  WillBeRead'
<1> USE DEF LiveInv, TypeOK, NetOK, CountersOK, LoopsOK, ThreadsOK
<1>0. Ids \subseteq Threads /\ Users \subseteq Threads
  BY DEF Threads
<1>1. ASSUME contexts' = 0 => contexts = 0,
             wsConn' = wsConn, socket'[wsConn] = "open" => socket[wsConn] = "open",
             \A i \in Ids : socket[wsConn] = "open" /\ ReadsNow(i) => ReadsNow(i)',
             \A t \in Threads : WillRead(t) => WillRead(t)'
      PROVE  WillBeRead'
  BY <1>1 DEF WillBeRead
<1>2. ASSUME NEW t \in Threads, WillRead(t)' PROVE WillBeRead'
  BY <1>2 DEF WillBeRead
<1>3. ASSUME wsConn' = 0 PROVE WillBeRead'
  BY <1>3 DEF WillBeRead
<1>4. ASSUME NEW t \in Threads, ConnectStart(t) \/ AuthFails(t) \/ Resubscribe(t) PROVE WillBeRead'
  <2>1. /\ UNCHANGED <<contexts, wsConn, socket, cancelled, reading, loop, mine>>
        /\ pc[t] \in {"connect", "dial", "resubscribe"}
        /\ \A s \in Threads \ {t} : pc'[s] = pc[s]
    BY <1>4 DEF ConnectStart, AuthFails, Resubscribe, Move, Goto, net, loopVars, bounds
  <2>2. QED
    BY <1>1, <2>1 DEF ReadsNow, WillRead, Starting
<1>5. ASSUME NEW t \in Threads, DialFails(t) PROVE WillBeRead'
  BY <1>3, <1>5 DEF DialFails
<1>6. ASSUME NEW t \in Threads, Dial(t) \/ CancelOldLoop(t) PROVE WillBeRead'
  <2>1. pc'[t] \in {"readCancel", "setReadCancel"}
    BY <1>6 DEF Dial, CancelOldLoop, Move, Goto
  <2>2. QED
    BY <1>2, <2>1 DEF WillRead
<1>7. ASSUME NEW t \in Threads, SetReadCancel(t) PROVE WillBeRead'
  <2>1. Starting(t)' /\ mine'[t] = loops + 1 /\ cancelled' = cancelled
    BY <1>7 DEF SetReadCancel, Move, Goto, Starting
  <2>2. mine'[t] \notin cancelled'
    BY <2>1 DEF LoopsAreNumbered
  <2>3. QED
    BY <1>2, <2>1, <2>2 DEF WillRead
<1>8. ASSUME NEW t \in Threads, StartReadLoop(t) PROVE WillBeRead'
  <2>1. /\ Starting(t) /\ pc' = [pc EXCEPT ![t] = "resubscribe"]
        /\ UNCHANGED <<contexts, wsConn, socket, cancelled, mine>>
        /\ wsConn # 0 => /\ reading' = [reading EXCEPT ![mine[t]] = wsConn]
                         /\ loop' = [loop EXCEPT ![mine[t]] = "top"]
    BY <1>8 DEF StartReadLoop, Move, Goto, Starting, net, bounds
  <2>2. CASE wsConn = 0
    BY <1>3, <2>1, <2>2
  <2>3. CASE wsConn # 0
    <3>1. mine[t] \in Ids
      BY <2>1, StartingHasId
    <3>2. /\ reading'[mine[t]] = wsConn /\ loop'[mine[t]] = "top"
          /\ \A i \in Ids \ {mine[t]} : reading'[i] = reading[i] /\ loop'[i] = loop[i]
      BY <2>1, <2>3, <3>1
    <3>3. \A i \in Ids : ReadsNow(i) => ReadsNow(i)'
      BY <2>1, <3>2 DEF ReadsNow
    <3>4. WillRead(t) => ReadsNow(mine[t])'
      BY <2>1, <3>2 DEF WillRead, ReadsNow, Starting
    <3>5. \A s \in Threads \ {t} : WillRead(s) => WillRead(s)'
      BY <2>1 DEF WillRead, Starting
    <3>6. QED
      BY <2>1, <3>1, <3>3, <3>4, <3>5 DEF WillBeRead
  <2>4. QED
    BY <2>2, <2>3
<1>9. ASSUME NEW u \in Users, ResetReadCancel(u) PROVE WillBeRead'
  <2>1. pc'[u] = "wsReset"
    BY <1>0, <1>9 DEF ResetReadCancel, Move, Goto
  <2>2. QED
    BY <1>0, <1>2, <2>1 DEF WillRead
<1>10. ASSUME NEW u \in Users, WsDisconnect(u) \/ WsReset(u) PROVE WillBeRead'
  BY <1>3, <1>10 DEF WsDisconnect, WsReset, WsClose
<1>11. ASSUME NEW u \in Users, Call(u) \/ Disconnect(u) \/ Reset(u) \/ ResetFields(u)
       PROVE  WillBeRead'
  <2>1. /\ UNCHANGED <<contexts, wsConn, socket, cancelled, reading, loop, mine>>
        /\ pc[u] \in {"idle", "disconnect", "reset", "resetFields"}
        /\ \A s \in Threads \ {u} : pc'[s] = pc[s]
    BY <1>11 DEF Call, Disconnect, Reset, ResetFields, Move, Goto, net, loopVars, bounds
  <2>2. QED
    BY <1>1, <2>1 DEF ReadsNow, WillRead, Starting
<1>12. ASSUME NEW i \in Ids, LoopTop(i) \/ ReadMessage(i) \/ ReadFails(i) PROVE WillBeRead'
  <2>1. /\ UNCHANGED <<contexts, wsConn, socket, cancelled, reading, pc, mine>>
        /\ \A j \in Ids \ {i} : loop'[j] = loop[j]
    BY <1>12 DEF LoopTop, ReadMessage, ReadFails, LoopGoto, net, bounds
  <2>2. socket[wsConn] = "open" /\ ReadsNow(i) => loop'[i] \in {"top", "reading"}
    BY <1>12 DEF LoopTop, ReadMessage, ReadFails, LoopGoto, ReadsNow
  <2>3. QED
    BY <1>1, <2>1, <2>2 DEF ReadsNow, WillRead, Starting
<1>13. ASSUME NEW i \in Ids, OnClose(i) PROVE WillBeRead'
  <2>1. /\ UNCHANGED <<contexts, wsConn, socket, reading, mine>>
        /\ loop[i] = "onClose" /\ cancelled' = cancelled \cup {i}
        /\ \A j \in Ids \ {i} : loop'[j] = loop[j]
        /\ \A s \in Threads \ {i} : pc'[s] = pc[s]
    BY <1>13 DEF OnClose, LoopGoto, Goto, net, bounds
  <2>2. pc[i] = "idle" /\ \A t \in Threads : ~ (Starting(t) /\ mine[t] = i)
    BY <2>1 DEF LoopsAreNumbered
  <2>3. \A j \in Ids : ReadsNow(j) => ReadsNow(j)'
    BY <2>1 DEF ReadsNow
  <2>4. \A t \in Threads : WillRead(t) => WillRead(t)'
    BY <2>1, <2>2 DEF WillRead, Starting
  <2>5. QED
    BY <1>1, <2>1, <2>3, <2>4
<1>14. ASSUME NEW i \in Ids, Reconnect(i) PROVE WillBeRead'
  <2>1. /\ UNCHANGED <<contexts, wsConn, socket, cancelled, reading, loop, mine>>
        /\ pc[i] \in {"tryReconnect", "reconnected"}
        /\ \A s \in Threads \ {i} : pc'[s] = pc[s]
    BY <1>14 DEF Reconnect, TryReconnect, Reconnected, Move, Goto, net, loopVars, bounds
  <2>2. QED
    BY <1>1, <2>1 DEF ReadsNow, WillRead, Starting
<1>15. ASSUME NEW i \in Ids, Lose(i) PROVE WillBeRead'
  <2>1. /\ UNCHANGED <<contexts, wsConn, cancelled, reading, loop, pc, mine>>
        /\ socket' = [socket EXCEPT ![i] = "closed"]
    BY <1>15 DEF Lose, loopVars
  <2>2. wsConn \in Ids /\ socket'[wsConn] = "open" => socket[wsConn] = "open"
    BY <2>1
  <2>3. CASE wsConn = 0
    BY <1>3, <2>1, <2>3
  <2>4. CASE wsConn # 0
    <3>1. wsConn \in Ids
      BY <2>4 DEF MaybeId
    <3>2. QED
      BY <1>1, <2>1, <2>2, <3>1 DEF ReadsNow, WillRead, Starting
  <2>5. QED
    BY <2>3, <2>4
<1>16. ASSUME NEW i \in Ids, ContextDone(i) PROVE WillBeRead'
  <2>1. contexts' = contexts + 1 /\ contexts \in Nat
    BY <1>16 DEF ContextDone
  <2>2. contexts' # 0
    BY <2>1
  <2>3. QED
    BY <2>2 DEF WillBeRead
<1>17. CASE UNCHANGED vars
  BY <1>1, <1>17 DEF vars, net, loopVars, bounds, ReadsNow, WillRead, Starting
<1>18. QED
  BY <1>4, <1>5, <1>6, <1>7, <1>8, <1>9, <1>10, <1>11, <1>12, <1>13, <1>14, <1>15, <1>16, <1>17
  DEF Next, Connect, UserStep, Loop

(* At first there is no socket to read.                                      *)
LEMMA InitLive == Init => LiveInv
<1> SUFFICES ASSUME Init PROVE LiveInv
  OBVIOUS
<1>1. TypeOK
  BY InitTypeOK
<1>2. LoopsAreDialled
  <2>1. Owing = {} /\ loops = 0 /\ dials = 0
    BY DEF Init, Owing
  <2>2. QED
    BY <2>1, FS_EmptySet DEF LoopsAreDialled
<1>3. LoopsAreNumbered /\ WillBeRead
  BY DEF Init, LoopsAreNumbered, WillBeRead, Starting, Threads
<1>4. QED
  BY <1>1, <1>2, <1>3 DEF LiveInv

(* However Connect, Disconnect, Reset, reconnections and losses interleave,  *)
(* a socket that works does not stay unread.                                 *)
THEOREM LiveSocketsAreRead == Spec => []LiveSocketIsRead
<1>1. Init => LiveInv
  BY InitLive
<1>2. LiveInv /\ [Next]_vars => LiveInv'
  BY TypeStep, OwingStep, NumberedStep, ReadStep DEF LiveInv
<1>3. LiveInv => LiveSocketIsRead
  BY DEF LiveInv, WillBeRead, LiveSocketIsRead, ReadsNow, WillRead, Starting, ConnectLabels,
     ResetLabels
<1>4. QED
  BY <1>1, <1>2, <1>3, PTL DEF Spec
-----------------------------------------------------------------------------
(* Why a lost socket is not forgotten *)

(* Until the first Reset, isReconnecting is set only while somebody          *)
(* reconnects.  What a reconnecting goroutine has dialled holds, unless it   *)
(* is lost during the reconnect.                                             *)
FlagIsUsed == resets = 0 => ~resetting /\ (isReconnecting => \E i \in Ids : Reconnecting(i))
HasDialled == {"readCancel", "setReadCancel", "startReadLoop", "resubscribe", "reconnected"}
NewSocketHolds ==
    resets = 0 /\ ~GivesUp /\ Lost => \A i \in Ids : pc[i] \notin HasDialled

LossInv == LiveInv /\ SingleInv /\ DialsWithinBudget /\ FlagIsUsed /\ NewSocketHolds

(* What excuses the code stays an excuse.                                    *)
LEMMA ExcusesStay ==
    ASSUME TypeOK, [Next]_vars
    PROVE  /\ GivesUp => GivesUp'
           /\ contexts > 0 => contexts' > 0
           /\ resets > 0 => resets' > 0
<1>1. /\ resets' \in {resets, resets + 1}
      /\ failures' \in {failures, failures + 1}
      /\ overlaps' \in {overlaps, overlaps + 1}
      /\ contexts' \in {contexts, contexts + 1}
  BY DEF Next, vars, bounds, Connect, ConnectStart, AuthFails, DialFails, Dial, CancelOldLoop,
     SetReadCancel, StartReadLoop, Resubscribe, Call, UserStep, Disconnect, WsDisconnect, WsClose,
     Reset, ResetReadCancel, WsReset, ResetFields, Loop, LoopTop, ReadMessage, ReadFails, OnClose,
     Reconnect, TryReconnect, Reconnected, Lose, ContextDone
<1>2. QED
  BY <1>1 DEF TypeOK, CountersOK, GivesUp

(* Only tryReconnect sets the flag, and only its end clears it.              *)
LEMMA FlagStep ==
    ASSUME LossInv, [Next]_vars
    PROVE  FlagIsUsed'
<1> SUFFICES ASSUME resets' = 0, resets = 0 PROVE FlagIsUsed'
  BY ResetsAreCounted DEF LossInv, SingleInv, FlagIsUsed
<1> USE ConnectionAssumption DEF LossInv, SingleInv, TypeOK, ThreadsOK, FieldsOK, NoReset,
        FlagIsUsed, Reconnecting, Move, Goto, fields, Threads
<1>1. ASSUME UNCHANGED <<isReconnecting, resetting>>,
             \A i \in Ids : Reconnecting(i) => Reconnecting(i)'
      PROVE  FlagIsUsed'
  BY <1>1
<1>2. ASSUME NEW t \in Threads, Connect(t) PROVE FlagIsUsed'
  <2>1. /\ UNCHANGED <<isReconnecting, resetting>>
        /\ \A s \in Threads \ {t} : pc'[s] = pc[s]
        /\ pc'[t] \in ConnectLabels \cup {Returned(t)}
    BY <1>2 DEF Connect, ConnectStart, AuthFails, DialFails, Dial, CancelOldLoop, SetReadCancel,
       StartReadLoop, Resubscribe, Returned, ConnectLabels
  <2>2. QED
    BY <1>1, <2>1 DEF Returned
<1>3. ASSUME NEW u \in Users, Call(u) \/ UserStep(u) PROVE FlagIsUsed'
  <2>1. /\ UNCHANGED <<isReconnecting, resetting>>
        /\ \A s \in Threads \ {u} : pc'[s] = pc[s]
    BY <1>3 DEF Call, UserStep, Disconnect, WsDisconnect, WsClose, Reset, ResetReadCancel,
       WsReset, ResetFields, ResetLabels
  <2>2. QED
    BY <1>1, <2>1
<1>4. ASSUME NEW i \in Ids, Loop(i) \/ Lose(i) \/ ContextDone(i) PROVE FlagIsUsed'
  <2>1. /\ UNCHANGED <<isReconnecting, resetting>>
        /\ \A s \in Threads \ {i} : pc'[s] = pc[s]
        /\ pc'[i] # pc[i] => loop[i] # "done"
    BY <1>4 DEF Loop, LoopTop, ReadMessage, ReadFails, OnClose, Lose, ContextDone
  <2>2. pc'[i] # pc[i] => pc[i] = "idle"
    BY <2>1 DEF LiveInv, LoopsAreNumbered
  <2>3. QED
    BY <1>1, <2>1, <2>2 DEF ConnectLabels
<1>5. ASSUME NEW i \in Ids, Reconnect(i) PROVE FlagIsUsed'
  <2>1. CASE TryReconnect(i)
    BY <2>1 DEF TryReconnect, ConnectLabels
  <2>2. CASE Reconnected(i)
    BY <2>2 DEF Reconnected
  <2>3. QED
    BY <1>5, <2>1, <2>2 DEF Reconnect
<1>6. CASE UNCHANGED vars
  BY <1>1, <1>6 DEF vars
<1>7. QED
  BY <1>2, <1>3, <1>4, <1>5, <1>6 DEF Next

(* A loss while somebody reconnects is an excuse; so is a dial that fails.   *)
LEMMA NewSocketStep ==
    ASSUME LossInv, [Next]_vars
    PROVE  NewSocketHolds'
<1> SUFFICES ASSUME resets' = 0, ~GivesUp', Lost', resets = 0, ~GivesUp,
                    NEW j \in Ids, pc'[j] \in HasDialled
             PROVE  FALSE
  BY ResetsAreCounted, ExcusesStay DEF LossInv, SingleInv, NewSocketHolds
<1> USE ConnectionAssumption DEF LossInv, SingleInv, TypeOK, ThreadsOK, CountersOK, NetOK,
        GivesUp, Move, Goto, Threads, HasDialled, Lost, NewSocketHolds
<1>1. ASSUME wsConn' = wsConn, socket' = socket, pc[j] \in HasDialled PROVE FALSE
  BY <1>1
<1>2. ASSUME NEW t \in Threads, Connect(t) PROVE FALSE
  <2>1. CASE ConnectStart(t)
    BY <1>1, <2>1 DEF ConnectStart, FlagIsUsed, net
  <2>2. CASE AuthFails(t) \/ DialFails(t)
    BY <2>2 DEF AuthFails, DialFails
  <2>3. CASE Dial(t)
    <3>1. wsConn' = dials + 1 /\ dials + 1 \in Ids /\ socket'[dials + 1] = "open"
      BY <2>3 DEF Dial, Closed, Ids
    <3>2. QED
      BY <3>1
  <2>4. CASE CancelOldLoop(t) \/ SetReadCancel(t) \/ StartReadLoop(t) \/ Resubscribe(t)
    BY <1>1, <2>4 DEF CancelOldLoop, SetReadCancel, StartReadLoop, Resubscribe, net
  <2>5. QED
    BY <1>2, <2>1, <2>2, <2>3, <2>4 DEF Connect
<1>3. ASSUME NEW u \in Users, Call(u) \/ UserStep(u) PROVE FALSE
  <2>1. pc[j] = pc'[j]
    BY <1>3 DEF Call, UserStep, Disconnect, WsDisconnect, WsClose, Reset, ResetReadCancel,
       WsReset, ResetFields
  <2>2. wsConn' = 0 \/ (wsConn' = wsConn /\ socket' = socket)
    BY <1>3 DEF Call, UserStep, Disconnect, WsDisconnect, WsClose, Reset, ResetReadCancel,
       WsReset, ResetFields, net
  <2>3. QED
    BY <1>1, <2>1, <2>2
<1>4. ASSUME NEW i \in Ids, Loop(i) \/ Reconnect(i) \/ ContextDone(i) PROVE FALSE
  BY <1>1, <1>4 DEF Loop, LoopTop, ReadMessage, ReadFails, OnClose, Reconnect, TryReconnect,
     Reconnected, ContextDone, net
<1>5. ASSUME NEW i \in Ids, Lose(i) PROVE FALSE
  <2>1. pc' = pc /\ overlaps' = overlaps
    BY <1>5 DEF Lose
  <2>2. QED
    BY <1>5, <2>1 DEF Lose
<1>6. CASE UNCHANGED vars
  BY <1>1, <1>6 DEF vars, net
<1>7. QED
  BY <1>2, <1>3, <1>4, <1>5, <1>6 DEF Next

(* While a socket is lost, whoever holds isReconnecting is about to dial.    *)
LEMMA HolderDials ==
    ASSUME LossInv, Lost, ~GivesUp, resets = 0, isReconnecting
    PROVE  \E j \in Ids : pc[j] \in {"connect", "dial"}
BY DEF LossInv, FlagIsUsed, NewSocketHolds, Reconnecting, HasDialled, ConnectLabels

(* Whoever has a lost socket in charge hands it on, until it is replaced.    *)
LEMMA ChargeStep ==
    ASSUME LossInv, LossIsHandled, [Next]_vars
    PROVE  LossIsHandled'
<1> SUFFICES ASSUME Lost', ~MayStopTrying', ~GivesUp' PROVE InCharge'
  BY DEF LossIsHandled
<1>1. resets = 0 /\ contexts = 0 /\ ~GivesUp
  BY ExcusesStay DEF LossInv, SingleInv, MayStopTrying, TypeOK, CountersOK
<1>2. TypeOK /\ Ids \subseteq Threads /\ Users \subseteq Threads /\ Users \cap Ids = {}
      /\ \A t \in Threads : pc[t] \notin ResetLabels
  BY <1>1, ConnectionAssumption DEF LossInv, SingleInv, NoReset, Threads
<1>3. wsConn' # 0
  BY DEF Lost
<1> USE <1>1, <1>2 DEF TypeOK, NetOK, LoopsOK, ThreadsOK, FieldsOK, CountersOK
<1>4. ASSUME NEW t \in Threads, StartsReading(t)' \/ pc'[t] \in {"connect", "dial"}
      PROVE  InCharge'
  BY <1>4 DEF InCharge
<1>5. ASSUME Lost, ~intentionalDisconnect, reconnectAttempts # MaxReconnectAttempts PROVE InCharge
  BY <1>5 DEF LossIsHandled, MayStopTrying
<1>6. ASSUME Lost, UNCHANGED <<intentionalDisconnect, reconnectAttempts>>,
             \A i \in Ids : SeesTheLoss(i) => SeesTheLoss(i)',
             \A i \in Ids : pc[i] = "tryReconnect" /\ ~isReconnecting => InCharge',
             \A t \in Threads : StartsReading(t) => StartsReading(t)' \/ InCharge',
             \A t \in Threads : pc[t] \in {"connect", "dial"} => InCharge'
      PROVE  InCharge'
  <2>1. InCharge
    BY <1>5, <1>6 DEF MayStopTrying
  <2>2. QED
    BY <1>6, <2>1 DEF InCharge
<1>7. ASSUME NEW t \in Threads, ConnectStart(t) PROVE InCharge'
  <2>1. pc'[t] = "dial"
    BY <1>7 DEF ConnectStart, Move, Goto, LossInv, FlagIsUsed
  <2>2. QED
    BY <1>4, <2>1
<1>8. ASSUME NEW t \in Threads, AuthFails(t) \/ DialFails(t) PROVE InCharge'
  BY <1>8 DEF AuthFails, DialFails, GivesUp
<1>9. ASSUME NEW t \in Threads, Dial(t) \/ CancelOldLoop(t) PROVE InCharge'
  <2>1. pc'[t] \in {"readCancel", "setReadCancel"}
    BY <1>9 DEF Dial, CancelOldLoop, Move, Goto
  <2>2. QED
    BY <1>4, <2>1 DEF StartsReading
<1>10. ASSUME NEW t \in Threads, SetReadCancel(t) PROVE InCharge'
  <2>1. pc'[t] = "startReadLoop" /\ mine'[t] = loops + 1 /\ cancelled' = cancelled
    BY <1>10 DEF SetReadCancel, Move, Goto
  <2>2. mine'[t] \notin cancelled'
    BY <2>1 DEF LossInv, LiveInv, LoopsAreNumbered
  <2>3. QED
    BY <1>4, <2>1, <2>2 DEF StartsReading
<1>11. ASSUME NEW t \in Threads, StartReadLoop(t) PROVE InCharge'
  <2>1. /\ Starting(t) /\ pc' = [pc EXCEPT ![t] = "resubscribe"]
        /\ UNCHANGED <<net, fields, cancelled, mine>>
        /\ wsConn # 0 => /\ reading' = [reading EXCEPT ![mine[t]] = wsConn]
                         /\ loop' = [loop EXCEPT ![mine[t]] = "top"]
    BY <1>11 DEF StartReadLoop, Move, Goto, Starting
  <2>2. mine[t] \in Ids /\ loop[mine[t]] = "none"
    BY <2>1, StartingHasId DEF LossInv, LiveInv, LoopsAreNumbered
  <2>3. /\ reading'[mine[t]] = wsConn /\ loop'[mine[t]] = "top"
        /\ \A i \in Ids \ {mine[t]} : reading'[i] = reading[i] /\ loop'[i] = loop[i]
    BY <1>3, <2>1, <2>2 DEF net
  <2>4. \A i \in Ids : i = mine[t] /\ StartsReading(t) => SeesTheLoss(i)'
    BY <2>1, <2>3 DEF StartsReading, SeesTheLoss, Starting, net
  <2>5. \A i \in Ids : SeesTheLoss(i) => SeesTheLoss(i)'
    BY <2>1, <2>2, <2>3 DEF SeesTheLoss, net
  <2>6. \A s \in Threads \ {t} : pc'[s] = pc[s]
    BY <2>1
  <2>7. StartsReading(t) => InCharge'
    BY <2>2, <2>4 DEF InCharge
  <2>8. \A s \in Threads \ {t} : StartsReading(s) => StartsReading(s)'
    BY <2>1, <2>6 DEF StartsReading
  <2>9. \A i \in Ids : pc[i] = "tryReconnect" /\ ~isReconnecting => InCharge'
    BY <2>1, <2>6 DEF InCharge, Starting, fields
  <2>10. \A s \in Threads : pc[s] \in {"connect", "dial"} => InCharge'
    BY <1>4, <2>1, <2>6 DEF Starting
  <2>11. Lost /\ UNCHANGED <<intentionalDisconnect, reconnectAttempts>>
    BY <2>1 DEF Lost, net, fields
  <2>12. QED
    BY <1>6, <2>5, <2>7, <2>8, <2>9, <2>10, <2>11
<1>12. ASSUME UNCHANGED <<net, fields, cancelled, reading, mine>>,
              NEW s \in Threads, pc[s] \notin {"tryReconnect", "connect", "dial"}, ~StartsReading(s),
              \A t \in Threads \ {s} : pc'[t] = pc[t],
              \A i \in Ids : Lost /\ SeesTheLoss(i) => loop'[i] = loop[i]
                                \/ loop'[i] = "onClose" \/ (loop[i] = "top" /\ loop'[i] = "reading")
       PROVE  InCharge'
  <2>1. Lost /\ UNCHANGED <<intentionalDisconnect, reconnectAttempts, isReconnecting>>
    BY <1>12 DEF Lost, net, fields
  <2>2. \A i \in Ids : SeesTheLoss(i) => SeesTheLoss(i)'
    BY <1>12, <2>1 DEF SeesTheLoss, net
  <2>3. \A t \in Threads : StartsReading(t) => StartsReading(t)'
    BY <1>12 DEF StartsReading
  <2>4. \A i \in Ids : pc[i] = "tryReconnect" /\ ~isReconnecting => InCharge'
    BY <1>12, <2>1 DEF InCharge
  <2>5. \A t \in Threads : pc[t] \in {"connect", "dial"} => InCharge'
    BY <1>4, <1>12
  <2>6. QED
    BY <1>6, <2>1, <2>2, <2>3, <2>4, <2>5
<1>13. ASSUME NEW t \in Threads, Resubscribe(t) PROVE InCharge'
  <2>1. /\ UNCHANGED <<net, fields, cancelled, reading, mine, loop>> /\ pc[t] = "resubscribe"
        /\ \A s \in Threads \ {t} : pc'[s] = pc[s]
    BY <1>13 DEF Resubscribe, Move, Goto, loopVars
  <2>2. QED
    BY <1>12, <2>1 DEF StartsReading
<1>14. ASSUME NEW u \in Users, Call(u) PROVE InCharge'
  <2>1. /\ UNCHANGED <<net, fields, cancelled, reading, mine, loop>> /\ pc[u] = "idle"
        /\ \A s \in Threads \ {u} : pc'[s] = pc[s]
    BY <1>14 DEF Call, Move, Goto, loopVars
  <2>2. QED
    BY <1>12, <2>1 DEF StartsReading
<1>15. ASSUME NEW u \in Users, UserStep(u) PROVE InCharge'
  <2>1. CASE Disconnect(u)
    BY <2>1 DEF Disconnect, MayStopTrying
  <2>2. CASE WsDisconnect(u)
    BY <1>3, <2>2 DEF WsDisconnect, WsClose
  <2>3. CASE Reset(u) \/ ResetReadCancel(u) \/ WsReset(u) \/ ResetFields(u)
    BY <2>3 DEF Reset, ResetReadCancel, WsReset, WsClose, ResetFields, Move, ResetLabels
  <2>4. QED
    BY <1>15, <2>1, <2>2, <2>3 DEF UserStep
<1>16. ASSUME NEW i \in Ids, LoopTop(i) \/ ReadMessage(i) \/ ReadFails(i) PROVE InCharge'
  <2>1. /\ UNCHANGED <<net, fields, cancelled, reading, mine, pc>>
        /\ \A j \in Ids \ {i} : loop'[j] = loop[j]
    BY <1>16 DEF LoopTop, ReadMessage, ReadFails, LoopGoto
  <2>2. Lost /\ SeesTheLoss(i) =>
            loop'[i] = "onClose" \/ (loop[i] = "top" /\ loop'[i] = "reading")
    BY <1>16 DEF LoopTop, ReadMessage, ReadFails, LoopGoto, SeesTheLoss, Lost
  <2>3. /\ Lost /\ UNCHANGED <<intentionalDisconnect, reconnectAttempts, isReconnecting>>
    BY <2>1 DEF Lost, net, fields
  <2>4. \A j \in Ids : SeesTheLoss(j) => SeesTheLoss(j)'
    BY <2>1, <2>2, <2>3 DEF SeesTheLoss, net
  <2>5. InCharge
    BY <1>5, <2>3 DEF MayStopTrying
  <2>6. QED
    BY <2>1, <2>3, <2>4, <2>5 DEF InCharge, StartsReading
<1>17. ASSUME NEW i \in Ids, OnClose(i) PROVE InCharge'
  <2>1. /\ UNCHANGED <<net, fields>> /\ loop[i] = "onClose"
        /\ \A s \in Threads \ {i} : pc'[s] = pc[s]
    BY <1>17 DEF OnClose, Goto
  <2>2. pc[i] = "idle"
    BY <2>1 DEF LossInv, LiveInv, LoopsAreNumbered
  <2>3. pc'[i] = "tryReconnect"
    BY <1>17, <2>1 DEF OnClose, Goto, fields, MayStopTrying
  <2>4. CASE ~isReconnecting
    BY <2>1, <2>3, <2>4 DEF InCharge, fields
  <2>5. CASE isReconnecting
    <3>1. PICK j \in Ids : pc[j] \in {"connect", "dial"}
      BY <2>1, <2>5, HolderDials DEF Lost, net
    <3>2. QED
      BY <1>4, <2>1, <2>2, <3>1
  <2>6. QED
    BY <2>4, <2>5
<1>18. ASSUME NEW i \in Ids, TryReconnect(i) PROVE InCharge'
  <2>1. /\ Lost /\ pc[i] = "tryReconnect" /\ \A s \in Threads \ {i} : pc'[s] = pc[s]
    BY <1>18 DEF TryReconnect, Goto, Lost, net
  <2>2. CASE isReconnecting
    <3>1. PICK j \in Ids : pc[j] \in {"connect", "dial"}
      BY <2>1, <2>2, HolderDials
    <3>2. QED
      BY <1>4, <2>1, <3>1
  <2>3. CASE reconnectAttempts >= MaxReconnectAttempts
    <3>1. reconnectAttempts' = MaxReconnectAttempts
      BY <1>18, <2>3, ConnectionAssumption DEF TryReconnect, LossInv, DialsWithinBudget
    <3>2. QED
      BY <3>1 DEF MayStopTrying
  <2>4. CASE ~ (isReconnecting \/ reconnectAttempts >= MaxReconnectAttempts)
    BY <1>4, <1>18, <2>4 DEF TryReconnect, Goto
  <2>5. QED
    BY <2>2, <2>3, <2>4
<1>19. ASSUME NEW i \in Ids, Reconnected(i) PROVE InCharge'
  <2>1. Lost /\ pc[i] \in HasDialled
    BY <1>19 DEF Reconnected, Move, HasDialled, Lost, net
  <2>2. QED
    BY <2>1 DEF LossInv, NewSocketHolds
<1>20. ASSUME NEW i \in Ids, Lose(i) PROVE InCharge'
  <2>1. /\ UNCHANGED <<wsConn, fields, loopVars, pc, mine>>
        /\ socket[i] = "open" /\ socket' = [socket EXCEPT ![i] = "closed"]
    BY <1>20 DEF Lose
  <2>2. wsConn \in Ids
    BY <1>3, <2>1 DEF MaybeId
  <2>3. InCharge => InCharge'
    BY <2>1 DEF InCharge, SeesTheLoss, StartsReading, loopVars, fields
  <2>4. CASE i = wsConn
    <3>1. (\E j \in Ids : ReadsNow(j)) \/ (\E t \in Threads : WillRead(t))
      BY <2>1, <2>2, <2>4 DEF LossInv, LiveInv, WillBeRead, Ids
    <3>2. InCharge
      BY <3>1 DEF InCharge, ReadsNow, SeesTheLoss, WillRead, StartsReading, Starting,
         ResetLabels
    <3>3. QED
      BY <2>3, <3>2
  <2>5. CASE i # wsConn
    <3>1. Lost
      BY <2>1, <2>2, <2>5 DEF Lost
    <3>2. QED
      BY <1>5, <2>1, <2>3, <3>1 DEF fields, MayStopTrying
  <2>6. QED
    BY <2>4, <2>5
<1>21. ASSUME NEW i \in Ids, ContextDone(i) PROVE InCharge'
  BY <1>21 DEF ContextDone, MayStopTrying
<1>22. CASE UNCHANGED vars
  <2>1. Lost /\ UNCHANGED <<intentionalDisconnect, reconnectAttempts>>
    BY <1>22 DEF vars, net, fields, Lost
  <2>2. InCharge
    BY <1>5, <2>1 DEF MayStopTrying
  <2>3. QED
    BY <1>22, <2>2 DEF vars, net, fields, loopVars, InCharge, SeesTheLoss, StartsReading
<1>23. QED
  BY <1>7, <1>8, <1>9, <1>10, <1>11, <1>13, <1>14, <1>15, <1>16, <1>17, <1>18, <1>19, <1>20,
     <1>21, <1>22
  DEF Next, Connect, Loop, Reconnect

(* Until a lost socket is replaced, somebody is about to replace it, unless  *)
(* the code may stop trying: between the loss and the new socket no goroutine *)
(* leaves it to another one that has left it already.                        *)
THEOREM LossesAreHandled == Spec => []LossIsHandled
<1>1. Init => LossInv /\ LossIsHandled
  <2> SUFFICES ASSUME Init PROVE LossInv /\ LossIsHandled
    OBVIOUS
  <2>1. LiveInv
    BY InitLive
  <2>2. SingleInv /\ DialsWithinBudget
    BY InitBudget
  <2>3. FlagIsUsed /\ NewSocketHolds /\ LossIsHandled
    BY DEF Init, FlagIsUsed, NewSocketHolds, LossIsHandled, Lost
  <2>4. QED
    BY <2>1, <2>2, <2>3 DEF LossInv
<1>2. LossInv /\ LossIsHandled /\ [Next]_vars => LossInv' /\ LossIsHandled'
  <2>1. LossInv /\ [Next]_vars => LiveInv' /\ SingleInv' /\ DialsWithinBudget'
    BY TypeStep, OwingStep, NumberedStep, ReadStep, SingleStep, BudgetStep
    DEF LossInv, LiveInv, SingleInv
  <2>2. QED
    BY <2>1, FlagStep, NewSocketStep, ChargeStep DEF LossInv
<1>3. QED
  BY <1>1, <1>2, PTL DEF Spec
=============================================================================
