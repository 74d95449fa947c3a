------------------------------ MODULE Connection ------------------------------
(***************************************************************************)
(* The life of the WebSocket connection: Conn (connection/connection.go)   *)
(* over ws.Client (transport/ws/client.go).  Application goroutines call   *)
(* Connect, Disconnect and Reset; every successful Connect starts a read   *)
(* loop; a read loop that ends with an error runs onClose, which may start *)
(* a goroutine that runs tryReconnect, that is Connect again.              *)
(*                                                                         *)
(* A WebSocket is a number, given when it is dialled.  So is a read loop,  *)
(* and the reconnecting goroutine it may spawn has the same number: there  *)
(* is at most one.  ws.Client holds its mutex for the whole of Connect, so *)
(* closing the old socket, dialling and storing the new one is one step.   *)
(* readCancel is read and written without a lock: each access is a step.   *)
(* Frames are only counted as read; their handling is SocketChannel.       *)
(***************************************************************************)
EXTENDS Naturals, FiniteSets

CONSTANTS
    Users,                  \* application goroutines
    UserOps,                \* what they call
    MaxReconnectAttempts,
    MaxCalls,               \* bound on the calls of the users
    MaxDials,               \* bound on the sockets opened
    MaxFailures,            \* bound on the dials that fail
    MaxLosses,              \* bound on the sockets the peer closes
    MaxContexts             \* bound on the contexts of Connect that end

Ids == 1 .. MaxDials
Threads == Users \cup Ids   \* who runs Connect: users and reconnectors

ASSUME ConnectionAssumption ==
    /\ {MaxReconnectAttempts, MaxCalls, MaxDials, MaxFailures, MaxLosses, MaxContexts} \subseteq Nat
    /\ Users \cap Ids = {}
    /\ UserOps \subseteq {"connect", "disconnect", "reset"}

VARIABLES
    wsConn,                 \* ws.Client.conn, 0 when nil
    socket,                 \* "none", "open" or "closed", for every dial
    reconnectAttempts, isReconnecting, intentionalDisconnect, resetting,
    readCancel,             \* the read loop whose context it cancels, or 0
    cancelled,              \* read loops whose context is done
    reading,                \* the socket a read loop reads, 0 before it starts
    loop,                   \* where every read loop is
    pc,                     \* where every user and reconnector is
    mine,                   \* the read loop a thread is about to start
    calls, resets,          \* calls of the users, and those of Reset
    dials, loops, failures, contexts,
    losses, overlaps        \* sockets lost, and those lost during a reconnect

fields == <<reconnectAttempts, isReconnecting, intentionalDisconnect, resetting>>
net    == <<wsConn, socket>>
loopVars == <<readCancel, cancelled, reading, loop>>
bounds == <<calls, resets, failures, losses, overlaps, contexts>>
vars   == <<net, fields, loopVars, pc, mine, bounds, dials, loops>>

Init ==
    /\ wsConn = 0 /\ socket = [i \in Ids |-> "none"]
    /\ reconnectAttempts = 0 /\ isReconnecting = FALSE
    /\ intentionalDisconnect = FALSE /\ resetting = FALSE
    /\ readCancel = 0 /\ cancelled = {}
    /\ reading = [i \in Ids |-> 0] /\ loop = [i \in Ids |-> "none"]
    /\ pc = [t \in Threads |-> "idle"] /\ mine = [t \in Threads |-> 0]
    /\ calls = 0 /\ dials = 0 /\ loops = 0 /\ failures = 0 /\ losses = 0
    /\ resets = 0 /\ overlaps = 0 /\ contexts = 0

Goto(t, label) == pc' = [pc EXCEPT ![t] = label]
Move(t, from, to) == pc[t] = from /\ Goto(t, to)

(* What Connect returns to: the user's code, or the end of tryReconnect.     *)
Returned(t) == IF t \in Users THEN "idle" ELSE "reconnected"

Cancel(i) == cancelled' = IF i = 0 THEN cancelled ELSE cancelled \cup {i}
Closed(i) == IF i = 0 THEN socket ELSE [socket EXCEPT ![i] = "closed"]

Call(u) ==
    /\ u \in Users /\ calls < MaxCalls
    /\ \E o \in UserOps :
        /\ Move(u, "idle", o)
        /\ resets' = IF o = "reset" THEN resets + 1 ELSE resets
    /\ calls' = calls + 1
    /\ UNCHANGED <<net, fields, loopVars, mine, failures, losses, overlaps, contexts,
                   dials, loops>>

-----------------------------------------------------------------------------
(* Connect *)

ConnectStart(t) ==
    /\ Move(t, "connect", IF resetting THEN Returned(t) ELSE "dial")
    /\ UNCHANGED <<net, fields, loopVars, mine, bounds, dials, loops>>

(* Authentication or the URL fails, before the old socket is touched.        *)
AuthFails(t) ==
    /\ Move(t, "dial", Returned(t))
    /\ failures < MaxFailures /\ failures' = failures + 1
    /\ UNCHANGED <<net, fields, loopVars, mine, calls, resets, losses, overlaps, contexts,
                   dials, loops>>

(* ws.Client.Connect.                                                        *)
DialFails(t) ==
    /\ Move(t, "dial", Returned(t))
    /\ failures < MaxFailures /\ failures' = failures + 1
    /\ wsConn' = 0 /\ socket' = Closed(wsConn)
    /\ UNCHANGED <<fields, loopVars, mine, calls, resets, losses, overlaps, contexts,
                   dials, loops>>

Dial(t) ==
    /\ dials < MaxDials
    /\ Move(t, "dial", "readCancel")
    /\ dials' = dials + 1
    /\ wsConn' = dials'
    /\ socket' = [Closed(wsConn) EXCEPT ![dials'] = "open"]
    /\ UNCHANGED <<fields, loopVars, mine, bounds, loops>>

(* startReadLoop: cancel the old loop, store the new cancel function, take   *)
(* whatever socket ws.Client has now, and start.                            *)
CancelOldLoop(t) ==
    /\ Move(t, "readCancel", "setReadCancel")
    /\ Cancel(readCancel)
    /\ UNCHANGED <<net, fields, readCancel, reading, loop, mine, bounds, dials, loops>>

SetReadCancel(t) ==
    /\ Move(t, "setReadCancel", "startReadLoop")
    /\ loops' = loops + 1
    /\ readCancel' = loops'
    /\ mine' = [mine EXCEPT ![t] = loops']
    /\ UNCHANGED <<net, fields, cancelled, reading, loop, bounds, dials>>

StartCancelledLoop(t) ==
    /\ Move(t, "startReadLoop", "resubscribe")
    /\ Cancel(readCancel)
    /\ IF wsConn = 0
       THEN UNCHANGED <<reading, loop>>
       ELSE /\ reading' = [reading EXCEPT ![mine[t]] = wsConn]
            /\ loop' = [loop EXCEPT ![mine[t]] = "top"]
    /\ UNCHANGED <<net, fields, readCancel, mine, bounds, dials, loops>>
StartReadLoop(t) ==
    /\ Move(t, "startReadLoop", "resubscribe")
    /\ IF wsConn = 0
       THEN UNCHANGED <<reading, loop>>
       ELSE /\ reading' = [reading EXCEPT ![mine[t]] = wsConn]
            /\ loop' = [loop EXCEPT ![mine[t]] = "top"]
    /\ UNCHANGED <<net, fields, readCancel, cancelled, mine, bounds, dials, loops>>

(* ResubscribeAfterReconnect waits for answers, so it may take long.         *)
Resubscribe(t) ==
    /\ Move(t, "resubscribe", Returned(t))
    /\ UNCHANGED <<net, fields, loopVars, mine, bounds, dials, loops>>

-----------------------------------------------------------------------------
(* Disconnect and Reset *)

Disconnect(u) ==
    /\ Move(u, "disconnect", "wsDisconnect")
    /\ intentionalDisconnect' = TRUE
    /\ UNCHANGED <<net, reconnectAttempts, isReconnecting, resetting, loopVars,
                   mine, bounds, dials, loops>>

WsClose(u, from, to) ==
    /\ Move(u, from, to)
    /\ wsConn' = 0 /\ socket' = Closed(wsConn)
    /\ UNCHANGED <<fields, loopVars, mine, bounds, dials, loops>>

WsDisconnect(u) == WsClose(u, "wsDisconnect", "idle")

Reset(u) ==
    /\ Move(u, "reset", "resetReadCancel")
    /\ resetting' = TRUE
    /\ UNCHANGED <<net, reconnectAttempts, isReconnecting, intentionalDisconnect,
                   loopVars, mine, bounds, dials, loops>>

ResetReadCancel(u) ==
    /\ Move(u, "resetReadCancel", "wsReset")
    /\ Cancel(readCancel)
    /\ UNCHANGED <<net, fields, readCancel, reading, loop, mine, bounds, dials, loops>>

WsReset(u) == WsClose(u, "wsReset", "resetFields")

ResetFields(u) ==
    /\ Move(u, "resetFields", "idle")
    /\ reconnectAttempts' = 0 /\ isReconnecting' = FALSE
    /\ intentionalDisconnect' = FALSE /\ resetting' = FALSE
    /\ UNCHANGED <<net, loopVars, mine, bounds, dials, loops>>

-----------------------------------------------------------------------------
(* The read loops *)

LoopGoto(i, label) == loop' = [loop EXCEPT ![i] = label]

(* The context is looked at between two reads only.                          *)
LoopTop(i) ==
    /\ loop[i] = "top"
    /\ LoopGoto(i, IF i \in cancelled THEN "done" ELSE "reading")
    /\ UNCHANGED <<net, fields, readCancel, cancelled, reading, pc, mine, bounds, dials, loops>>

ReadMessage(i) ==
    /\ loop[i] = "reading" /\ socket[reading[i]] = "open"
    /\ LoopGoto(i, "top")
    /\ UNCHANGED <<net, fields, readCancel, cancelled, reading, pc, mine, bounds, dials, loops>>

ReadFails(i) ==
    /\ loop[i] = "reading" /\ socket[reading[i]] = "closed"
    /\ LoopGoto(i, "onClose")
    /\ UNCHANGED <<net, fields, readCancel, cancelled, reading, pc, mine, bounds, dials, loops>>

(* onClose, with AutoReconnect: "go tryReconnect" unless disconnecting.      *)
OnClose(i) ==
    /\ loop[i] = "onClose"
    /\ LoopGoto(i, "done")
    /\ cancelled' = cancelled \cup {i}
    /\ IF intentionalDisconnect THEN UNCHANGED pc ELSE Goto(i, "tryReconnect")
    /\ UNCHANGED <<net, fields, readCancel, reading, mine, bounds, dials, loops>>

-----------------------------------------------------------------------------
(* tryReconnect *)

TryReconnectUnguarded(i) ==
    /\ pc[i] = "tryReconnect"
    /\ IF reconnectAttempts >= MaxReconnectAttempts
       THEN Goto(i, "done") /\ UNCHANGED <<isReconnecting, reconnectAttempts>>
       ELSE /\ isReconnecting' = TRUE
            /\ reconnectAttempts' = reconnectAttempts + 1
            /\ Goto(i, "connect")
    /\ UNCHANGED <<net, intentionalDisconnect, resetting, loopVars, mine, bounds, dials, loops>>
TryReconnectOnceMore(i) ==
    /\ pc[i] = "tryReconnect"
    /\ IF isReconnecting \/ reconnectAttempts > MaxReconnectAttempts
       THEN Goto(i, "done") /\ UNCHANGED <<isReconnecting, reconnectAttempts>>
       ELSE /\ isReconnecting' = TRUE
            /\ reconnectAttempts' = reconnectAttempts + 1
            /\ Goto(i, "connect")
    /\ UNCHANGED <<net, intentionalDisconnect, resetting, loopVars, mine, bounds, dials, loops>>
TryReconnect(i) ==
    /\ pc[i] = "tryReconnect"
    /\ IF isReconnecting \/ reconnectAttempts >= MaxReconnectAttempts
       THEN Goto(i, "done") /\ UNCHANGED <<isReconnecting, reconnectAttempts>>
       ELSE /\ isReconnecting' = TRUE
            /\ reconnectAttempts' = reconnectAttempts + 1
            /\ Goto(i, "connect")      \* after the backoff
    /\ UNCHANGED <<net, intentionalDisconnect, resetting, loopVars, mine, bounds, dials, loops>>

ReconnectedKeepsFlag(i) ==
    /\ Move(i, "reconnected", "done")
    /\ UNCHANGED <<net, fields, loopVars, mine, bounds, dials, loops>>
ReconnectedRefunds(i) ==
    /\ Move(i, "reconnected", "done")
    /\ isReconnecting' = FALSE
    /\ reconnectAttempts' = reconnectAttempts - 1
    /\ UNCHANGED <<net, intentionalDisconnect, resetting, loopVars, mine, bounds, dials, loops>>
Reconnected(i) ==
    /\ Move(i, "reconnected", "done")
    /\ isReconnecting' = FALSE
    /\ UNCHANGED <<net, reconnectAttempts, intentionalDisconnect, resetting, loopVars,
                   mine, bounds, dials, loops>>

-----------------------------------------------------------------------------
(* The environment *)

Lose(i) ==
    /\ socket[i] = "open" /\ losses < MaxLosses
    /\ socket' = [socket EXCEPT ![i] = "closed"]
    /\ losses' = losses + 1
    /\ overlaps' = IF \A j \in Ids : pc[j] \in {"idle", "done"} THEN overlaps ELSE overlaps + 1
    /\ UNCHANGED <<wsConn, fields, loopVars, pc, mine, calls, resets, failures, contexts,
                   dials, loops>>

(* The context of a user's Connect ends: reconnectors use Background.        *)
ContextDone(i) ==
    /\ contexts < MaxContexts /\ contexts' = contexts + 1
    /\ loop[i] \in {"top", "reading"} /\ i \notin cancelled
    /\ \E u \in Users : mine[u] = i
    /\ Cancel(i)
    /\ UNCHANGED <<net, fields, readCancel, reading, loop, pc, mine, calls, resets, failures,
                   losses, overlaps, dials, loops>>

-----------------------------------------------------------------------------
Connect(t) ==
    \/ ConnectStart(t) \/ AuthFails(t) \/ DialFails(t) \/ Dial(t)
    \/ CancelOldLoop(t) \/ SetReadCancel(t) \/ StartReadLoop(t) \/ Resubscribe(t)
UserStep(u) ==
    \/ Disconnect(u) \/ WsDisconnect(u)
    \/ Reset(u) \/ ResetReadCancel(u) \/ WsReset(u) \/ ResetFields(u)
Loop(i) == LoopTop(i) \/ ReadMessage(i) \/ ReadFails(i) \/ OnClose(i)
Reconnect(i) == TryReconnect(i) \/ Reconnected(i)

Next ==
    \/ \E t \in Threads : Connect(t)
    \/ \E u \in Users : Call(u) \/ UserStep(u)
    \/ \E i \in Ids : Loop(i) \/ Reconnect(i) \/ Lose(i) \/ ContextDone(i)

Spec == Init /\ [][Next]_vars

(* The scheduler runs every goroutine; a read that can only fail fails; a    *)
(* backoff and a dial end.  Nobody has to call, and no socket has to be lost.*)
Fairness ==
    /\ \A t \in Threads : WF_vars(Connect(t))
    /\ \A u \in Users : WF_vars(UserStep(u))
    /\ \A i \in Ids : WF_vars(LoopTop(i) \/ ReadFails(i) \/ OnClose(i)) /\ WF_vars(Reconnect(i))
FairSpec == Spec /\ Fairness

-----------------------------------------------------------------------------
(* Properties *)

ConnectLabels ==
    {"connect", "dial", "readCancel", "setReadCancel", "startReadLoop", "resubscribe"}
ResetLabels == {"reset", "resetReadCancel", "wsReset", "resetFields"}
UserLabels == {"idle", "disconnect", "wsDisconnect"} \cup ResetLabels
ReconnectLabels == {"tryReconnect", "reconnected", "done"}
MaybeId == Ids \cup {0}

Labels == ConnectLabels \cup UserLabels \cup ReconnectLabels

NetOK == wsConn \in MaybeId /\ socket \in [Ids -> {"none", "open", "closed"}]
FieldsOK ==
    /\ reconnectAttempts \in Nat /\ isReconnecting \in BOOLEAN
    /\ intentionalDisconnect \in BOOLEAN /\ resetting \in BOOLEAN
LoopsOK ==
    /\ readCancel \in Nat /\ cancelled \subseteq Nat
    /\ reading \in [Ids -> MaybeId]
    /\ loop \in [Ids -> {"none", "top", "reading", "onClose", "done"}]
ThreadsOK == pc \in [Threads -> Labels] /\ mine \in [Threads -> Nat]
CountersOK ==
    /\ calls \in Nat /\ resets \in Nat
    /\ failures \in Nat /\ losses \in Nat
    /\ overlaps \in Nat /\ contexts \in Nat
    /\ dials \in 0 .. MaxDials /\ loops \in Nat
TypeOK == NetOK /\ FieldsOK /\ LoopsOK /\ ThreadsOK /\ CountersOK

(* However many read loops end at once, and whatever Disconnect and Connect  *)
(* do meanwhile, at most one goroutine reconnects (until somebody calls      *)
(* Reset), and isReconnecting says so.                                       *)
Reconnecting(i) == pc[i] \in ConnectLabels \cup {"reconnected"}
SingleReconnector ==
    resets = 0 =>
        /\ \A i, j \in Ids : Reconnecting(i) /\ Reconnecting(j) => i = j
        /\ \A i \in Ids : Reconnecting(i) => isReconnecting

(* MaxReconnectAttempts is a budget for the whole life of the connection:    *)
(* the goroutines that reconnect, and those whose read loop was the fruit of *)
(* an earlier attempt, are never more than it (until somebody calls Reset).  *)
Spent == {i \in Ids : Reconnecting(i) \/ mine[i] # 0}
DialsWithinBudget ==
    resets = 0 =>
        /\ Cardinality(Spent) <= reconnectAttempts
        /\ reconnectAttempts <= MaxReconnectAttempts

(* A socket that works is read, whenever no Connect and no Reset is under    *)
(* way and unless a context given to Connect ended.                          *)
LiveSocketIsRead ==
    contexts = 0 /\ wsConn # 0 /\ socket[wsConn] = "open"
    /\ (\A t \in Threads : pc[t] \notin ConnectLabels \cup ResetLabels)
        => \E i \in Ids : reading[i] = wsConn /\ loop[i] \in {"top", "reading"} /\ i \notin cancelled

(* A lost socket is replaced, or the code may stop trying: the attempts are  *)
(* used up, the application disconnected or reset, or ended the context of   *)
(* the read loop.  Two more excuses are the code's own: a dial that fails,   *)
(* and a loss during a reconnect, both end the reconnection.                 *)
MayStopTrying ==
    \/ reconnectAttempts = MaxReconnectAttempts \/ intentionalDisconnect
    \/ resets > 0 \/ contexts > 0
GivesUp == failures > 0 \/ overlaps > 0
Works == wsConn # 0 /\ socket[wsConn] = "open"
Lost == wsConn # 0 /\ socket[wsConn] = "closed"
LostSocketIsReplaced == Lost ~> Works \/ MayStopTrying \/ GivesUp

(* Until then it is in somebody's charge: a read loop will see the loss, or  *)
(* somebody is about to start one on it; a goroutine is about to reconnect   *)
(* and will find isReconnecting clear; or a Connect is about to dial.        *)
SeesTheLoss(i) ==
    /\ reading[i] = wsConn
    /\ loop[i] = "onClose" \/ (loop[i] \in {"top", "reading"} /\ i \notin cancelled)
StartsReading(t) ==
    \/ pc[t] \in {"readCancel", "setReadCancel"}
    \/ pc[t] = "startReadLoop" /\ mine[t] \notin cancelled
InCharge ==
    \/ \E i \in Ids : SeesTheLoss(i) \/ (pc[i] = "tryReconnect" /\ ~isReconnecting)
    \/ \E t \in Threads : StartsReading(t) \/ pc[t] \in {"connect", "dial"}
LossIsHandled == Lost => InCharge \/ MayStopTrying \/ GivesUp
=============================================================================
