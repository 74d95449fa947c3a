------------------------------ MODULE MessageBox ------------------------------
(***************************************************************************)
(* What a channel promises of its messages, whatever it does inside:       *)
(* "MessageHandler receives channel messages (invoked serially per         *)
(* channel)" (channel/socket.go, line 31).  A message waits from its       *)
(* arrival to its settlement.  While it waits, each handler may be handed  *)
(* it once, one handler of the channel at a time.  It settles only after   *)
(* all its handlers had it, unless the application excused the channel.    *)
(***************************************************************************)
CONSTANTS
    Messages, Handlers,
    Due(_)              \* the handlers a message is for

VARIABLES
    waiting,            \* messages arrived and not settled
    given,              \* pairs of a message and a handler it was handed to
    busy,               \* is a handler running?
    excused             \* messages the application had dropped

vars == <<waiting, given, busy, excused>>

Init == waiting = {} /\ given = {} /\ busy = FALSE /\ excused = {}

Arrive ==
    /\ \E S \in SUBSET (Messages \ waiting) :
        /\ \A m \in S, h \in Handlers : <<m, h>> \notin given
        /\ waiting' = waiting \cup S
    /\ UNCHANGED <<given, busy, excused>>

Hand(m, h) ==
    /\ ~busy /\ busy' = TRUE
    /\ m \in waiting /\ <<m, h>> \notin given
    /\ given' = given \cup {<<m, h>>}
    /\ UNCHANGED <<waiting, excused>>

Done == busy /\ busy' = FALSE /\ UNCHANGED <<waiting, given, excused>>

(* The application may drop what waits; the channel alone may not.           *)
Settle ==
    /\ \E S, X \in SUBSET waiting :
        /\ excused' = excused \cup X
        /\ \A m \in S : m \in excused' \/ \A h \in Due(m) : <<m, h>> \in given
        /\ waiting' = waiting \ S
    /\ UNCHANGED <<given, busy>>

Next ==
    \/ Arrive \/ Done \/ Settle
    \/ \E m \in Messages, h \in Handlers : Hand(m, h)

Spec == Init /\ [][Next]_vars
=============================================================================
