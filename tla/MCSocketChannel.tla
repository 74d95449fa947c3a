--------------------------- MODULE MCSocketChannel ---------------------------
(* Instances of SocketChannel for TLC: two callers, two handlers.            *)
EXTENDS SocketChannel, TLC

CONSTANTS c1, c2, e1, h1, h2

SomeCallers  == {c1, c2}
SomeHandlers == {h1, h2}

Sub(e, h)   == [kind |-> "subscribe", event |-> e, handler |-> h]
Unsub(e, h) == [kind |-> "unsubscribe", event |-> e, handler |-> h]
ResetOp     == [kind |-> "reset", event |-> Whole, handler |-> NoHandler]

(* Every kind of call.                                                       *)
AllOps == {Sub(e1, h1), Sub(Whole, h2), Unsub(e1, h1), Unsub(Whole, NoHandler), ResetOp}
(* Two whole-channel subscribes, and nothing else.                           *)
WholeOps == {Sub(Whole, h1), Sub(Whole, h2)}
=============================================================================
