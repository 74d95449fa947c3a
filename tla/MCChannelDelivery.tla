-------------------------- MODULE MCChannelDelivery --------------------------
(* Instances of ChannelDelivery for TLC: two handlers of the event, one for  *)
(* the rest; the last message has no event.                                  *)
EXTENDS ChannelDelivery, TLC

CONSTANTS c1, c2, h1, h2, h3

TwoHandlers == <<h1, h2>>
AllButLast == {m \in Messages : m < MaxMessages}
=============================================================================
