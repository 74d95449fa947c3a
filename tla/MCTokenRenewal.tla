---------------------------- MODULE MCTokenRenewal ----------------------------
(* Instances of TokenRenewal for TLC.                                        *)
EXTENDS TokenRenewal, TLC

CONSTANTS u1, v1

AllFields == {"APIKey", "AuthURL", "TokenRequest"}
NoFields == [f \in AllFields |-> Zero]
OnlyURL ==
    {[field |-> [NoFields EXCEPT !["AuthURL"] = v1],
      flag |-> [f \in Flags |-> TRUE], Debug |-> FALSE]}

First == <<u1, 1>>
Frames == (Users \cup (1 .. MaxTokens)) \X (1 .. MaxDepth)
=============================================================================
