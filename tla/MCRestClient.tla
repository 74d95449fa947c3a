---------------------------- MODULE MCRestClient ----------------------------
(* Instances of RestClient for TLC: a client that starts with an auth URL    *)
(* or with a token request, and may be given the other and a key.            *)
EXTENDS RestClient, TLC

CONSTANTS c1, c2, v1, v2

AllFields == {"APIKey", "AuthURL", "TokenRequest"}
With(values) ==
    [field |-> [f \in AllFields |-> IF f \in DOMAIN values THEN values[f] ELSE Zero],
     flag |-> [f \in Flags |-> TRUE], Debug |-> FALSE]

NoFields == With(<<>>).field
Starts == {With([AuthURL |-> v1]), With([TokenRequest |-> v1])}
Account == {With([APIKey |-> v2, AuthURL |-> v2])}
=============================================================================
