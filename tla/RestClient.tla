----------------------------- MODULE RestClient -----------------------------
(***************************************************************************)
(* The REST client (rest.go): requests, Reset and changes of the options   *)
(* around the authentication.                                              *)
(*                                                                         *)
(* Publish, PublishBatch (channel/rest.go) and the calls of the queue      *)
(* manager (queue/manager.go) make a request the same way: GetAuthHeaders  *)
(* reads the options and then the token, and the HTTP client sends.  A     *)
(* caller of AuthManager is a goroutine that makes such calls too.         *)
(***************************************************************************)
EXTENDS AuthManager

CONSTANTS
    Partials,               \* what Set may be given
    MaxSets                 \* bound on the calls of Set

ASSUME RestAssumption == Partials \subseteq Option /\ MaxSets \in Nat

VARIABLES
    req,                    \* where the request or Rest.Reset of a caller is
    key,                    \* the API key of the request
    before,                 \* the token held when the Reset of a caller began
    forgotten,              \* what was held when a Reset began that has returned
    sets

resets == <<before, forgotten>>
rest == <<req, key, resets>>
restVars == <<vars, rest, sets>>

RestInit ==
    /\ Init
    /\ req = [t \in Callers |-> "none"]
    /\ key = [t \in Callers |-> Zero]
    /\ before = [t \in Callers |-> 0] /\ forgotten = {}
    /\ sets = 0

Requesting(t, from, to) ==
    /\ req[t] = from /\ pc[t] = "idle"
    /\ req' = [req EXCEPT ![t] = to]

-----------------------------------------------------------------------------
(* A request *)

(* GetAuthHeaders: o := m.opts.Get(), then GetToken.                         *)
Request(t) ==
    /\ calls < MaxCalls /\ calls' = calls + 1
    /\ Requesting(t, "none", "token")
    /\ key' = [key EXCEPT ![t] = opts.field["APIKey"]]
    /\ Invoke(t, "getToken")
    /\ UNCHANGED <<resets, sets>>

NoHeaders(t) ==
    /\ tok[t] = 0 /\ key[t] = Zero
    /\ Requesting(t, "token", "none")
    /\ UNCHANGED <<vars, key, resets, sets>>

(* With a token there is no need of the key.                                 *)
Headers(t) ==
    /\ tok[t] # 0 \/ key[t] # Zero
    /\ Requesting(t, "token", "sent")
    /\ key' = [key EXCEPT ![t] = IF tok[t] # 0 THEN Zero ELSE @]
    /\ UNCHANGED <<vars, resets, sets>>

(* The body, an error for a status of 400 or more, or no answer.             *)
Answered(t) ==
    /\ Requesting(t, "sent", "none")
    /\ key' = [key EXCEPT ![t] = Zero]
    /\ UNCHANGED <<vars, resets, sets>>

(* The rest of any call that makes one request.                              *)
RequestStep(t) == NoHeaders(t) \/ Headers(t) \/ Answered(t)

-----------------------------------------------------------------------------
(* The options *)

ChangeOptions(o) ==
    /\ opts' = o
    /\ UNCHANGED <<manager, resetting, ctx, cancelled, caller, clock, calls>>

Set(p) ==
    /\ sets < MaxSets /\ sets' = sets + 1
    /\ ChangeOptions(MergeOption(opts, p))
    /\ UNCHANGED rest

(* Rest.Reset: the channels, the queues (QueueWorker), the authentication,   *)
(* and last the options.                                                     *)
ResetStarts(t) ==
    /\ calls < MaxCalls /\ calls' = calls + 1
    /\ Requesting(t, "none", "reset")
    /\ Invoke(t, "reset")
    /\ before' = [before EXCEPT ![t] = currentToken]
    /\ UNCHANGED <<key, forgotten, sets>>
ResetOptions(t) ==
    /\ Requesting(t, "reset", "none")
    /\ ChangeOptions(DefaultOption)
    /\ forgotten' = forgotten \cup ({before[t]} \ {0})
    /\ UNCHANGED <<key, before, sets>>

-----------------------------------------------------------------------------
RestCall(t) ==
    /\ req[t] = "none"
    /\ Call(t)
    /\ UNCHANGED <<rest, sets>>

CallerStep(t) == (Authenticate(t) \/ Other(t)) /\ UNCHANGED <<rest, sets>>
TimeStep(i) == Age(i) /\ UNCHANGED <<rest, sets>>
TimerStep(i) == Timer(i) /\ UNCHANGED <<rest, sets>>

RestStep(t) == RequestStep(t) \/ ResetOptions(t)

RestNext ==
    \/ \E t \in Callers :
        RestCall(t) \/ Request(t) \/ ResetStarts(t) \/ RestStep(t) \/ CallerStep(t)
    \/ \E p \in Partials : Set(p)
    \/ \E i \in Tokens : TimeStep(i) \/ TimerStep(i)

RestSpec == RestInit /\ [][RestNext]_restVars

(* Goroutines run, requests are answered or fail, time passes, timers fire.  *)
FairRestSpec ==
    /\ RestSpec
    /\ \A t \in Callers : WF_restVars(RestStep(t) \/ CallerStep(t))
    /\ \A i \in Tokens : WF_restVars(TimeStep(i)) /\ WF_restVars(TimerStep(i))

-----------------------------------------------------------------------------
(* Properties *)

RestTypeOK ==
    /\ TypeOK
    /\ req \in [Callers -> {"none", "token", "sent", "reset"}]
    /\ key \in [Callers -> Values \cup {Zero}]
    /\ before \in [Callers -> MaybeToken] /\ forgotten \subseteq Tokens
    /\ sets \in Nat

(* Reset forgets: once it has returned, the token that was held when it was  *)
(* called is never held again, whatever was authenticating, setting,         *)
(* clearing or asking for a token meanwhile.  (A token whose answer was on   *)
(* its way when Reset was called may well be held after it.)                 *)
ResetForgets == currentToken \notin forgotten
=============================================================================
