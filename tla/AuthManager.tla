----------------------------- MODULE AuthManager -----------------------------
(***************************************************************************)
(* The token of auth.Manager (auth/manager.go): goroutines authenticate,   *)
(* request, read and clear it and reset the manager, while the timers that *)
(* setToken arms fire.  Every step is one critical section of m.mu, or one *)
(* answer of the auth server.                                              *)
(*                                                                         *)
(* A token is the number of its issue.  Its age is what the clock says of  *)
(* it: "fresh", "late" (less than the 60 s buffer from its expiry) or      *)
(* "expired".  The timer armed for a token has the token's number.         *)
(* m.ctx is a number too; it is read without a lock.  Events change no     *)
(* state here; TokenRenewal adds the connection, which listens to them,    *)
(* and RestClient those who change the options.                            *)
(***************************************************************************)
EXTENDS Naturals, Options

CONSTANTS
    Callers,                \* goroutines of the application
    Constructor,            \* and one that NewManager starts
    Ops,                    \* what they call
    AuthenticateRetries,
    Given,                  \* what a client's options may be when all OptionFuncs are applied
    MaxCalls,               \* bound on the calls
    MaxTokens               \* bound on the tokens issued

Tokens == 1 .. MaxTokens

ASSUME AuthAssumption ==
    /\ {AuthenticateRetries, MaxCalls, MaxTokens} \subseteq Nat
    /\ Constructor \in Callers /\ Given \subseteq Option
    /\ {"TokenRequest", "AuthURL", "APIKey"} \subseteq Fields
    /\ Ops \subseteq {"authenticate", "requestToken", "getToken", "clear", "reset"}

VARIABLES
    currentToken,           \* 0 when empty
    refreshTimer,           \* the timer m.refreshTimer points to, 0 when nil
    timer,                  \* the state of every timer
    age,                    \* of every token
    opts,
    resetting, ctx, cancelled,
    pc, tok, attempt,       \* of every caller; tok is also what GetToken returned
    direct,                 \* callers whose Authenticate exchanges opts.TokenRequest
    failed,                 \* callers whose Authenticate or RequestToken gave an error
    issued, calls

manager == <<currentToken, refreshTimer, timer>>
lifecycle == <<opts, resetting, ctx, cancelled>>
local == <<tok, attempt, direct, failed>>
caller == <<pc, local>>
clock == <<age, issued>>
vars == <<manager, lifecycle, caller, clock, calls>>

HasTokenRequest == opts.field["TokenRequest"] # Zero
HasAuthURL == opts.field["AuthURL"] # Zero
HasAPIKey == opts.field["APIKey"] # Zero

(* With a token request NewManager exchanges it at once, in a goroutine.     *)
Init ==
    /\ currentToken = 0 /\ refreshTimer = 0
    /\ timer = [i \in Tokens |-> "none"] /\ age = [i \in Tokens |-> "none"]
    /\ opts \in Given
    /\ resetting = FALSE /\ ctx = 0 /\ cancelled = {}
    /\ pc = [t \in Callers |->
                IF t = Constructor /\ HasTokenRequest THEN "requestToken" ELSE "idle"]
    /\ tok = [t \in Callers |-> 0]
    /\ attempt = [t \in Callers |-> 0] /\ direct = {} /\ failed = {}
    /\ issued = 0 /\ calls = 0

Goto(t, label) == pc' = [pc EXCEPT ![t] = label]
Move(t, from, to) == pc[t] = from /\ Goto(t, to)

(* time.Timer.Stop on m.refreshTimer: too late for one that has fired.       *)
StopRefreshTimer ==
    timer' = [i \in Tokens |->
                IF i = refreshTimer /\ timer[i] = "armed" THEN "stopped" ELSE timer[i]]

Invoke(t, o) ==
    /\ Move(t, "idle", o)
    /\ failed' = failed \ {t}
    /\ UNCHANGED <<manager, lifecycle, tok, attempt, direct, clock>>
Call(t) ==
    /\ calls < MaxCalls /\ calls' = calls + 1
    /\ \E o \in Ops : Invoke(t, o)

-----------------------------------------------------------------------------
(* Authenticate, authenticateOnce and RequestToken *)

(* The loop of Authenticate is left.                                         *)
Forget(t) == attempt' = [attempt EXCEPT ![t] = 0] /\ direct' = direct \ {t}

(* The retries and the token request are those of the options it read.       *)
AuthStart(t) ==
    /\ Move(t, "authenticate", IF resetting THEN "idle" ELSE "attempt")
    /\ direct' = IF ~resetting /\ HasTokenRequest THEN direct \cup {t} ELSE direct
    /\ UNCHANGED <<manager, lifecycle, tok, attempt, failed, clock, calls>>

(* aborted looks at the context of now, not of when the call began.          *)
Aborted == ctx \in cancelled

(* An API key alone needs no request, and nothing at all is an error.  The   *)
(* auth URL is that of the options of now.                                   *)
Attempt(t) ==
    /\ pc[t] = "attempt"
    /\ IF Aborted \/ (t \notin direct /\ ~HasAuthURL /\ HasAPIKey)
       THEN Goto(t, "idle") /\ Forget(t)
       ELSE /\ Goto(t, IF t \in direct \/ HasAuthURL THEN "post" ELSE "refused")
            /\ UNCHANGED <<attempt, direct>>
    /\ UNCHANGED <<manager, lifecycle, tok, failed, clock, calls>>

(* The server issues a token, which may be short-lived.                      *)
Issue(t, from) ==
    /\ Move(t, from, "setToken")
    /\ issued < MaxTokens /\ issued' = issued + 1
    /\ tok' = [tok EXCEPT ![t] = issued']
    /\ \E a \in {"fresh", "late", "expired"} : age' = [age EXCEPT ![issued'] = a]
    /\ Forget(t)
    /\ UNCHANGED <<manager, lifecycle, failed, calls>>

PostAnswers(t) == Issue(t, "post")

(* The auth URL may hand out a token request, which is sent once.            *)
PostGivesRequest(t) ==
    /\ t \notin direct
    /\ Move(t, "post", "requestToken")
    /\ Forget(t)
    /\ UNCHANGED <<manager, lifecycle, tok, failed, clock, calls>>

(* After the last attempt Authenticate fails; once aborted it returns nil.   *)
GivesUp(t) == attempt[t] = AuthenticateRetries \/ (t \notin direct /\ Aborted)
Again(t) ==
    /\ Goto(t, "attempt")
    /\ attempt' = [attempt EXCEPT ![t] = @ + 1] /\ UNCHANGED <<direct, failed>>
PostFailsOnceMore(t) ==
    /\ pc[t] \in {"post", "refused"}
    /\ IF attempt[t] > AuthenticateRetries
       THEN Goto(t, "idle") /\ Forget(t) /\ failed' = failed \cup {t}
       ELSE Again(t)
    /\ UNCHANGED <<manager, lifecycle, tok, clock, calls>>
PostFails(t) ==
    /\ pc[t] \in {"post", "refused"}
    /\ \/ ~GivesUp(t) /\ Again(t)
       \/ /\ GivesUp(t) /\ Goto(t, "idle") /\ Forget(t)
          /\ failed' = IF Aborted /\ t \notin direct THEN failed ELSE failed \cup {t}
    /\ UNCHANGED <<manager, lifecycle, tok, clock, calls>>

RequestAnswers(t) == Issue(t, "requestToken")

RequestFails(t) ==
    /\ Move(t, "requestToken", "idle")
    /\ failed' = failed \cup {t}
    /\ UNCHANGED <<manager, lifecycle, tok, attempt, direct, clock, calls>>

-----------------------------------------------------------------------------
(* setToken and scheduleRefresh: three critical sections *)

SetToken(t) ==
    /\ Move(t, "setToken", "stopTimer")
    /\ currentToken' = tok[t]
    /\ UNCHANGED <<refreshTimer, timer, lifecycle, local, clock, calls>>

StopTimerKeepsLate(t) ==
    /\ Move(t, "stopTimer", IF age[tok[t]] = "fresh" THEN "arm" ELSE "idle")
    /\ StopRefreshTimer
    /\ UNCHANGED <<currentToken, refreshTimer, lifecycle, local, clock, calls>>
StopTimer(t) ==
    /\ Move(t, "stopTimer", IF age[tok[t]] = "fresh" THEN "arm" ELSE "tooLate")
    /\ StopRefreshTimer
    /\ UNCHANGED <<currentToken, refreshTimer, lifecycle, local, clock, calls>>

(* The timer that was stored meanwhile is forgotten, and goes on.            *)
Arm(t) ==
    /\ Move(t, "arm", "idle")
    /\ refreshTimer' = tok[t]
    /\ timer' = [timer EXCEPT ![tok[t]] = "armed"]
    /\ UNCHANGED <<currentToken, lifecycle, local, clock, calls>>

-----------------------------------------------------------------------------
(* ClearToken *)

ClearToken == currentToken' = 0 /\ refreshTimer' = 0 /\ StopRefreshTimer

ClearBy(t, from) ==
    /\ Move(t, from, "idle")
    /\ ClearToken
    /\ UNCHANGED <<lifecycle, local, clock, calls>>

Clear(t) == ClearBy(t, "clear")
ClearTooLate(t) == ClearBy(t, "tooLate")
ResetClears(t) == ClearBy(t, "resetClear")

(* GetToken: the token is read under the lock and looked at outside.         *)
GetToken(t) ==
    /\ Move(t, "getToken", "check")
    /\ tok' = [tok EXCEPT ![t] = currentToken]
    /\ UNCHANGED <<manager, lifecycle, attempt, direct, failed, clock, calls>>

CheckToken(t) ==
    /\ \/ tok[t] # 0 /\ age[tok[t]] = "expired"
          /\ Move(t, "check", "clear") /\ tok' = [tok EXCEPT ![t] = 0]
       \/ (tok[t] # 0 => age[tok[t]] # "expired")
          /\ Move(t, "check", "idle") /\ UNCHANGED tok
    /\ UNCHANGED <<manager, lifecycle, attempt, direct, failed, clock, calls>>

-----------------------------------------------------------------------------
(* Reset *)

Reset(t) ==
    /\ Move(t, "reset", "cancel")
    /\ resetting' = TRUE
    /\ UNCHANGED <<manager, opts, ctx, cancelled, local, clock, calls>>

CancelContext(t) ==
    /\ Move(t, "cancel", "newContext")
    /\ cancelled' = cancelled \cup {ctx}
    /\ UNCHANGED <<manager, opts, resetting, ctx, local, clock, calls>>

NewContextKeepsToken(t) ==
    /\ Move(t, "newContext", "idle")
    /\ ctx' = ctx + 1
    /\ resetting' = FALSE
    /\ UNCHANGED <<manager, opts, cancelled, local, clock, calls>>
NewContext(t) ==
    /\ Move(t, "newContext", "resetClear")
    /\ ctx' = ctx + 1
    /\ resetting' = FALSE
    /\ UNCHANGED <<manager, opts, cancelled, local, clock, calls>>

-----------------------------------------------------------------------------
(* Time *)

Age(i) ==
    /\ \/ age[i] = "fresh" /\ age' = [age EXCEPT ![i] = "late"]
       \/ age[i] = "late" /\ age' = [age EXCEPT ![i] = "expired"]
    /\ UNCHANGED <<manager, lifecycle, caller, issued, calls>>

FireForOwnToken(i) ==
    /\ timer[i] = "armed" /\ age[i] # "fresh" /\ currentToken = i
    /\ timer' = [timer EXCEPT ![i] = "fired"]
    /\ UNCHANGED <<currentToken, refreshTimer, lifecycle, caller, clock, calls>>
Fire(i) ==
    /\ timer[i] = "armed" /\ age[i] # "fresh"
    /\ timer' = [timer EXCEPT ![i] = "fired"]
    /\ UNCHANGED <<currentToken, refreshTimer, lifecycle, caller, clock, calls>>

(* The function the timer runs, whatever the current token is by now.        *)
TimerClears(i) ==
    /\ timer[i] = "fired"
    /\ currentToken' = 0 /\ refreshTimer' = 0
    /\ timer' = [j \in Tokens |->
                    IF j = i THEN "done"
                    ELSE IF j = refreshTimer /\ timer[j] = "armed" THEN "stopped" ELSE timer[j]]
    /\ UNCHANGED <<lifecycle, caller, clock, calls>>

-----------------------------------------------------------------------------
Authenticate(t) ==
    \/ AuthStart(t) \/ Attempt(t) \/ PostAnswers(t) \/ PostGivesRequest(t) \/ PostFails(t)
    \/ RequestAnswers(t) \/ RequestFails(t)
    \/ SetToken(t) \/ StopTimer(t) \/ Arm(t) \/ ClearTooLate(t)
Other(t) ==
    \/ GetToken(t) \/ CheckToken(t) \/ Clear(t)
    \/ Reset(t) \/ CancelContext(t) \/ NewContext(t) \/ ResetClears(t)
Timer(i) == Fire(i) \/ TimerClears(i)

Next ==
    \/ \E t \in Callers : Call(t) \/ Authenticate(t) \/ Other(t)
    \/ \E i \in Tokens : Age(i) \/ Timer(i)

Spec == Init /\ [][Next]_vars

-----------------------------------------------------------------------------
(* Properties *)

Labels ==
    {"idle", "authenticate", "attempt", "post", "refused", "requestToken", "setToken",
     "stopTimer", "arm", "tooLate", "getToken", "check", "clear", "reset", "cancel", "newContext",
     "resetClear"}
MaybeToken == Tokens \cup {0}

ManagerOK ==
    /\ currentToken \in MaybeToken /\ refreshTimer \in MaybeToken
    /\ timer \in [Tokens -> {"none", "armed", "stopped", "fired", "done"}]
LifecycleOK == opts \in Option /\ resetting \in BOOLEAN /\ ctx \in Nat /\ cancelled \subseteq Nat
CallersOK ==
    /\ pc \in [Callers -> Labels] /\ tok \in [Callers -> MaybeToken]
    /\ attempt \in [Callers -> 0 .. AuthenticateRetries]
    /\ direct \subseteq Callers /\ failed \subseteq Callers
ClockOK ==
    /\ age \in [Tokens -> {"none", "fresh", "late", "expired"}]
    /\ issued \in 0 .. MaxTokens /\ calls \in Nat
TypeOK == ManagerOK /\ LifecycleOK /\ CallersOK /\ ClockOK

(* However calls of setToken, ClearToken and Reset and timers interleave, a  *)
(* token that is held has something that will drop it: a timer that runs, or *)
(* a setToken that is about to arm one or to clear it.                       *)
Setting(t) == pc[t] \in {"stopTimer", "arm", "tooLate"}
TokenIsTimed ==
    currentToken # 0 =>
        \/ \E i \in Tokens : timer[i] \in {"armed", "fired"}
        \/ \E t \in Callers : Setting(t)

(* So no expired token is held for ever, even if nobody asks for it.         *)
ExpiredIsDropped ==
    \A i \in Tokens : currentToken = i /\ age[i] = "expired" ~> currentToken # i
=============================================================================
