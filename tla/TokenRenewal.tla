----------------------------- MODULE TokenRenewal -----------------------------
(***************************************************************************)
(* The authentication and the connection composed: connection.New makes    *)
(* Connect the listener of AuthTokenExpired, and Connect authenticates,    *)
(* asks for the credential of the URL and dials.                           *)
(*                                                                         *)
(* emitter.Emit calls its listeners on the goroutine that emits, so a call *)
(* of the manager may contain a Connect, which contains calls of the       *)
(* manager, and so on.  A caller of AuthManager is therefore a frame: a    *)
(* goroutine (one of the application, or the one a timer starts) and a     *)
(* depth.  A frame waits while the one inside it is in use.  What Connect  *)
(* does to sockets is in Connection.                                       *)
(***************************************************************************)
EXTENDS AuthManager, FiniteSets

CONSTANTS
    Users,                  \* goroutines of the application
    MaxDepth                \* bound on the frames of a goroutine

Goroutines == Users \cup Tokens
Depths == 1 .. MaxDepth

ASSUME RenewalAssumption ==
    /\ "AutoAuthenticate" \in Flags
    /\ MaxDepth \in Nat \ {0} /\ Users \cap Tokens = {}
    /\ Callers = Goroutines \X Depths /\ Constructor \in Users \X {1}

VARIABLES
    listening,              \* Reset removes the connection's listener
    conn,                   \* where the Connect of a frame is
    connResetting           \* Conn.resetting

renewal == <<listening, conn, connResetting>>
renewalVars == <<vars, renewal>>

AutoAuthenticate == opts.flag["AutoAuthenticate"]

Inner(f) == <<f[1], f[2] + 1>>
Active(f) == f[2] < MaxDepth => conn[Inner(f)] = "none"
Outermost(g) == <<g, 1>>

RenewalInit ==
    /\ Init
    /\ listening = TRUE /\ connResetting = FALSE
    /\ conn = [f \in Callers |-> "none"]

Connecting(f, from, to) ==
    /\ conn[f] = from /\ Active(f) /\ pc[f] = "idle"
    /\ conn' = [conn EXCEPT ![f] = to]
    /\ UNCHANGED <<listening, connResetting>>

(* Emit AuthTokenExpired: the connection's listener runs as frame f.         *)
Notify(f) ==
    /\ conn' = IF listening /\ f \in Callers THEN [conn EXCEPT ![f] = "connect"] ELSE conn
    /\ UNCHANGED <<listening, connResetting>>

-----------------------------------------------------------------------------
(* Connect, from the check of c.resetting to the dial *)

UserConnects(u) ==
    /\ calls < MaxCalls /\ calls' = calls + 1
    /\ Connecting(Outermost(u), "none", "connect")
    /\ UNCHANGED <<manager, lifecycle, caller, clock>>

(* Conn.Reset, on some other goroutine, sets c.resetting and clears it.      *)
ConnResets ==
    /\ calls < MaxCalls /\ calls' = calls + 1
    /\ connResetting' = TRUE
    /\ UNCHANGED <<manager, lifecycle, caller, clock, listening, conn>>
ConnHasReset ==
    /\ connResetting /\ connResetting' = FALSE
    /\ UNCHANGED <<vars, listening, conn>>

ConnectWhileResetting(f) ==
    /\ connResetting
    /\ Connecting(f, "connect", "none")
    /\ UNCHANGED vars

ConnectUnauthenticated(f) ==
    /\ ~connResetting
    /\ Connecting(f, "connect", "authenticate")
    /\ UNCHANGED vars
Connect(f) ==
    /\ ~connResetting
    /\ Connecting(f, "connect", "authenticate")
    /\ IF AutoAuthenticate
       THEN Invoke(f, "authenticate")
       ELSE UNCHANGED <<manager, lifecycle, caller, clock>>
    /\ UNCHANGED calls

AuthFailsRetries(f) ==
    /\ AutoAuthenticate /\ f \in failed
    /\ Connecting(f, "authenticate", "connect")
    /\ UNCHANGED vars
AuthFails(f) ==
    /\ AutoAuthenticate /\ f \in failed
    /\ Connecting(f, "authenticate", "none")
    /\ UNCHANGED vars

AskWhateverHappened(f) ==
    /\ Connecting(f, "authenticate", "url")
    /\ Invoke(f, "getToken")
    /\ UNCHANGED calls
GetAuthenticateURL(f) ==
    /\ ~(AutoAuthenticate /\ f \in failed)
    /\ Connecting(f, "authenticate", "url")
    /\ Invoke(f, "getToken")
    /\ UNCHANGED calls

NoCredentials(f) ==
    /\ tok[f] = 0 /\ ~HasAPIKey
    /\ Connecting(f, "url", "none")
    /\ UNCHANGED vars

HasCredential(f) ==
    /\ tok[f] # 0 \/ HasAPIKey
    /\ Connecting(f, "url", "dial")
    /\ UNCHANGED vars

(* ws.Connect succeeds or fails; either way Connect returns.                 *)
Dial(f) ==
    /\ Connecting(f, "dial", "none")
    /\ UNCHANGED vars

ConnectStep(f) ==
    \/ ConnectWhileResetting(f) \/ Connect(f) \/ AuthFails(f) \/ GetAuthenticateURL(f)
    \/ NoCredentials(f) \/ HasCredential(f) \/ Dial(f)

-----------------------------------------------------------------------------
(* The manager's steps, with the emissions they contain *)

UserCalls(u) ==
    /\ conn[Outermost(u)] = "none" /\ Active(Outermost(u))
    /\ Call(Outermost(u))
    /\ UNCHANGED renewal

Emitting(f) ==
    /\ Active(f)
    /\ CheckToken(f) \/ StopTimer(f)
    /\ IF pc'[f] \in {"clear", "tooLate"} THEN Notify(Inner(f)) ELSE UNCHANGED renewal

(* Reset ends by removing all listeners.                                     *)
ResetEmitter(f) ==
    /\ Active(f)
    /\ ResetClears(f)
    /\ listening' = FALSE /\ UNCHANGED <<conn, connResetting>>

Silent(f) ==
    /\ Active(f)
    /\ \/ AuthStart(f) \/ Attempt(f) \/ PostAnswers(f) \/ PostGivesRequest(f) \/ PostFails(f)
       \/ RequestAnswers(f) \/ RequestFails(f) \/ SetToken(f) \/ Arm(f) \/ ClearTooLate(f)
       \/ GetToken(f) \/ Clear(f) \/ Reset(f) \/ CancelContext(f) \/ NewContext(f)
    /\ UNCHANGED renewal

TimerFires(i) == Fire(i) /\ Notify(Outermost(i))

RenewalClears(i) ==
    /\ conn[Outermost(i)] = "none"
    /\ TimerClears(i)
    /\ UNCHANGED renewal

Passes(i) == Age(i) /\ UNCHANGED renewal

-----------------------------------------------------------------------------
Frame(f) ==
    /\ pc[f] # "idle" \/ conn[f] # "none"
    /\ ConnectStep(f) \/ Emitting(f) \/ ResetEmitter(f) \/ Silent(f)

RenewalNext ==
    \/ \E u \in Users : UserCalls(u) \/ UserConnects(u)
    \/ ConnResets \/ ConnHasReset
    \/ \E f \in Callers : Frame(f)
    \/ \E i \in Tokens : TimerFires(i) \/ RenewalClears(i) \/ Passes(i)

RenewalSpec == RenewalInit /\ [][RenewalNext]_renewalVars

(* A goroutine runs, in the innermost of its frames; requests are answered   *)
(* or fail.                                                                  *)
FairRenewalSpec ==
    /\ RenewalSpec
    /\ \A g \in Goroutines : WF_renewalVars(\E d \in Depths : Frame(<<g, d>>))

-----------------------------------------------------------------------------
(* Properties *)

RenewalTypeOK ==
    /\ TypeOK
    /\ listening \in BOOLEAN /\ connResetting \in BOOLEAN
    /\ conn \in [Callers -> {"none", "connect", "authenticate", "url", "dial"}]

Depth(g) == Cardinality({d \in Depths : conn[<<g, d>>] # "none"})
Renews == AutoAuthenticate /\ (HasAuthURL \/ HasTokenRequest) /\ ~resetting /\ cancelled = {}

(* GetToken announces an expired token before it clears it, so the Connect   *)
(* that this starts could find it again, announce it again, and so on for    *)
(* ever.  As long as Connect authenticates, every level has cost a token.    *)
NestingIsPaid == Renews => \A g \in Goroutines : Depth(g) <= 1 + issued

(* The timer announces that its token expires while the manager still holds  *)
(* it.  The Connect this starts never dials with that token: it has a newer  *)
(* one or the API key, or it has failed.                                     *)
RenewalDialsAnew ==
    Renews => \A i \in Tokens : conn[Outermost(i)] = "dial" => tok[Outermost(i)] # i

(* The model goes no further here, and the code may: the server could issue  *)
(* one token more, with no life left again, or a listener be called once     *)
(* more.  Nothing in the code ends this recursion.                           *)
BeyondBounds(g) ==
    \E d \in Depths :
        \/ issued = MaxTokens /\ pc[<<g, d>>] \in {"post", "requestToken"}
        \/ d = MaxDepth /\ pc[<<g, d>>] \in {"clear", "tooLate"}

(* Every call returns, whatever its listeners call in turn, unless tokens    *)
(* are issued to it over and over: an error, a reset of either side, a token *)
(* that lasts or an expired one all let it return.                           *)
Busy(g) == pc[Outermost(g)] # "idle" \/ conn[Outermost(g)] # "none"
ListenersReturn == \A g \in Goroutines : Busy(g) ~> ~Busy(g) \/ BeyondBounds(g)
=============================================================================
