-------------------------- MODULE AuthClientsProofs --------------------------
(***************************************************************************)
(* Proofs about the two clients of the authentication manager.             *)
(*                                                                         *)
(* TokenRenewal, for any number of goroutines, tokens, calls and frames:   *)
(* what AuthManagerProofs shows of the manager survives calls that its own *)
(* listeners nest in it, and the nesting itself is paid for in tokens.     *)
(*                                                                         *)
(* RestClient, for any options, goroutines, calls and tokens: a merge of   *)
(* options, and what a Reset leaves of the token.                          *)
(***************************************************************************)
EXTENDS TokenRenewal, RestClient, AuthManagerProofs, FiniteSetTheorems

-----------------------------------------------------------------------------
(* TokenRenewal: the types, and the token                                    *)

(* Every step of the composition is a step of the manager, the beginning of  *)
(* a call, or none of its business.                                          *)
LEMMA RenewalTimedStep ==
    ASSUME TimedInv, [RenewalNext]_renewalVars PROVE TimedInv'
<1>1. ASSUME NEW f \in Callers, Emitting(f) \/ ResetEmitter(f) \/ Silent(f) PROVE TimedInv'
  <2>1. Authenticate(f) \/ Other(f)
    BY <1>1 DEF Emitting, ResetEmitter, Silent, Authenticate, Other
  <2>2. QED
    BY <2>1, ManagerStep
<1>2. ASSUME NEW i \in Tokens, TimerFires(i) \/ RenewalClears(i) \/ Passes(i) PROVE TimedInv'
  BY <1>2, ManagerStep DEF TimerFires, RenewalClears, Passes, Timer
<1>3. ASSUME NEW f \in Callers, ConnectStep(f) PROVE TimedInv'
  <2>1. \/ Invoke(f, "authenticate") \/ Invoke(f, "getToken")
        \/ UNCHANGED <<manager, caller, issued>>
    BY <1>3 DEF ConnectStep, ConnectWhileResetting, Connect, AuthFails, GetAuthenticateURL,
       NoCredentials, HasCredential,
       Dial, vars, clock
  <2>2. QED
    BY <2>1, InvokeStep, IdleStep DEF Labels
<1>4. ASSUME NEW u \in Users, UserCalls(u) \/ UserConnects(u) PROVE TimedInv'
  <2>1. Outermost(u) \in Callers
    BY RenewalAssumption DEF Outermost, Goroutines, Depths
  <2>2. CASE UserCalls(u)
    <3>1. PICK o \in Ops : Invoke(Outermost(u), o)
      BY <2>2 DEF UserCalls, Call
    <3>2. QED
      BY <2>1, <3>1, AuthAssumption, InvokeStep DEF Labels
  <2>3. CASE UserConnects(u)
    BY <2>3, IdleStep DEF UserConnects, clock
  <2>4. QED
    BY <1>4, <2>2, <2>3
<1>5. CASE UNCHANGED renewalVars
  BY <1>5, IdleStep DEF renewalVars, vars, clock
<1>6. CASE ConnResets \/ ConnHasReset
  BY <1>6, IdleStep DEF ConnResets, ConnHasReset, vars, clock
<1>7. QED
  BY <1>1, <1>2, <1>3, <1>4, <1>5, <1>6 DEF RenewalNext, Frame

(* A token that is held has something that will drop it, however deep the    *)
(* connection's listener has nested the calls that set and clear it.         *)
THEOREM RenewedTokenTimed == RenewalSpec => []TokenIsTimed
<1>1. RenewalInit => TimedInv
  BY TimedInit DEF RenewalInit
<1>2. TimedInv /\ [RenewalNext]_renewalVars => TimedInv'
  BY RenewalTimedStep
<1>3. TimedInv => TokenIsTimed
  BY DEF TimedInv
<1>4. QED
  BY <1>1, <1>2, <1>3, PTL DEF RenewalSpec

-----------------------------------------------------------------------------
(* A token is set once, and its timer is armed once *)

Setters == {"setToken", "stopTimer", "arm"}
FreshInv ==
    /\ \A t \in Callers : pc[t] \in Setters => tok[t] <= issued /\ timer[tok[t]] = "none"
    /\ \A t, u \in Callers : {pc[t], pc[u]} \subseteq Setters /\ tok[t] = tok[u] => t = u
    /\ \A i \in Tokens : timer[i] # "none" => i <= issued

(* A step outside the two that issue a token and arm its timer.              *)
LEMMA FreshQuiet ==
    ASSUME TimedInv, FreshInv, UNCHANGED issued, NEW t \in Callers,
           \A i \in Tokens : timer'[i] = "none" <=> timer[i] = "none",
           \A u \in Callers \ {t} : pc'[u] = pc[u] /\ tok'[u] = tok[u],
           pc'[t] \in Setters => pc[t] \in Setters /\ tok'[t] = tok[t]
    PROVE  FreshInv'
<1>1. \A u \in Callers : pc'[u] \in Setters => pc[u] \in Setters /\ tok'[u] = tok[u]
  OBVIOUS
<1>2. \A u \in Callers : pc[u] \in Setters => tok[u] \in Tokens
  BY DEF TimedInv, Setters
<1>3. QED
  BY <1>1, <1>2 DEF FreshInv

LEMMA FreshStep ==
    ASSUME TimedInv, FreshInv,
           \/ \E t \in Callers : Authenticate(t) \/ Other(t)
           \/ \E i \in Tokens : Age(i) \/ Timer(i)
    PROVE  FreshInv'
<1> USE DEF Goto, Move
<1>1. ASSUME NEW t \in Callers, PostAnswers(t) \/ RequestAnswers(t) PROVE FreshInv'
  <2>1. /\ pc[t] \notin Setters /\ pc' = [pc EXCEPT ![t] = "setToken"]
        /\ issued < MaxTokens /\ issued' = issued + 1
        /\ tok' = [tok EXCEPT ![t] = issued + 1] /\ UNCHANGED timer
    BY <1>1 DEF PostAnswers, RequestAnswers, Issue, manager, Setters
  <2>2. issued + 1 \in Tokens /\ issued \in Nat
    BY <2>1, AuthAssumption DEF TimedInv, Tokens
  <2>3. timer[issued + 1] = "none"
    BY <2>2 DEF FreshInv
  <2>4. /\ pc'[t] = "setToken" /\ tok'[t] = issued + 1
        /\ \A u \in Callers \ {t} : pc'[u] = pc[u] /\ tok'[u] = tok[u]
    BY <2>1 DEF TimedInv
  <2>5. \A u \in Callers \ {t} : pc'[u] \in Setters =>
            tok'[u] <= issued /\ tok'[u] \in Tokens /\ timer[tok'[u]] = "none"
    BY <2>4 DEF FreshInv, TimedInv, Setters
  <2>6. \A u \in Callers : pc'[u] \in Setters =>
            tok'[u] <= issued' /\ timer'[tok'[u]] = "none"
    BY <2>1, <2>2, <2>3, <2>4, <2>5 DEF Tokens
  <2>7. \A u, v \in Callers :
            {pc'[u], pc'[v]} \subseteq Setters /\ tok'[u] = tok'[v] => u = v
    <3> SUFFICES ASSUME NEW u \in Callers, NEW v \in Callers, pc'[u] \in Setters,
                        pc'[v] \in Setters, tok'[u] = tok'[v], u # v
                 PROVE  FALSE
      OBVIOUS
    <3>1. CASE u = t \/ v = t
      BY <2>2, <2>4, <2>5, <3>1 DEF Tokens
    <3>2. CASE u # t /\ v # t
      BY <2>4, <3>2 DEF FreshInv
    <3>3. QED
      BY <3>1, <3>2
  <2>8. \A i \in Tokens : timer'[i] # "none" => i <= issued'
    BY <2>1, <2>2 DEF FreshInv, Tokens
  <2>9. QED
    BY <2>6, <2>7, <2>8 DEF FreshInv
<1>2. ASSUME NEW t \in Callers, Arm(t) PROVE FreshInv'
  <2>1. /\ pc[t] = "arm" /\ pc' = [pc EXCEPT ![t] = "idle"] /\ UNCHANGED <<tok, issued>>
        /\ timer' = [timer EXCEPT ![tok[t]] = "armed"] /\ tok[t] \in Tokens
    BY <1>2 DEF Arm, local, clock, TimedInv
  <2>2. \A u \in Callers : pc'[u] \in Setters => u # t /\ pc[u] \in Setters
    BY <2>1 DEF TimedInv, Setters
  <2>3. \A u \in Callers : pc'[u] \in Setters => tok[u] # tok[t]
    BY <2>1, <2>2 DEF FreshInv, Setters
  <2>4. \A u \in Callers : pc'[u] \in Setters => tok'[u] <= issued' /\ timer'[tok'[u]] = "none"
    BY <2>1, <2>2, <2>3 DEF FreshInv, TimedInv, Setters
  <2>5. \A i \in Tokens : timer'[i] # "none" => i <= issued'
    BY <2>1 DEF FreshInv, TimedInv, Setters
  <2>6. QED
    BY <2>1, <2>2, <2>4, <2>5 DEF FreshInv
<1>3. ASSUME NEW t \in Callers,
             \/ AuthStart(t) \/ Attempt(t) \/ PostGivesRequest(t) \/ PostFails(t)
             \/ RequestFails(t) \/ SetToken(t) \/ StopTimer(t) \/ ClearTooLate(t)
             \/ GetToken(t) \/ CheckToken(t) \/ Clear(t) \/ Reset(t) \/ CancelContext(t)
             \/ NewContext(t) \/ ResetClears(t)
      PROVE  FreshInv'
  <2>1. UNCHANGED issued
    BY <1>3 DEF AuthStart, Attempt, PostGivesRequest, PostFails, RequestFails, SetToken,
       StopTimer, ClearTooLate, ClearBy, GetToken, CheckToken, Clear, Reset, CancelContext,
       NewContext, ResetClears, clock
  <2>2. \A i \in Tokens : timer'[i] = "none" <=> timer[i] = "none"
    BY <1>3 DEF AuthStart, Attempt, PostGivesRequest, PostFails, RequestFails, SetToken,
       StopTimer, ClearTooLate, ClearBy, ClearToken, StopRefreshTimer, GetToken, CheckToken,
       Clear, Reset, CancelContext, NewContext, ResetClears, manager, TimedInv
  <2>3. \A u \in Callers \ {t} : pc'[u] = pc[u] /\ tok'[u] = tok[u]
    BY <1>3 DEF AuthStart, Attempt, PostGivesRequest, PostFails, Again, RequestFails, SetToken,
       StopTimer, ClearTooLate, ClearBy, GetToken, CheckToken, Clear, Reset, CancelContext,
       NewContext, ResetClears, local, TimedInv
  <2>4. pc'[t] \in Setters => pc[t] \in Setters /\ tok'[t] = tok[t]
    BY <1>3 DEF AuthStart, Attempt, PostGivesRequest, PostFails, Again, RequestFails, SetToken,
       StopTimer, ClearTooLate, ClearBy, GetToken, CheckToken, Clear, Reset, CancelContext,
       NewContext, ResetClears, local, TimedInv, Setters
  <2>5. QED
    BY <2>1, <2>2, <2>3, <2>4, FreshQuiet
<1>4. ASSUME NEW i \in Tokens, Age(i) \/ Fire(i) \/ TimerClears(i) PROVE FreshInv'
  <2>1. UNCHANGED <<pc, tok, issued>>
    BY <1>4 DEF Age, Fire, TimerClears, caller, local, clock
  <2>2. \A j \in Tokens : timer'[j] = "none" <=> timer[j] = "none"
    BY <1>4 DEF Age, Fire, TimerClears, manager, TimedInv
  <2>3. QED
    BY <2>1, <2>2 DEF FreshInv, TimedInv, Setters
<1>5. QED
  BY <1>1, <1>2, <1>3, <1>4 DEF Authenticate, Other, Timer

-----------------------------------------------------------------------------
(* The Connect that a timer starts *)

AuthLabels ==
    {"idle", "authenticate", "attempt", "post", "refused", "requestToken", "setToken",
     "stopTimer", "arm", "tooLate"}
URLLabels == {"idle", "getToken", "check", "clear"}

(* The frame of timer i is past its own setToken, or past its own GetToken.  *)
PastSet(f) ==
    \/ conn[f] = "authenticate" /\ pc[f] \in {"stopTimer", "arm", "tooLate"}
    \/ conn[f] = "authenticate" /\ pc[f] = "idle" /\ f \notin failed
    \/ conn[f] = "url"
PastGet(f) == conn[f] = "dial" \/ (conn[f] = "url" /\ pc[f] \in {"idle", "check", "clear"})

PlaceOK(f) ==
    \/ conn[f] \in {"none", "connect", "dial"} /\ pc[f] = "idle"
    \/ conn[f] = "authenticate" /\ pc[f] \in AuthLabels
    \/ conn[f] = "url" /\ pc[f] \in URLLabels
DirectOK(f) ==
    conn[f] = "authenticate" /\ pc[f] \in {"attempt", "post", "refused"} /\ HasTokenRequest
        => f \in direct
DialOK(i) ==
    /\ PlaceOK(Outermost(i)) /\ DirectOK(Outermost(i))
    /\ conn[Outermost(i)] # "none" => timer[i] = "fired"
    /\ Renews =>
        /\ PastSet(Outermost(i)) => currentToken # i
        /\ PastGet(Outermost(i)) => tok[Outermost(i)] # i

ResetInv == \A t \in Callers : pc[t] = "newContext" => cancelled # {}
DialInv == ResetInv /\ \A i \in Tokens : DialOK(i)
ConnOK == conn \in [Callers -> {"none", "connect", "authenticate", "url", "dial"}]

LEMMA Frames ==
    /\ \A i \in Tokens : Outermost(i) \in Callers
    /\ \A u \in Users : Outermost(u) \in Callers
    /\ \A u \in Users, i \in Tokens : Outermost(u) # Outermost(i)
    /\ \A i, j \in Tokens : Outermost(i) = Outermost(j) => i = j
    /\ \A f \in Callers, i \in Tokens : Inner(f) # Outermost(i)
BY RenewalAssumption DEF Outermost, Inner, Goroutines, Depths

LEMMA FiredStays ==
    ASSUME TimedInv, FreshInv, NEW t \in Callers, Authenticate(t) \/ Other(t),
           NEW i \in Tokens, timer[i] = "fired"
    PROVE  timer'[i] = "fired" /\ (currentToken' = i => currentToken = i)
<1>1. CASE SetToken(t) \/ Arm(t)
  <2>1. tok[t] \in Tokens /\ timer[tok[t]] = "none"
    BY <1>1 DEF SetToken, Arm, Move, TimedInv, FreshInv, Setters
  <2>2. QED
    BY <1>1, <2>1 DEF SetToken, Arm, TimedInv
<1>2. \/ SetToken(t) \/ Arm(t) \/ ClearToken \/ UNCHANGED <<currentToken, timer>>
      \/ StopRefreshTimer /\ UNCHANGED currentToken
  BY DEF Authenticate, Other, AuthStart, Attempt, PostAnswers, PostGivesRequest, PostFails,
     RequestAnswers, RequestFails, Issue, StopTimer, ClearTooLate, GetToken, CheckToken,
     Clear, Reset, CancelContext, NewContext, ResetClears, ClearBy, manager
<1>3. ASSUME ClearToken \/ StopRefreshTimer PROVE timer'[i] = "fired"
  BY <1>3 DEF ClearToken, StopRefreshTimer, TimedInv
<1>4. i # 0
  BY DEF Tokens
<1>5. QED
  BY <1>1, <1>2, <1>3, <1>4 DEF ClearToken

(* What a step of the manager leaves of a token whose timer has fired.       *)
LEMMA ManagerEffect ==
    ASSUME TimedInv, FreshInv, ResetInv, NEW t \in Callers, Authenticate(t) \/ Other(t)
    PROVE  /\ UNCHANGED opts /\ ResetInv'
           /\ ~resetting' /\ cancelled' = {} => ~resetting /\ cancelled = {}
           /\ \A u \in Callers \ {t} :
                /\ pc'[u] = pc[u] /\ tok'[u] = tok[u]
                /\ (u \in failed' <=> u \in failed) /\ (u \in direct' <=> u \in direct)
           /\ \A i \in Tokens : timer[i] = "fired" =>
                timer'[i] = "fired" /\ (currentToken' = i => currentToken = i)
<1> USE DEF Authenticate, Other, AuthStart, Attempt, PostAnswers, PostGivesRequest, PostFails,
        RequestAnswers, RequestFails, Issue, SetToken, StopTimer, Arm, ClearTooLate, GetToken,
        CheckToken, Clear, Reset, CancelContext, NewContext, ResetClears, ClearBy
<1>1. UNCHANGED opts
  BY DEF lifecycle
<1>2. /\ cancelled' = {} => cancelled = {}
      /\ resetting' = resetting \/ resetting' \/ cancelled # {}
  BY DEF lifecycle, ResetInv, Move
<1>3. \A u \in Callers \ {t} : pc'[u] = pc[u] /\ tok'[u] = tok[u]
  BY DEF local, Move, Goto, Again, Forget, TimedInv
<1>4. \A u \in Callers \ {t} :
        (u \in failed' <=> u \in failed) /\ (u \in direct' <=> u \in direct)
  BY DEF local, Again, Forget
<1>5. ResetInv'
  <2>1. pc'[t] = "newContext" => cancelled' # {}
    BY DEF Move, Goto, Again, TimedInv
  <2>2. QED
    BY <1>2, <1>3, <2>1 DEF ResetInv
<1>6. ASSUME NEW i \in Tokens, timer[i] = "fired"
      PROVE  timer'[i] = "fired" /\ (currentToken' = i => currentToken = i)
  BY <1>6, FiredStays
<1>7. QED
  BY <1>1, <1>2, <1>3, <1>4, <1>5, <1>6

(* A step that leaves the frame of timer i alone, and its fired timer.       *)
LEMMA Elsewhere ==
    ASSUME NEW i \in Tokens, DialOK(i), UNCHANGED opts,
           ~resetting' /\ cancelled' = {} => ~resetting /\ cancelled = {},
           conn'[Outermost(i)] = conn[Outermost(i)], pc'[Outermost(i)] = pc[Outermost(i)],
           tok'[Outermost(i)] = tok[Outermost(i)],
           Outermost(i) \in failed' <=> Outermost(i) \in failed,
           Outermost(i) \in direct' <=> Outermost(i) \in direct,
           conn[Outermost(i)] # "none" /\ timer[i] = "fired" =>
               timer'[i] = "fired" /\ (currentToken' = i => currentToken = i)
    PROVE  DialOK(i)'
<1>1. Renews' => Renews
  BY DEF Renews, AutoAuthenticate, HasAuthURL, HasTokenRequest
<1>2. PastSet(Outermost(i))' => PastSet(Outermost(i)) /\ conn[Outermost(i)] # "none"
  BY DEF PastSet, Outermost
<1>3. PastGet(Outermost(i))' => PastGet(Outermost(i))
  BY DEF PastGet, Outermost
<1>4. PlaceOK(Outermost(i))' /\ DirectOK(Outermost(i))'
  BY DEF DialOK, PlaceOK, DirectOK, HasTokenRequest, Outermost
<1>5. QED
  BY <1>1, <1>2, <1>3, <1>4 DEF DialOK, Outermost

(* A step of the manager in the frame of timer i itself.                     *)
LEMMA OwnManagerStep ==
    ASSUME TimedInv, FreshInv, ResetInv, NEW i \in Tokens, DialOK(i), ConnOK,
           conn[Outermost(i)] # "none", conn'[Outermost(i)] = conn[Outermost(i)],
           Authenticate(Outermost(i)) \/ Other(Outermost(i)),
           pc[Outermost(i)] # "idle"
    PROVE  DialOK(i)'
<1> DEFINE f == Outermost(i)
<1>1. /\ f \in Callers /\ pc \in [Callers -> Labels] /\ tok \in [Callers -> MaybeToken]
      /\ i # 0 /\ timer[i] = "fired"
  BY Frames DEF TimedInv, Tokens, DialOK
<1>2. /\ UNCHANGED opts /\ timer'[i] = "fired" /\ (currentToken' = i => currentToken = i)
      /\ ~resetting' /\ cancelled' = {} => ~resetting /\ cancelled = {}
  BY <1>1, ManagerEffect, FiredStays
<1>3. Renews' => Renews
  BY <1>2 DEF Renews, AutoAuthenticate, HasAuthURL, HasTokenRequest
<1>4. f' = f /\ HasTokenRequest' = HasTokenRequest
  BY <1>2 DEF Outermost, HasTokenRequest
<1> HIDE DEF f
<1>5. CASE conn[f] = "authenticate"
  <2>1. pc[f] \in AuthLabels \ {"idle"}
    BY <1>5 DEF DialOK, PlaceOK, f
  <2>2. Authenticate(f)
    BY <2>1 DEF Other, GetToken, CheckToken, Clear, Reset, CancelContext, NewContext,
       ResetClears, ClearBy, Move, AuthLabels, f
  <2>3. PlaceOK(f)'
    <3>1. pc'[f] \in AuthLabels
      BY <1>1, <2>2 DEF Authenticate, AuthStart, Attempt, PostAnswers, PostGivesRequest, PostFails,
         Again, RequestAnswers, RequestFails, Issue, SetToken, StopTimer, Arm, ClearTooLate,
         ClearBy, Move, Goto, AuthLabels
    <3>2. QED
      BY <1>4, <1>5, <3>1 DEF PlaceOK, f
  <2>4. DirectOK(f)'
    <3>1. CASE AuthStart(f)
      BY <1>1, <1>4, <3>1 DEF AuthStart, Move, Goto, DirectOK
    <3>2. CASE Attempt(f) \/ PostFails(f)
      <4>1. pc[f] \in {"attempt", "post", "refused"}
        BY <3>2 DEF Attempt, PostFails
      <4>2. pc'[f] = "idle" \/ UNCHANGED direct
        BY <1>1, <3>2 DEF Attempt, PostFails, Again, Goto
      <4>3. QED
        BY <1>4, <1>5, <4>1, <4>2 DEF DirectOK, DialOK, f
    <3>3. CASE PostAnswers(f) \/ PostGivesRequest(f) \/ RequestAnswers(f) \/ RequestFails(f)
            \/ SetToken(f) \/ StopTimer(f) \/ Arm(f) \/ ClearTooLate(f)
      <4>1. pc'[f] \notin {"attempt", "post", "refused"}
        BY <1>1, <3>3 DEF PostAnswers, PostGivesRequest, RequestAnswers, RequestFails, Issue,
           SetToken, StopTimer, Arm, ClearTooLate, ClearBy, Move, Goto
      <4>2. QED
        BY <1>4, <4>1 DEF DirectOK
    <3>4. QED
      BY <2>2, <3>1, <3>2, <3>3 DEF Authenticate
  <2>5. ASSUME Renews', PastSet(f)' PROVE currentToken' # i
    <3>1. /\ pc'[f] \in {"stopTimer", "arm", "tooLate"} \/ (pc'[f] = "idle" /\ f \notin failed')
          /\ Renews
      BY <1>3, <1>4, <1>5, <2>5 DEF PastSet, f
    <3>2. ~resetting /\ cancelled = {} /\ (HasTokenRequest \/ HasAuthURL)
      BY <3>1 DEF Renews
    <3>3. CASE SetToken(f)
      <4>1. tok[f] \in Tokens /\ timer[tok[f]] = "none"
        BY <1>1, <3>3 DEF SetToken, Move, TimedInv, FreshInv, Setters
      <4>2. QED
        BY <1>1, <3>3, <4>1 DEF SetToken
    <3>4. CASE StopTimer(f) \/ Arm(f) \/ ClearTooLate(f)
      <4>1. pc[f] \in {"stopTimer", "arm", "tooLate"}
        BY <3>4 DEF StopTimer, Arm, ClearTooLate, ClearBy, Move
      <4>2. QED
        BY <1>2, <1>5, <3>1, <4>1 DEF DialOK, PastSet, f
    <3>5. CASE AuthStart(f)
      BY <1>1, <3>1, <3>2, <3>5 DEF AuthStart, Move, Goto
    <3>6. CASE Attempt(f)
      <4>1. HasTokenRequest => f \in direct
        BY <1>5, <3>6 DEF DialOK, DirectOK, Attempt, f
      <4>2. QED
        BY <1>1, <3>1, <3>2, <3>6, <4>1 DEF Attempt, Goto, Aborted
    <3>7. CASE PostFails(f)
      BY <1>1, <3>1, <3>2, <3>7 DEF PostFails, Again, Goto, Aborted
    <3>8. CASE PostAnswers(f) \/ PostGivesRequest(f) \/ RequestAnswers(f) \/ RequestFails(f)
      BY <1>1, <3>1, <3>8 DEF PostAnswers, PostGivesRequest, RequestAnswers, RequestFails, Issue,
         Move, Goto
    <3>9. QED
      BY <2>2, <3>3, <3>4, <3>5, <3>6, <3>7, <3>8 DEF Authenticate
  <2>6. ~PastGet(f)'
    BY <1>4, <1>5 DEF PastGet, f
  <2>7. QED
    BY <1>2, <1>4, <1>5, <2>3, <2>4, <2>5, <2>6 DEF DialOK, f
<1>6. CASE conn[f] = "url"
  <2>1. pc[f] \in URLLabels \ {"idle"}
    BY <1>6 DEF DialOK, PlaceOK, f
  <2>2. GetToken(f) \/ CheckToken(f) \/ Clear(f)
    BY <2>1 DEF Authenticate, AuthStart, Attempt, PostAnswers, PostGivesRequest, PostFails,
       RequestAnswers, RequestFails, Issue, SetToken, StopTimer, Arm, ClearTooLate, Other,
       Reset, CancelContext, NewContext, ResetClears, ClearBy, Move, URLLabels, f
  <2>3. pc'[f] \in {"idle", "check", "clear"} /\ (GetToken(f) => tok'[f] = currentToken)
    BY <1>1, <2>2 DEF GetToken, CheckToken, Clear, ClearBy, Move, Goto, local
  <2>4. PlaceOK(f)' /\ DirectOK(f)'
    BY <1>4, <1>6, <2>3 DEF PlaceOK, DirectOK, URLLabels, f
  <2>5. ASSUME Renews' PROVE currentToken' # i
    BY <1>2, <1>3, <1>6, <2>5 DEF DialOK, PastSet, f
  <2>6. ASSUME Renews' PROVE tok'[f] # i
    <3>1. currentToken # i
      BY <1>3, <1>6, <2>6 DEF DialOK, PastSet, f
    <3>2. CASE GetToken(f)
      BY <2>3, <3>1, <3>2
    <3>3. CASE CheckToken(f) \/ Clear(f)
      <4>1. pc[f] \in {"check", "clear"} /\ tok'[f] \in {tok[f], 0}
        BY <1>1, <3>3 DEF CheckToken, Clear, ClearBy, Move, local
      <4>2. QED
        BY <1>1, <1>3, <1>6, <2>6, <4>1 DEF DialOK, PastGet, f
    <3>4. QED
      BY <2>2, <3>2, <3>3
  <2>7. QED
    BY <1>2, <1>4, <1>6, <2>4, <2>5, <2>6 DEF DialOK, f
<1>7. QED
  BY <1>5, <1>6 DEF DialOK, PlaceOK, f

(* A step of Connect in the frame of timer i itself.                         *)
LEMMA OwnConnectStep ==
    ASSUME TimedInv, NEW i \in Tokens, DialOK(i), ConnOK, ConnectStep(Outermost(i))
    PROVE  DialOK(i)'
<1> DEFINE f == Outermost(i)
<1>1. /\ f \in Callers /\ pc \in [Callers -> Labels] /\ tok \in [Callers -> MaybeToken]
      /\ conn[f] # "none" => timer[i] = "fired"
  BY Frames DEF TimedInv, DialOK
<1>2. UNCHANGED <<currentToken, timer, opts, resetting, cancelled, tok, direct>>
  BY DEF ConnectStep, ConnectWhileResetting, Connect, AuthFails, GetAuthenticateURL,
     NoCredentials, HasCredential, Dial,
     Invoke, vars, manager, lifecycle, caller, local
<1>3. f' = f /\ HasTokenRequest' = HasTokenRequest /\ Renews' = Renews
  BY <1>2 DEF Outermost, Renews, AutoAuthenticate, HasTokenRequest, HasAuthURL
<1> HIDE DEF f
<1>4. CASE Connect(f)
  <2>1. /\ conn[f] = "connect" /\ pc[f] = "idle" /\ conn'[f] = "authenticate"
        /\ \/ AutoAuthenticate /\ pc'[f] = "authenticate"
           \/ ~AutoAuthenticate /\ pc'[f] = "idle"
    BY <1>1, <1>4 DEF Connect, Connecting, Invoke, Move, Goto, ConnOK, caller
  <2>2. PlaceOK(f)' /\ DirectOK(f)'
    BY <1>3, <2>1 DEF PlaceOK, DirectOK, AuthLabels
  <2>3. Renews => ~PastSet(f)' /\ ~PastGet(f)'
    BY <1>3, <2>1 DEF PastSet, PastGet, Renews
  <2>4. QED
    BY <1>1, <1>2, <1>3, <2>1, <2>2, <2>3 DEF DialOK, f
<1>5. CASE ConnectWhileResetting(f) \/ AuthFails(f) \/ NoCredentials(f) \/ Dial(f)
  <2>1. conn'[f] = "none" /\ pc'[f] = "idle"
    BY <1>1, <1>5 DEF ConnectWhileResetting, AuthFails, NoCredentials, Dial, Connecting, ConnOK,
       vars, caller
  <2>2. QED
    BY <1>3, <2>1 DEF DialOK, PlaceOK, DirectOK, PastSet, PastGet, f
<1>6. CASE GetAuthenticateURL(f)
  <2>1. /\ conn[f] = "authenticate" /\ pc[f] = "idle" /\ ~(AutoAuthenticate /\ f \in failed)
        /\ conn'[f] = "url" /\ pc'[f] = "getToken"
    BY <1>1, <1>6 DEF GetAuthenticateURL, Connecting, Invoke, Move, Goto, ConnOK
  <2>2. Renews => currentToken # i
    BY <2>1 DEF DialOK, PastSet, Renews, f
  <2>3. PlaceOK(f)' /\ DirectOK(f)' /\ ~PastGet(f)'
    BY <1>3, <2>1 DEF PlaceOK, DirectOK, PastGet, URLLabels
  <2>4. QED
    BY <1>1, <1>2, <1>3, <2>1, <2>2, <2>3 DEF DialOK, f
<1>7. CASE HasCredential(f)
  <2>1. /\ conn[f] = "url" /\ pc[f] = "idle" /\ conn'[f] = "dial" /\ pc'[f] = "idle"
    BY <1>1, <1>7 DEF HasCredential, Connecting, ConnOK, vars, caller
  <2>2. Renews => tok[f] # i
    BY <2>1 DEF DialOK, PastGet, f
  <2>3. PlaceOK(f)' /\ DirectOK(f)' /\ ~PastSet(f)'
    BY <1>3, <2>1 DEF PlaceOK, DirectOK, PastSet
  <2>4. QED
    BY <1>1, <1>2, <1>3, <2>1, <2>2, <2>3 DEF DialOK, f
<1>8. QED
  BY <1>4, <1>5, <1>6, <1>7 DEF ConnectStep, f

(* What leaves the manager's state alone but for the beginning of a call.    *)
Begins(f) ==
    /\ UNCHANGED <<currentToken, timer, opts, resetting, cancelled, tok, direct, issued>>
    /\ \/ UNCHANGED <<pc, failed>>
       \/ /\ failed' = failed \ {f}
          /\ \E o \in Ops \cup {"authenticate", "getToken"} : pc[f] = "idle" /\ pc' = [pc EXCEPT ![f] = o]

LEMMA BeginsElsewhere ==
    ASSUME TimedInv, FreshInv, ResetInv, NEW f \in Callers, Begins(f)
    PROVE  /\ FreshInv' /\ ResetInv'
           /\ \A i \in Tokens :
                DialOK(i) /\ f # Outermost(i) /\ conn'[Outermost(i)] = conn[Outermost(i)] => DialOK(i)'
<1>1. \A u \in Callers \ {f} : pc'[u] = pc[u] /\ (u \in failed' <=> u \in failed)
  BY DEF Begins, TimedInv
<1>2. pc'[f] # pc[f] => pc'[f] \notin Setters \cup {"newContext"}
  BY AuthAssumption DEF Begins, TimedInv, Setters
<1>3. FreshInv'
  BY <1>1, <1>2, FreshQuiet DEF Begins
<1>4. ResetInv'
  BY <1>1, <1>2 DEF ResetInv, Begins
<1>5. ASSUME NEW i \in Tokens, DialOK(i), f # Outermost(i),
             conn'[Outermost(i)] = conn[Outermost(i)]
      PROVE  DialOK(i)'
  BY <1>1, <1>5, Frames, Elsewhere DEF Begins
<1>6. QED
  BY <1>3, <1>4, <1>5

LEMMA RenewalDialStep ==
    ASSUME TimedInv, FreshInv, DialInv, ConnOK, [RenewalNext]_renewalVars
    PROVE  FreshInv' /\ DialInv'
<1>1. ASSUME NEW f \in Callers, Frame(f), Emitting(f) \/ ResetEmitter(f) \/ Silent(f)
      PROVE  FreshInv' /\ DialInv'
  <2>1. Authenticate(f) \/ Other(f)
    BY <1>1 DEF Emitting, ResetEmitter, Silent, Authenticate, Other
  <2>2. pc[f] # "idle"
    BY <2>1 DEF Authenticate, AuthStart, Attempt, PostAnswers, PostGivesRequest, PostFails,
       RequestAnswers, RequestFails, Issue, SetToken, StopTimer, Arm, ClearTooLate, Other,
       GetToken, CheckToken, Clear, Reset, CancelContext, NewContext, ResetClears, ClearBy, Move
  <2>3. conn' = conn \/ conn' = [conn EXCEPT ![Inner(f)] = "connect"]
    BY <1>1 DEF Emitting, ResetEmitter, Silent, Notify, renewal
  <2>4. ASSUME NEW i \in Tokens PROVE DialOK(i)'
    <3>1. DialOK(i) /\ conn'[Outermost(i)] = conn[Outermost(i)]
      BY <2>3, Frames DEF DialInv, ConnOK
    <3>2. CASE f = Outermost(i)
      <4>1. conn[f] # "none"
        BY <2>2, <3>1, <3>2 DEF DialOK, PlaceOK
      <4>2. QED
        BY <2>1, <2>2, <3>1, <3>2, <4>1, OwnManagerStep DEF DialInv
    <3>3. CASE f # Outermost(i)
      <4>1. Outermost(i) \in Callers \ {f}
        BY <3>3, Frames
      <4>2. QED
        BY <2>1, <3>1, <4>1, ManagerEffect, Elsewhere DEF DialInv
    <3>4. QED
      BY <3>2, <3>3
  <2>5. QED
    BY <2>1, <2>4, FreshStep, ManagerEffect DEF DialInv
<1>2. ASSUME NEW f \in Callers, ConnectStep(f) PROVE FreshInv' /\ DialInv'
  <2>1. Begins(f)
    BY <1>2 DEF Begins, ConnectStep, ConnectWhileResetting, Connect, AuthFails,
       GetAuthenticateURL, NoCredentials,
       HasCredential, Dial, Invoke, Move, Goto, vars, manager, lifecycle, caller, local, clock
  <2>2. \A i \in Tokens : f # Outermost(i) => conn'[Outermost(i)] = conn[Outermost(i)]
    BY <1>2, Frames DEF ConnectStep, ConnectWhileResetting, Connect, AuthFails,
       GetAuthenticateURL, NoCredentials,
       HasCredential, Dial, Connecting, ConnOK
  <2>3. QED
    BY <1>2, <2>1, <2>2, BeginsElsewhere, OwnConnectStep DEF DialInv
<1>3. ASSUME NEW u \in Users, UserCalls(u) \/ UserConnects(u) PROVE FreshInv' /\ DialInv'
  <2>1. Begins(Outermost(u)) /\ Outermost(u) \in Callers
    BY <1>3, Frames DEF Begins, UserCalls, UserConnects, Call, Invoke, Move, Goto, manager,
       lifecycle, caller, local, clock
  <2>2. \A i \in Tokens : Outermost(u) # Outermost(i)
                          /\ conn'[Outermost(i)] = conn[Outermost(i)]
    BY <1>3, Frames DEF UserCalls, UserConnects, Connecting, ConnOK, renewal
  <2>3. QED
    BY <2>1, <2>2, BeginsElsewhere DEF DialInv
<1>4. ASSUME NEW j \in Tokens, TimerFires(j) \/ RenewalClears(j) \/ Passes(j)
      PROVE  FreshInv' /\ DialInv'
  <2>1. FreshInv'
    BY <1>4, FreshStep DEF TimerFires, RenewalClears, Passes, Timer
  <2>2. UNCHANGED <<opts, resetting, cancelled, pc, tok, failed, direct>>
    BY <1>4 DEF TimerFires, RenewalClears, Passes, Fire, TimerClears, Age, lifecycle, caller,
       local
  <2>3. ASSUME NEW i \in Tokens, i # j PROVE DialOK(i)'
    <3>1. conn'[Outermost(i)] = conn[Outermost(i)]
      BY <1>4, <2>3, Frames DEF TimerFires, RenewalClears, Passes, Notify, ConnOK, renewal
    <3>2. timer[i] = "fired" => timer'[i] = "fired" /\ (currentToken' = i => currentToken = i)
      <4>1. i # 0
        BY DEF Tokens
      <4>2. CASE Fire(j) \/ Age(j)
        BY <2>3, <4>2 DEF Fire, Age, manager, TimedInv
      <4>3. CASE TimerClears(j)
        BY <2>3, <4>1, <4>3 DEF TimerClears, TimedInv
      <4>4. QED
        BY <1>4, <4>2, <4>3 DEF TimerFires, RenewalClears, Passes
    <3>3. QED
      BY <2>2, <3>1, <3>2, Elsewhere DEF DialInv
  <2>4. CASE TimerFires(j)
    <3>1. timer[j] = "armed" /\ timer'[j] = "fired" /\ UNCHANGED currentToken
      BY <2>4 DEF TimerFires, Fire, TimedInv
    <3>2. conn[Outermost(j)] = "none" /\ pc[Outermost(j)] = "idle"
      BY <3>1 DEF DialInv, DialOK, PlaceOK
    <3>3. conn'[Outermost(j)] \in {"none", "connect"}
      BY <2>4, <3>2, Frames DEF TimerFires, Notify, ConnOK
    <3>4. DialOK(j)'
      BY <2>2, <3>1, <3>2, <3>3 DEF DialOK, PlaceOK, DirectOK, PastSet, PastGet, Outermost
    <3>5. QED
      BY <2>1, <2>2, <2>3, <3>4 DEF DialInv, ResetInv
  <2>5. CASE RenewalClears(j) \/ Passes(j)
    <3>1. conn' = conn /\ (RenewalClears(j) => conn[Outermost(j)] = "none")
      BY <2>5 DEF RenewalClears, Passes, renewal
    <3>2. Passes(j) => UNCHANGED <<timer, currentToken>>
      BY DEF Passes, Age, manager
    <3>3. DialOK(j)'
      BY <2>2, <2>5, <3>1, <3>2, Elsewhere DEF DialInv
    <3>4. QED
      BY <2>1, <2>2, <2>3, <3>3 DEF DialInv, ResetInv
  <2>6. QED
    BY <1>4, <2>4, <2>5
<1>5. CASE UNCHANGED renewalVars
  BY <1>5, Elsewhere DEF renewalVars, renewal, vars, manager, lifecycle, caller, local, clock,
     FreshInv, DialInv, ResetInv
<1>6. CASE ConnResets \/ ConnHasReset
  <2>1. UNCHANGED <<conn, manager, lifecycle, caller, clock>>
    BY <1>6 DEF ConnResets, ConnHasReset, vars
  <2>2. QED
    BY <2>1, Elsewhere DEF manager, lifecycle, caller, local, clock, FreshInv, DialInv, ResetInv
<1>7. QED
  BY <1>1, <1>2, <1>3, <1>4, <1>5, <1>6 DEF RenewalNext, Frame

-----------------------------------------------------------------------------
(* The types, and the two theorems *)

LEMMA RenewalManagerTypes ==
    ASSUME TypeOK, TimedInv, RenewalTypeOK, [RenewalNext]_renewalVars PROVE TypeOK'
<1>1. ASSUME NEW f \in Callers, Emitting(f) \/ ResetEmitter(f) \/ Silent(f) PROVE TypeOK'
  <2>1. Authenticate(f) \/ Other(f)
    BY <1>1 DEF Emitting, ResetEmitter, Silent, Authenticate, Other
  <2>2. QED
    BY <2>1, ManagerTypes
<1>2. ASSUME NEW i \in Tokens, TimerFires(i) \/ RenewalClears(i) \/ Passes(i) PROVE TypeOK'
  BY <1>2, ManagerTypes DEF TimerFires, RenewalClears, Passes, Timer
<1>3. ASSUME UNCHANGED <<manager, lifecycle, caller, clock>>, calls' \in Nat PROVE TypeOK'
  BY <1>3 DEF TypeOK, ManagerOK, LifecycleOK, CallersOK, ClockOK, manager, lifecycle, caller,
     local, clock
<1>4. calls \in Nat /\ calls + 1 \in Nat
  BY DEF TypeOK, ClockOK
<1>5. ASSUME NEW f \in Callers, ConnectStep(f) PROVE TypeOK'
  <2>1. \/ Invoke(f, "authenticate") \/ Invoke(f, "getToken")
        \/ UNCHANGED <<manager, lifecycle, caller, clock>>
    BY <1>5 DEF ConnectStep, ConnectWhileResetting, Connect, AuthFails, GetAuthenticateURL,
       NoCredentials, HasCredential,
       Dial, vars
  <2>2. calls' = calls
    BY <1>5 DEF ConnectStep, ConnectWhileResetting, Connect, AuthFails, GetAuthenticateURL,
       NoCredentials, HasCredential,
       Dial, vars
  <2>3. QED
    BY <1>3, <1>4, <2>1, <2>2, InvokeTypes DEF Labels
<1>6. ASSUME NEW u \in Users, UserCalls(u) \/ UserConnects(u) PROVE TypeOK'
  <2>1. calls' \in Nat
    BY <1>4, <1>6 DEF UserCalls, Call, UserConnects
  <2>2. CASE UserCalls(u)
    <3>1. PICK o \in Ops : Invoke(Outermost(u), o)
      BY <2>2 DEF UserCalls, Call
    <3>2. QED
      BY <2>1, <3>1, Frames, AuthAssumption, InvokeTypes DEF Labels
  <2>3. QED
    BY <1>3, <1>6, <2>1, <2>2 DEF UserConnects
<1>7. CASE UNCHANGED renewalVars
  BY <1>3, <1>4, <1>7 DEF renewalVars, vars
<1>8. CASE ConnResets \/ ConnHasReset
  BY <1>3, <1>4, <1>8 DEF ConnResets, ConnHasReset, vars
<1>9. QED
  BY <1>1, <1>2, <1>5, <1>6, <1>7, <1>8 DEF RenewalNext, Frame

LEMMA RenewalConnTypes ==
    ASSUME RenewalTypeOK, [RenewalNext]_renewalVars
    PROVE  listening' \in BOOLEAN /\ connResetting' \in BOOLEAN /\ ConnOK'
<1>1. \A i \in Tokens : Outermost(i) \in Callers
  BY Frames
<1>2. ASSUME NEW f \in Callers, Frame(f)
      PROVE  listening' \in BOOLEAN /\ connResetting' \in BOOLEAN /\ ConnOK'
  BY <1>2 DEF RenewalTypeOK, ConnOK, Frame, ConnectStep, ConnectWhileResetting, Connect,
     AuthFails, GetAuthenticateURL,
     NoCredentials, HasCredential, Dial, Connecting, Emitting, ResetEmitter, Silent, Notify,
     renewal
<1>3. ASSUME NEW u \in Users, UserCalls(u) \/ UserConnects(u)
      PROVE  listening' \in BOOLEAN /\ connResetting' \in BOOLEAN /\ ConnOK'
  BY <1>3 DEF RenewalTypeOK, ConnOK, UserCalls, UserConnects, Connecting, renewal
<1>4. ASSUME NEW i \in Tokens, TimerFires(i) \/ RenewalClears(i) \/ Passes(i)
      PROVE  listening' \in BOOLEAN /\ connResetting' \in BOOLEAN /\ ConnOK'
  BY <1>1, <1>4 DEF RenewalTypeOK, ConnOK, TimerFires, RenewalClears, Passes, Notify, renewal
<1>5. CASE ConnResets \/ ConnHasReset
  BY <1>5 DEF RenewalTypeOK, ConnOK, ConnResets, ConnHasReset
<1>6. QED
  BY <1>2, <1>3, <1>4, <1>5 DEF RenewalNext, RenewalTypeOK, ConnOK, renewalVars, renewal

RenewalInv == RenewalTypeOK /\ TimedInv /\ FreshInv /\ DialInv

LEMMA RenewalInvariant == RenewalSpec => []RenewalInv
<1>1. RenewalInit => RenewalInv
  <2> SUFFICES ASSUME RenewalInit PROVE RenewalInv
    OBVIOUS
  <2>1. TypeOK /\ TimedInv /\ RenewalTypeOK
    BY InitTypes, TimedInit DEF RenewalInit, RenewalTypeOK
  <2>2. /\ \A f \in Callers : pc[f] \in {"idle", "requestToken"} /\ conn[f] = "none"
        /\ \A i \in Tokens : Outermost(i) \in Callers /\ pc[Outermost(i)] = "idle"
    BY Frames, RenewalAssumption DEF RenewalInit, Init, Outermost
  <2>3. FreshInv
    BY <2>2 DEF RenewalInit, Init, FreshInv, Setters
  <2>4. DialInv
    BY <2>2 DEF DialInv, ResetInv, DialOK, PlaceOK, DirectOK, PastSet, PastGet
  <2>5. QED
    BY <2>1, <2>3, <2>4 DEF RenewalInv
<1>2. RenewalInv /\ [RenewalNext]_renewalVars => RenewalInv'
  BY RenewalManagerTypes, RenewalConnTypes, RenewalTimedStep, RenewalDialStep
  DEF RenewalInv, RenewalTypeOK, ConnOK
<1>3. QED
  BY <1>1, <1>2, PTL DEF RenewalSpec

(* The types of the composition's state are kept.                            *)
THEOREM RenewalTypes == RenewalSpec => []RenewalTypeOK
BY RenewalInvariant, PTL DEF RenewalInv

(* The Connect that a timer starts never dials with the token whose expiry   *)
(* the timer announced, although the manager may still hold that token.      *)
THEOREM TimerDialsAnew == RenewalSpec => []RenewalDialsAnew
<1>1. RenewalInv => RenewalDialsAnew
  BY DEF RenewalInv, DialInv, DialOK, PastGet, RenewalDialsAnew
<1>2. QED
  BY <1>1, RenewalInvariant, PTL

-----------------------------------------------------------------------------
(* Why nested Connects end: all but the innermost have set a token           *)

Runs(g, d) == conn[<<g, d>>] # "none"

(* The Connect of frame f has been issued a token.                           *)
Paid(f) ==
    \/ conn[f] \in {"url", "dial"}
    \/ conn[f] = "authenticate" /\ pc[f] \in Setters \cup {"tooLate"}
    \/ conn[f] = "authenticate" /\ pc[f] = "idle" /\ f \notin failed
Payments(g) == {d \in Depths : Paid(<<g, d>>)}

(* A frame around another is at an announcement, and within a Connect unless *)
(* it is outermost.                                                          *)
Announces(f) == pc[f] \in {"clear", "tooLate"}
Nested ==
    \A g \in Goroutines, d, e \in Depths : d < e /\ Runs(g, e) =>
        Announces(<<g, d>>) /\ (d # 1 => Runs(g, d))
WellPlaced ==
    \A f \in Callers : (PlaceOK(f) \/ (f[2] = 1 /\ conn[f] = "none")) /\ DirectOK(f)
AllPaid == Renews => \A g \in Goroutines : Cardinality(Payments(g)) <= issued
NestInv == Nested /\ WellPlaced /\ AllPaid

LEMMA FrameParts ==
    /\ \A f \in Callers : f[1] \in Goroutines /\ f[2] \in Depths /\ f = <<f[1], f[2]>>
    /\ \A g \in Goroutines, d \in Depths : <<g, d>> \in Callers
    /\ \A g \in Goroutines : Outermost(g) \in Callers
BY RenewalAssumption DEF Goroutines, Depths, Outermost

(* Only the innermost frame of a goroutine moves.                            *)
LEMMA Innermost ==
    ASSUME Nested, NEW f \in Callers, Active(f) \/ ~Announces(f)
    PROVE  \A e \in Depths : f[2] < e => ~Runs(f[1], e)
<1> DEFINE g == f[1] d == f[2]
<1>1. g \in Goroutines /\ d \in Depths /\ f = <<g, d>> /\ d \in Nat \ {0}
  BY FrameParts DEF Depths
<1>2. SUFFICES ASSUME NEW e \in Depths, d < e, Runs(g, e) PROVE FALSE
  OBVIOUS
<1>3. Announces(f)
  BY <1>1, <1>2 DEF Nested
<1>4. d < MaxDepth /\ d + 1 \in Depths /\ d + 1 # 1
  BY <1>1, <1>2, RenewalAssumption DEF Depths
<1>5. ~Runs(g, d + 1)
  BY <1>1, <1>3, <1>4 DEF Active, Inner, Runs
<1>6. d + 1 < e
  BY <1>1, <1>2, <1>5 DEF Depths
<1>7. QED
  BY <1>1, <1>2, <1>4, <1>5, <1>6 DEF Nested

(* A step of frame f, which may call a listener.                             *)
LEMMA NestStep ==
    ASSUME Nested, NEW f \in Callers, Active(f) \/ ~Announces(f),
           \A q \in Callers \ {f} : pc'[q] = pc[q],
           \A q \in Callers \ {f, Inner(f)} : conn'[q] = conn[q],
           Inner(f) \in Callers =>
               conn'[Inner(f)] = conn[Inner(f)] \/ (Announces(f)' /\ conn'[f] = conn[f]),
           f[2] # 1 => conn[f] # "none"
    PROVE  Nested'
<1> DEFINE g == f[1] d == f[2]
<1>1. g \in Goroutines /\ d \in Depths /\ f = <<g, d>> /\ d \in Nat \ {0}
  BY FrameParts DEF Depths
<1>2. Depths \subseteq Nat \ {0}
  BY DEF Depths
<1>3. Inner(f) = <<g, d + 1>>
  BY DEF Inner
<1>4. SUFFICES ASSUME NEW h \in Goroutines, NEW a \in Depths, NEW e \in Depths,
                      a < e, conn'[<<h, e>>] # "none"
               PROVE  /\ pc'[<<h, a>>] \in {"clear", "tooLate"}
                      /\ a # 1 => conn'[<<h, a>>] # "none"
  BY DEF Nested, Runs, Announces
<1>5. <<h, a>> \in Callers /\ <<h, e>> \in Callers
  BY FrameParts
<1>6. \A b \in Depths : d < b => conn[<<g, b>>] = "none"
  BY Innermost DEF Runs
<1>7. CASE h # g
  <2>1. /\ pc'[<<h, a>>] = pc[<<h, a>>] /\ conn'[<<h, a>>] = conn[<<h, a>>]
        /\ conn'[<<h, e>>] = conn[<<h, e>>]
    BY <1>1, <1>3, <1>5, <1>7
  <2>2. QED
    BY <1>4, <2>1 DEF Nested, Runs, Announces
<1>8. CASE h = g /\ e > d + 1
  <2>1. conn'[<<h, e>>] = conn[<<h, e>>]
    BY <1>1, <1>2, <1>3, <1>5, <1>8
  <2>2. QED
    BY <1>1, <1>2, <1>4, <1>6, <1>8, <2>1
<1>9. CASE h = g /\ e = d + 1
  <2>1. conn'[<<g, e>>] # conn[<<g, e>>]
    BY <1>1, <1>2, <1>4, <1>6, <1>9
  <2>2. Announces(f)' /\ conn'[f] = conn[f]
    BY <1>3, <1>5, <1>9, <2>1
  <2>3. CASE a = d
    BY <1>1, <1>9, <2>2, <2>3 DEF Announces
  <2>4. CASE a # d
    <3>1. a < d /\ d # 1
      BY <1>1, <1>2, <1>4, <1>9, <2>4
    <3>2. pc[<<g, a>>] \in {"clear", "tooLate"} /\ (a # 1 => conn[<<g, a>>] # "none")
      BY <1>1, <3>1 DEF Nested, Runs, Announces
    <3>3. pc'[<<g, a>>] = pc[<<g, a>>] /\ conn'[<<g, a>>] = conn[<<g, a>>]
      BY <1>1, <1>2, <1>3, <1>5, <1>9, <3>1
    <3>4. QED
      BY <1>9, <3>2, <3>3
  <2>5. QED
    BY <2>3, <2>4
<1>10. CASE h = g /\ e <= d
  <2>1. a < d /\ d # 1
    BY <1>1, <1>2, <1>4, <1>10
  <2>2. pc'[<<g, a>>] = pc[<<g, a>>] /\ conn'[<<g, a>>] = conn[<<g, a>>]
    BY <1>1, <1>2, <1>3, <1>5, <1>10, <2>1
  <2>3. pc[<<g, a>>] \in {"clear", "tooLate"} /\ (a # 1 => conn[<<g, a>>] # "none")
    BY <1>1, <2>1 DEF Nested, Runs, Announces
  <2>4. QED
    BY <1>10, <2>2, <2>3
<1>11. QED
  BY <1>1, <1>2, <1>7, <1>8, <1>9, <1>10

(* A token pays for one Connect.                                             *)
LEMMA PaidStep ==
    ASSUME AllPaid, NEW f \in Callers, Renews' => Renews,
           \A q \in Callers \ {f} : Paid(q)' => Paid(q),
           issued \in Nat,
           \/ issued' = issued /\ (Renews' /\ Paid(f)' => Paid(f))
           \/ issued' = issued + 1
    PROVE  AllPaid'
<1>1. SUFFICES ASSUME Renews', NEW g \in Goroutines
               PROVE  Cardinality(Payments(g)') <= issued'
  BY DEF AllPaid
<1>2. /\ IsFiniteSet(Payments(g)) /\ Cardinality(Payments(g)) \in Nat
      /\ Cardinality(Payments(g)) <= issued
  <2>1. IsFiniteSet(Depths)
    BY RenewalAssumption, FS_Interval DEF Depths
  <2>2. IsFiniteSet(Payments(g))
    BY <2>1, FS_Subset DEF Payments
  <2>3. QED
    BY <1>1, <2>2, FS_CardinalityType DEF AllPaid
<1>3. \A d \in Depths : <<g, d>> \in Callers /\ (<<g, d>> = f => d = f[2])
  BY FrameParts
<1>4. CASE issued' = issued /\ (Paid(f)' => Paid(f))
  <2>1. Payments(g)' \subseteq Payments(g)
    BY <1>3, <1>4 DEF Payments
  <2>2. QED
    <3>1. /\ IsFiniteSet(Payments(g)') /\ Cardinality(Payments(g)') <= Cardinality(Payments(g))
          /\ Cardinality(Payments(g)') \in Nat
      BY <1>2, <2>1, FS_Subset, FS_CardinalityType
    <3>2. QED
      BY <1>2, <1>4, <3>1
<1>5. CASE issued' = issued + 1
  <2>1. Payments(g)' \subseteq Payments(g) \cup {f[2]}
    BY <1>3 DEF Payments
  <2>2. /\ IsFiniteSet(Payments(g) \cup {f[2]})
        /\ Cardinality(Payments(g) \cup {f[2]}) <= Cardinality(Payments(g)) + 1
    <3>1. /\ IsFiniteSet(Payments(g) \cup {f[2]})
          /\ \/ Cardinality(Payments(g) \cup {f[2]}) = Cardinality(Payments(g))
             \/ Cardinality(Payments(g) \cup {f[2]}) = Cardinality(Payments(g)) + 1
      BY <1>2, FS_AddElement, Zenon
    <3>2. QED
      BY <1>2, <3>1
  <2>3. IsFiniteSet(Payments(g)') /\ Cardinality(Payments(g)') <= Cardinality(Payments(g) \cup {f[2]})
    BY <2>1, <2>2, FS_Subset
  <2>4. Cardinality(Payments(g)') \in Nat /\ Cardinality(Payments(g) \cup {f[2]}) \in Nat
    BY <2>2, <2>3, FS_CardinalityType
  <2>5. QED
    BY <1>2, <1>5, <2>2, <2>3, <2>4
<1>6. QED
  BY <1>1, <1>4, <1>5

(* A step of the manager in a frame: it stays in its place, and has a token  *)
(* after its authentication.                                                 *)
LEMMA FrameManagerStep ==
    ASSUME TimedInv, ConnOK, Renews' => Renews, UNCHANGED opts, NEW f \in Callers,
           Authenticate(f) \/ Other(f), conn'[f] = conn[f],
           PlaceOK(f) \/ (f[2] = 1 /\ conn[f] = "none"), DirectOK(f)
    PROVE  /\ pc[f] # "idle"
           /\ PlaceOK(f)' \/ (f[2] = 1 /\ conn'[f] = "none")
           /\ DirectOK(f)'
           /\ issued' = issued \/ issued' = issued + 1
           /\ issued' = issued /\ Renews' /\ Paid(f)' => Paid(f)
<1>1. pc \in [Callers -> Labels] /\ HasTokenRequest' = HasTokenRequest
  BY DEF TimedInv, HasTokenRequest
<1>2. pc[f] # "idle" /\ (issued' = issued \/ issued' = issued + 1)
  BY DEF Authenticate, AuthStart, Attempt, PostAnswers, PostGivesRequest, PostFails,
     RequestAnswers, RequestFails, Issue, SetToken, StopTimer, Arm, ClearTooLate, Other,
     GetToken, CheckToken, Clear, Reset, CancelContext, NewContext, ResetClears, ClearBy, Move,
     clock
<1>3. CASE conn[f] \notin {"authenticate", "url"}
  <2>1. f[2] = 1 /\ conn[f] = "none"
    BY <1>2, <1>3 DEF PlaceOK
  <2>2. QED
    BY <1>2, <2>1 DEF DirectOK, Paid
<1>4. CASE conn[f] = "url"
  <2>1. pc[f] \in URLLabels \ {"idle"}
    BY <1>2, <1>4 DEF PlaceOK
  <2>2. GetToken(f) \/ CheckToken(f) \/ Clear(f)
    BY <2>1 DEF Authenticate, AuthStart, Attempt, PostAnswers, PostGivesRequest, PostFails,
       RequestAnswers, RequestFails, Issue, SetToken, StopTimer, Arm, ClearTooLate, Other,
       Reset, CancelContext, NewContext, ResetClears, ClearBy, Move, URLLabels
  <2>3. pc'[f] \in {"idle", "check", "clear"}
    BY <1>1, <2>2 DEF GetToken, CheckToken, Clear, ClearBy, Move, Goto
  <2>4. QED
    BY <1>2, <1>4, <2>3 DEF PlaceOK, DirectOK, URLLabels, Paid
<1>5. CASE conn[f] = "authenticate"
  <2>1. pc[f] \in AuthLabels \ {"idle"}
    BY <1>2, <1>5 DEF PlaceOK
  <2>2. Authenticate(f)
    BY <2>1 DEF Other, GetToken, CheckToken, Clear, Reset, CancelContext, NewContext,
       ResetClears, ClearBy, Move, AuthLabels
  <2>3. PlaceOK(f)'
    <3>1. pc'[f] \in AuthLabels
      BY <1>1, <2>2 DEF Authenticate, AuthStart, Attempt, PostAnswers, PostGivesRequest, PostFails,
         Again, RequestAnswers, RequestFails, Issue, SetToken, StopTimer, Arm, ClearTooLate,
         ClearBy, Move, Goto, AuthLabels
    <3>2. QED
      BY <1>5, <3>1 DEF PlaceOK
  <2>4. DirectOK(f)'
    <3>1. CASE AuthStart(f)
      BY <1>1, <3>1 DEF AuthStart, Move, Goto, DirectOK
    <3>2. CASE Attempt(f) \/ PostFails(f)
      <4>1. pc[f] \in {"attempt", "post", "refused"}
        BY <3>2 DEF Attempt, PostFails
      <4>2. pc'[f] = "idle" \/ UNCHANGED direct
        BY <1>1, <3>2 DEF Attempt, PostFails, Again, Goto
      <4>3. QED
        BY <1>1, <1>5, <4>1, <4>2 DEF DirectOK
    <3>3. CASE PostAnswers(f) \/ PostGivesRequest(f) \/ RequestAnswers(f) \/ RequestFails(f)
            \/ SetToken(f) \/ StopTimer(f) \/ Arm(f) \/ ClearTooLate(f)
      <4>1. pc'[f] \notin {"attempt", "post", "refused"}
        BY <1>1, <3>3 DEF PostAnswers, PostGivesRequest, RequestAnswers, RequestFails, Issue,
           SetToken, StopTimer, Arm, ClearTooLate, ClearBy, Move, Goto
      <4>2. QED
        BY <4>1 DEF DirectOK
    <3>4. QED
      BY <2>2, <3>1, <3>2, <3>3 DEF Authenticate
  <2>5. ASSUME Renews', issued' = issued, Paid(f)' PROVE Paid(f)
    <3>1. /\ pc'[f] \in Setters \cup {"tooLate"} \/ (pc'[f] = "idle" /\ f \notin failed')
          /\ ~resetting /\ cancelled = {} /\ (HasTokenRequest \/ HasAuthURL)
      BY <1>5, <2>5 DEF Paid, Renews
    <3>2. CASE SetToken(f) \/ StopTimer(f) \/ Arm(f) \/ ClearTooLate(f)
      BY <1>5, <3>2 DEF SetToken, StopTimer, Arm, ClearTooLate, ClearBy, Move, Paid, Setters
    <3>3. CASE AuthStart(f)
      BY <1>1, <3>1, <3>3 DEF AuthStart, Move, Goto, Setters
    <3>4. CASE Attempt(f)
      <4>1. HasTokenRequest => f \in direct
        BY <1>5, <3>4 DEF DirectOK, Attempt
      <4>2. QED
        BY <1>1, <3>1, <3>4, <4>1 DEF Attempt, Goto, Aborted, Setters
    <3>5. CASE PostFails(f)
      BY <1>1, <3>1, <3>5 DEF PostFails, Again, Goto, Aborted, Setters
    <3>6. CASE PostGivesRequest(f) \/ RequestFails(f)
      BY <1>1, <3>1, <3>6 DEF PostGivesRequest, RequestFails, Move, Goto, Setters
    <3>7. ASSUME PostAnswers(f) \/ RequestAnswers(f) PROVE FALSE
      BY <2>5, <3>7 DEF PostAnswers, RequestAnswers, Issue, TimedInv
    <3>8. QED
      BY <2>2, <3>2, <3>3, <3>4, <3>5, <3>6, <3>7 DEF Authenticate
  <2>6. QED
    BY <1>2, <2>3, <2>4, <2>5
<1>6. QED
  BY <1>3, <1>4, <1>5

(* What a step outside frame f leaves of a frame.                            *)
LEMMA OthersPlaced ==
    ASSUME WellPlaced, UNCHANGED opts, NEW q \in Callers, pc'[q] = pc[q],
           q \in direct' <=> q \in direct,
           conn'[q] = conn[q] \/ (conn'[q] = "connect" /\ pc[q] = "idle")
    PROVE  (PlaceOK(q)' \/ (q[2] = 1 /\ conn'[q] = "none")) /\ DirectOK(q)'
BY DEF WellPlaced, PlaceOK, DirectOK, HasTokenRequest

LEMMA NestManagerStep ==
    ASSUME TimedInv, FreshInv, ResetInv, ConnOK, NestInv, NEW f \in Callers, Frame(f),
           Emitting(f) \/ ResetEmitter(f) \/ Silent(f)
    PROVE  NestInv'
<1>1. (Authenticate(f) \/ Other(f)) /\ Active(f)
  BY DEF Emitting, ResetEmitter, Silent, Authenticate, Other
<1>2. /\ UNCHANGED opts /\ (Renews' => Renews)
      /\ \A q \in Callers \ {f} :
            /\ pc'[q] = pc[q]
            /\ (q \in failed' <=> q \in failed) /\ (q \in direct' <=> q \in direct)
  BY <1>1, ManagerEffect DEF Renews, AutoAuthenticate, HasAuthURL, HasTokenRequest
<1>3. Inner(f) # f
  BY FrameParts DEF Inner, Depths
<1>4. \/ conn' = conn
      \/ Announces(f)' /\ conn' = [conn EXCEPT ![Inner(f)] = "connect"] /\ Inner(f) \in Callers
  BY DEF Emitting, ResetEmitter, Silent, Notify, renewal, Announces
<1>5. /\ conn'[f] = conn[f] /\ \A q \in Callers \ {Inner(f)} : conn'[q] = conn[q]
      /\ Inner(f) \in Callers =>
            conn'[Inner(f)] = conn[Inner(f)] \/ (Announces(f)' /\ conn'[Inner(f)] = "connect")
  BY <1>3, <1>4 DEF ConnOK
<1>6. /\ pc[f] # "idle"
      /\ PlaceOK(f)' \/ (f[2] = 1 /\ conn'[f] = "none")
      /\ DirectOK(f)'
      /\ issued' = issued \/ issued' = issued + 1
      /\ issued' = issued /\ Renews' /\ Paid(f)' => Paid(f)
  BY <1>1, <1>2, <1>5, FrameManagerStep DEF NestInv, WellPlaced
<1>7. f[2] # 1 => conn[f] # "none"
  BY <1>6 DEF NestInv, WellPlaced, PlaceOK
<1>8. Nested'
  BY <1>1, <1>2, <1>5, <1>7, NestStep DEF NestInv
<1>9. Inner(f) \in Callers /\ conn[Inner(f)] = "none" => pc[Inner(f)] = "idle"
  <2>1. Inner(f)[2] # 1
    BY FrameParts DEF Inner, Depths
  <2>2. QED
    BY <2>1 DEF NestInv, WellPlaced, PlaceOK
<1>10. Inner(f) \in Callers => conn[Inner(f)] = "none"
  BY <1>1, FrameParts, RenewalAssumption DEF Active, Inner, Depths
<1>11. ASSUME NEW q \in Callers, q # f
       PROVE  conn'[q] = conn[q] \/ (conn'[q] = "connect" /\ pc[q] = "idle")
  BY <1>5, <1>9, <1>10, <1>11
<1>12. WellPlaced'
  <2>1. ASSUME NEW q \in Callers, q # f
        PROVE  (PlaceOK(q)' \/ (q[2] = 1 /\ conn'[q] = "none")) /\ DirectOK(q)'
    BY <1>2, <1>11, <2>1, OthersPlaced DEF NestInv
  <2>2. QED
    BY <1>6, <2>1 DEF WellPlaced
<1>13. AllPaid'
  <2>1. \A q \in Callers \ {f} : Paid(q)' => Paid(q)
    BY <1>2, <1>11 DEF Paid
  <2>2. issued \in Nat
    BY DEF TimedInv
  <2>3. QED
    BY <1>2, <1>6, <2>1, <2>2, PaidStep DEF NestInv
<1>14. QED
  BY <1>8, <1>12, <1>13 DEF NestInv

(* A step of Connect, or the beginning of a call.                            *)
LEMMA NestConnectStep ==
    ASSUME TimedInv, ConnOK, NestInv, NEW f \in Callers,
           \/ ConnectStep(f)
           \/ \E u \in Users : f = Outermost(u) /\ (UserCalls(u) \/ UserConnects(u))
    PROVE  NestInv'
<1>1. pc \in [Callers -> Labels]
  BY DEF TimedInv
<1>2. Begins(f)
  BY DEF Begins, ConnectStep, ConnectWhileResetting, Connect, AuthFails, GetAuthenticateURL,
     NoCredentials,
     HasCredential, Dial, UserCalls, UserConnects, Call, Invoke, Move, Goto, vars, manager,
     lifecycle, caller, local, clock
<1>3. /\ \A q \in Callers \ {f} : pc'[q] = pc[q] /\ (q \in failed' <=> q \in failed)
      /\ UNCHANGED <<opts, direct, issued>> /\ Renews' = Renews
  BY <1>1, <1>2 DEF Begins, Renews, AutoAuthenticate, HasAuthURL, HasTokenRequest
<1>4. /\ \A q \in Callers \ {f} : conn'[q] = conn[q]
      /\ pc[f] = "idle" /\ Active(f)
      /\ conn[f] # "none" \/ f[2] = 1
  <2>1. CASE ConnectStep(f)
    <3>1. PICK from \in {"connect", "authenticate", "url", "dial"},
               to \in {"authenticate", "url", "dial", "none"} : Connecting(f, from, to)
      BY <2>1 DEF ConnectStep, ConnectWhileResetting, Connect, AuthFails, GetAuthenticateURL,
         NoCredentials,
         HasCredential, Dial
    <3>2. QED
      BY <3>1 DEF Connecting, ConnOK
  <2>2. ASSUME NEW u \in Users, f = Outermost(u), UserCalls(u) \/ UserConnects(u)
        PROVE  /\ \A q \in Callers \ {f} : conn'[q] = conn[q]
               /\ pc[f] = "idle" /\ Active(f)
               /\ f[2] = 1
    <3>1. CASE UserConnects(u)
      BY <2>2, <3>1 DEF UserConnects, Connecting, ConnOK, Outermost
    <3>2. CASE UserCalls(u)
      <4>1. pc[f] = "idle"
        BY <2>2, <3>2 DEF UserCalls, Call, Invoke, Move
      <4>2. QED
        BY <2>2, <3>2, <4>1 DEF UserCalls, renewal, Outermost
    <3>3. QED
      BY <2>2, <3>1, <3>2
  <2>3. QED
    BY <2>1, <2>2
<1>5. Inner(f) # f
  BY FrameParts DEF Inner, Depths
<1>6. Nested'
  BY <1>3, <1>4, <1>5, NestStep DEF NestInv
<1>7. /\ PlaceOK(f)' \/ (f[2] = 1 /\ conn'[f] = "none")
      /\ DirectOK(f)'
      /\ Renews /\ Paid(f)' => Paid(f)
  <2>1. CASE \E u \in Users : f = Outermost(u) /\ (UserCalls(u) \/ UserConnects(u))
    <3>1. \/ f[2] = 1 /\ conn'[f] = "none"
          \/ conn'[f] = "connect" /\ pc'[f] = "idle"
      BY <1>1, <2>1 DEF UserCalls, UserConnects, Connecting, ConnOK, renewal, Outermost, caller
    <3>2. QED
      BY <3>1 DEF PlaceOK, DirectOK, Paid
  <2>2. CASE Connect(f)
    <3>1. /\ conn'[f] = "authenticate" /\ pc'[f] \in {"authenticate", "idle"}
          /\ Renews => pc'[f] = "authenticate"
      BY <1>1, <2>2 DEF Connect, Connecting, Invoke, Move, Goto, ConnOK, caller, Renews
    <3>2. QED
      BY <3>1 DEF PlaceOK, DirectOK, AuthLabels, Paid, Setters
  <2>3. CASE ConnectWhileResetting(f) \/ AuthFails(f) \/ NoCredentials(f) \/ Dial(f)
    <3>1. conn'[f] = "none" /\ pc'[f] = "idle"
      BY <1>1, <2>3 DEF ConnectWhileResetting, AuthFails, NoCredentials, Dial, Connecting,
         ConnOK, vars, caller
    <3>2. QED
      BY <3>1 DEF PlaceOK, DirectOK, Paid
  <2>4. CASE GetAuthenticateURL(f)
    <3>1. /\ conn[f] = "authenticate" /\ pc[f] = "idle" /\ ~(AutoAuthenticate /\ f \in failed)
          /\ conn'[f] = "url" /\ pc'[f] = "getToken"
      BY <1>1, <2>4 DEF GetAuthenticateURL, Connecting, Invoke, Move, Goto, ConnOK
    <3>2. QED
      BY <3>1 DEF PlaceOK, DirectOK, URLLabels, Paid, Renews
  <2>5. CASE HasCredential(f)
    <3>1. conn[f] = "url" /\ conn'[f] = "dial" /\ pc'[f] = "idle"
      BY <1>1, <2>5 DEF HasCredential, Connecting, ConnOK, vars, caller
    <3>2. QED
      BY <3>1 DEF PlaceOK, DirectOK, Paid
  <2>6. QED
    BY <2>1, <2>2, <2>3, <2>4, <2>5 DEF ConnectStep
<1>8. WellPlaced'
  <2>1. ASSUME NEW q \in Callers, q # f
        PROVE  (PlaceOK(q)' \/ (q[2] = 1 /\ conn'[q] = "none")) /\ DirectOK(q)'
    BY <1>3, <1>4, <2>1, OthersPlaced DEF NestInv
  <2>2. QED
    BY <1>7, <2>1 DEF WellPlaced
<1>9. AllPaid'
  <2>1. \A q \in Callers \ {f} : Paid(q)' => Paid(q)
    BY <1>3, <1>4 DEF Paid
  <2>2. issued \in Nat
    BY DEF TimedInv
  <2>3. QED
    BY <1>3, <1>7, <2>1, <2>2, PaidStep DEF NestInv
<1>10. QED
  BY <1>6, <1>8, <1>9 DEF NestInv

(* Time and timers: a timer's goroutine begins with nothing under way.       *)
LEMMA NestTimerStep ==
    ASSUME TimedInv, ConnOK, DialInv, NestInv, NEW i \in Tokens,
           TimerFires(i) \/ RenewalClears(i) \/ Passes(i)
    PROVE  NestInv'
<1> DEFINE f == Outermost(i)
<1>1. f \in Callers /\ f[2] = 1
  BY Frames DEF Outermost
<1>2. /\ UNCHANGED <<opts, resetting, cancelled, pc, failed, direct, issued>>
  BY DEF TimerFires, RenewalClears, Passes, Fire, TimerClears, Age, lifecycle, caller, local,
     clock
<1>3. /\ \A q \in Callers \ {f} : conn'[q] = conn[q]
      /\ \/ conn'[f] = conn[f]
         \/ conn[f] = "none" /\ pc[f] = "idle" /\ conn'[f] = "connect"
  <2>1. CASE TimerFires(i)
    <3>1. timer[i] = "armed"
      BY <2>1 DEF TimerFires, Fire
    <3>2. conn[f] = "none" /\ pc[f] = "idle"
      BY <3>1 DEF DialInv, DialOK, PlaceOK
    <3>3. QED
      BY <1>1, <2>1, <3>2 DEF TimerFires, Notify, ConnOK
  <2>2. CASE RenewalClears(i) \/ Passes(i)
    BY <2>2 DEF RenewalClears, Passes, renewal
  <2>3. QED
    BY <2>1, <2>2
<1> HIDE DEF f
<1>4. Nested'
  <2>1. CASE conn'[f] = conn[f]
    <3>1. \A g \in Goroutines, d \in Depths : conn'[<<g, d>>] = conn[<<g, d>>]
      BY <1>3, <2>1, FrameParts
    <3>2. QED
      BY <1>2, <3>1 DEF NestInv, Nested, Runs, Announces
  <2>2. CASE pc[f] = "idle"
    <3>1. ~Announces(f) /\ Inner(f) # f
      BY <1>1, <2>2, FrameParts DEF Announces, Inner
    <3>2. QED
      BY <1>1, <1>2, <1>3, <3>1, NestStep DEF NestInv
  <2>3. QED
    BY <1>3, <2>1, <2>2
<1>5. WellPlaced'
  <2>1. ASSUME NEW q \in Callers
        PROVE  (PlaceOK(q)' \/ (q[2] = 1 /\ conn'[q] = "none")) /\ DirectOK(q)'
    BY <1>2, <1>3, <2>1, OthersPlaced DEF NestInv
  <2>2. QED
    BY <2>1 DEF WellPlaced
<1>6. AllPaid'
  <2>1. \A q \in Callers : Paid(q)' => Paid(q)
    BY <1>2, <1>3 DEF Paid
  <2>2. issued \in Nat /\ Renews' = Renews
    BY <1>2 DEF TimedInv, Renews, AutoAuthenticate, HasAuthURL, HasTokenRequest
  <2>3. QED
    BY <1>1, <1>2, <2>1, <2>2, PaidStep DEF NestInv
<1>7. QED
  BY <1>4, <1>5, <1>6 DEF NestInv

LEMMA NestAlways == RenewalSpec => []NestInv
<1>1. RenewalInit => NestInv
  <2> SUFFICES ASSUME RenewalInit PROVE NestInv
    OBVIOUS
  <2>1. \A f \in Callers : conn[f] = "none" /\ (f[2] # 1 => pc[f] = "idle")
    BY RenewalAssumption DEF RenewalInit, Init
  <2>2. Nested
    BY <2>1, FrameParts DEF Nested, Runs
  <2>3. WellPlaced
    BY <2>1 DEF WellPlaced, PlaceOK, DirectOK
  <2>4. AllPaid
    <3>1. \A g \in Goroutines : Payments(g) = {}
      BY <2>1, FrameParts DEF Payments, Paid
    <3>2. issued = 0
      BY DEF RenewalInit, Init
    <3>3. QED
      BY <3>1, <3>2, FS_EmptySet DEF AllPaid
  <2>5. QED
    BY <2>2, <2>3, <2>4 DEF NestInv
<1>2. RenewalInv /\ NestInv /\ [RenewalNext]_renewalVars => NestInv'
  <2> SUFFICES ASSUME RenewalInv, NestInv, [RenewalNext]_renewalVars PROVE NestInv'
    OBVIOUS
  <2>1. TimedInv /\ FreshInv /\ DialInv /\ ResetInv /\ ConnOK
    BY DEF RenewalInv, DialInv, RenewalTypeOK, ConnOK
  <2>2. ASSUME NEW f \in Callers, Frame(f) PROVE NestInv'
    BY <2>1, <2>2, NestManagerStep, NestConnectStep DEF Frame
  <2>3. ASSUME NEW u \in Users, UserCalls(u) \/ UserConnects(u) PROVE NestInv'
    BY <2>1, <2>3, Frames, NestConnectStep
  <2>4. ASSUME NEW i \in Tokens, TimerFires(i) \/ RenewalClears(i) \/ Passes(i) PROVE NestInv'
    BY <2>1, <2>4, NestTimerStep
  <2>5. CASE UNCHANGED renewalVars
    BY <2>5 DEF renewalVars, renewal, vars, manager, lifecycle, caller, local, clock, NestInv,
       Nested, Runs, Announces, WellPlaced, PlaceOK, DirectOK, HasTokenRequest, AllPaid, Renews,
       AutoAuthenticate, HasAuthURL, Payments, Paid
  <2>6. CASE ConnResets \/ ConnHasReset
    <3>1. UNCHANGED <<conn, opts, resetting, cancelled, caller, issued>>
      BY <2>6 DEF ConnResets, ConnHasReset, vars, lifecycle, clock
    <3>2. QED
      BY <3>1 DEF caller, local, NestInv, Nested, Runs, Announces, WellPlaced, PlaceOK,
         DirectOK, HasTokenRequest, AllPaid, Renews, AutoAuthenticate, HasAuthURL, Payments,
         Paid
  <2>7. QED
    BY <2>2, <2>3, <2>4, <2>5, <2>6 DEF RenewalNext
<1>3. QED
  BY <1>1, <1>2, RenewalInvariant, PTL DEF RenewalSpec

(* Calls do not nest without end: but for the innermost, each Connect on a   *)
(* goroutine has cost a token, as long as Connect authenticates.             *)
THEOREM NestingCostsTokens == RenewalSpec => []NestingIsPaid
<1>1. NestInv /\ TimedInv => NestingIsPaid
  <2> SUFFICES ASSUME NestInv, TimedInv, Renews, NEW g \in Goroutines
               PROVE  Depth(g) <= 1 + issued
    BY DEF NestingIsPaid
  <2> DEFINE D == {d \in Depths : conn[<<g, d>>] # "none"}
  <2>1. /\ IsFiniteSet(Payments(g)) /\ Cardinality(Payments(g)) \in Nat
        /\ Cardinality(Payments(g)) <= issued
    <3>1. IsFiniteSet(Depths)
      BY RenewalAssumption, FS_Interval DEF Depths
    <3>2. IsFiniteSet(Payments(g))
      BY <3>1, FS_Subset DEF Payments
    <3>3. QED
      BY <3>2, FS_CardinalityType DEF NestInv, AllPaid
  <2>2. ASSUME NEW d \in D, NEW e \in D, d < e PROVE d \in Payments(g)
    <3>1. <<g, d>> \in Callers /\ Announces(<<g, d>>) /\ conn[<<g, d>>] # "none"
      BY <2>2, FrameParts DEF NestInv, Nested, Runs
    <3>2. PlaceOK(<<g, d>>)
      BY <3>1 DEF NestInv, WellPlaced
    <3>3. Paid(<<g, d>>)
      BY <3>1, <3>2 DEF PlaceOK, Announces, Paid, AuthLabels, URLLabels
    <3>4. QED
      BY <3>3 DEF Payments
  <2>3. \E x \in Depths : D \subseteq Payments(g) \cup {x}
    <3>1. CASE D \subseteq Payments(g)
      BY <3>1, RenewalAssumption DEF Depths
    <3>2. CASE ~(D \subseteq Payments(g))
      <4>1. PICK x \in D : x \notin Payments(g)
        BY <3>2
      <4>2. ASSUME NEW y \in D, y # x, y \notin Payments(g) PROVE FALSE
        <5>1. y < x \/ x < y
          BY <4>2 DEF Depths
        <5>2. QED
          BY <2>2, <4>1, <4>2, <5>1
      <4>3. QED
        BY <4>1, <4>2
    <3>3. QED
      BY <3>1, <3>2
  <2>4. PICK x \in Depths : D \subseteq Payments(g) \cup {x}
    BY <2>3
  <2>5. /\ IsFiniteSet(Payments(g) \cup {x})
        /\ \/ Cardinality(Payments(g) \cup {x}) = Cardinality(Payments(g))
           \/ Cardinality(Payments(g) \cup {x}) = Cardinality(Payments(g)) + 1
    BY <2>1, FS_AddElement, Zenon
  <2>6. Cardinality(D) <= Cardinality(Payments(g) \cup {x}) /\ Cardinality(D) \in Nat
    BY <2>4, <2>5, FS_Subset, FS_CardinalityType
  <2>7. issued \in Nat
    BY DEF TimedInv
  <2>8. Cardinality(D) <= 1 + issued
    BY <2>1, <2>5, <2>6, <2>7
  <2>9. QED
    BY <2>8 DEF Depth
<1>2. QED
  BY <1>1, NestAlways, RenewalInvariant, PTL DEF RenewalInv

-----------------------------------------------------------------------------
(* Merging options *)

LEMMA MergeType ==
    ASSUME NEW o \in Option, NEW p \in Option PROVE MergeOption(o, p) \in Option
BY OptionsAssumption DEF MergeOption, Option, FieldValues

LEMMA DefaultType == DefaultOption \in Option
BY OptionsAssumption DEF DefaultOption, Option, FieldValues

(* Two calls of Set do what one call with the merge of their options does.   *)
THEOREM MergeIsAssociative ==
    ASSUME NEW a \in Option, NEW b \in Option, NEW c \in Option
    PROVE  MergeOption(MergeOption(a, b), c) = MergeOption(a, MergeOption(b, c))
BY DEF MergeOption, Option, FieldValues

-----------------------------------------------------------------------------
(* The options and the requests                                              *)

OptsOK == opts \in Option

LEMMA OptsStep == ASSUME OptsOK, [RestNext]_restVars PROVE OptsOK'
<1>1. CASE UNCHANGED opts
  BY <1>1 DEF OptsOK
<1>2. ASSUME NEW p \in Partials, Set(p) PROVE OptsOK'
  BY <1>2, MergeType, RestAssumption DEF Set, ChangeOptions, OptsOK
<1>3. ASSUME NEW t \in Callers, ResetOptions(t) PROVE OptsOK'
  BY <1>3, DefaultType DEF ResetOptions, ChangeOptions, OptsOK
<1>4. ASSUME NEW t \in Callers, RestCall(t) \/ Request(t) \/ ResetStarts(t) \/ RequestStep(t)
      PROVE  UNCHANGED opts
  BY <1>4 DEF RestCall, Call, Request, ResetStarts, RequestStep, NoHeaders, Headers, Answered,
     Invoke, vars, lifecycle
<1>5. ASSUME NEW t \in Callers, CallerStep(t) PROVE UNCHANGED opts
  BY <1>5 DEF CallerStep, lifecycle, Authenticate, Other, AuthStart, Attempt, PostAnswers,
     PostGivesRequest, PostFails, RequestAnswers, RequestFails, Issue, SetToken, StopTimer,
     Arm, ClearTooLate, GetToken, CheckToken, Clear, Reset, CancelContext, NewContext,
     ResetClears, ClearBy
<1>6. ASSUME NEW i \in Tokens, TimeStep(i) \/ TimerStep(i) PROVE UNCHANGED opts
  BY <1>6 DEF TimeStep, TimerStep, lifecycle, Age, Timer, Fire, TimerClears
<1>7. CASE UNCHANGED restVars
  BY <1>1, <1>7 DEF restVars, vars, lifecycle
<1>8. QED
  BY <1>1, <1>2, <1>3, <1>4, <1>5, <1>6, <1>7 DEF RestNext, RestStep

-----------------------------------------------------------------------------
(* The manager under requests and changes of the options *)

(* Every step is a step of the manager, the beginning of a call, a change of *)
(* the options to others, or none of the manager's business.                 *)
LEMMA RestStepKinds ==
    ASSUME OptsOK, [RestNext]_restVars
    PROVE  \/ \E t \in Callers : Authenticate(t) \/ Other(t)
           \/ \E i \in Tokens : Age(i) \/ Timer(i)
           \/ /\ \E t \in Callers, o \in Ops \cup {"getToken", "reset"} : Invoke(t, o)
              /\ calls' = calls + 1
           \/ \E o \in Option : ChangeOptions(o)
           \/ UNCHANGED vars
<1>1. ASSUME NEW p \in Partials, Set(p) PROVE \E o \in Option : ChangeOptions(o)
  BY <1>1, MergeType, RestAssumption DEF Set, OptsOK
<1>2. ASSUME NEW t \in Callers, ResetOptions(t) PROVE \E o \in Option : ChangeOptions(o)
  BY <1>2, DefaultType DEF ResetOptions
<1>3. ASSUME NEW t \in Callers, RestCall(t) \/ Request(t) \/ ResetStarts(t)
      PROVE  \E o \in Ops \cup {"getToken", "reset"} : Invoke(t, o) /\ calls' = calls + 1
  BY <1>3 DEF RestCall, Call, Request, ResetStarts
<1>4. ASSUME NEW t \in Callers, NoHeaders(t) \/ Headers(t) \/ Answered(t)
      PROVE  UNCHANGED vars
  BY <1>4 DEF NoHeaders, Headers, Answered
<1>5. QED
  BY <1>1, <1>2, <1>3, <1>4 DEF RestNext, RestStep, RequestStep, CallerStep, TimeStep, TimerStep,
     restVars

LEMMA RestManagerStep ==
    ASSUME OptsOK, TypeOK, TimedInv, [RestNext]_restVars PROVE TypeOK' /\ TimedInv'
<1>1. CASE \/ \E t \in Callers : Authenticate(t) \/ Other(t)
           \/ \E i \in Tokens : Age(i) \/ Timer(i)
  BY <1>1, ManagerStep, ManagerTypes
<1>2. ASSUME NEW t \in Callers, NEW o \in Ops \cup {"getToken", "reset"}, Invoke(t, o),
             calls' = calls + 1
      PROVE  TypeOK' /\ TimedInv'
  <2>1. o \in Labels \ {"setToken", "stopTimer", "arm", "tooLate"}
    BY AuthAssumption DEF Labels
  <2>2. calls' \in Nat
    BY <1>2 DEF TypeOK, ClockOK
  <2>3. QED
    BY <1>2, <2>1, <2>2, InvokeStep, InvokeTypes
<1>3. ASSUME NEW o \in Option, ChangeOptions(o) PROVE TypeOK' /\ TimedInv'
  <2>1. UNCHANGED <<manager, resetting, ctx, cancelled, caller, clock, calls>> /\ opts' = o
    BY <1>3 DEF ChangeOptions
  <2>2. TypeOK'
    BY <2>1 DEF TypeOK, ManagerOK, LifecycleOK, CallersOK, ClockOK, manager, caller, local,
       clock
  <2>3. QED
    BY <2>1, <2>2, IdleStep DEF clock
<1>4. CASE UNCHANGED vars
  <2>1. TypeOK'
    BY <1>4 DEF TypeOK, ManagerOK, LifecycleOK, CallersOK, ClockOK, vars, manager, lifecycle,
       caller, local, clock
  <2>2. QED
    BY <1>4, <2>1, IdleStep DEF vars, clock
<1>5. QED
  BY <1>1, <1>2, <1>3, <1>4, RestStepKinds

-----------------------------------------------------------------------------
(* What was held before a Reset is not held after it                         *)

(* A token that is held, was held when a Reset that runs began, or has been  *)
(* forgotten: it has been set, and no setToken is about to set it.           *)
HasBeenHeld(i) ==
    i = currentToken \/ i \in forgotten \/ \E t \in Callers : req[t] = "reset" /\ before[t] = i
ResetLabels == {"reset", "cancel", "newContext", "resetClear", "idle"}
HeldInv ==
    /\ forgotten \subseteq Tokens
    /\ \A t \in Callers : req[t] = "reset" => pc[t] \in ResetLabels
    /\ \A i \in Tokens : HasBeenHeld(i) =>
            i <= issued /\ \A t \in Callers : pc[t] = "setToken" => tok[t] # i
    /\ \A t \in Callers :
            req[t] = "reset" /\ pc[t] = "idle" /\ before[t] # 0 => currentToken # before[t]
    /\ ResetForgets

(* A step that sets no token and issues none, nor ends a Reset in the        *)
(* manager without clearing what is held.                                    *)
LEMMA HeldQuiet ==
    ASSUME HeldInv, UNCHANGED <<issued, rest>>, currentToken' \in {currentToken, 0},
           \A t \in Callers : pc'[t] = "setToken" => pc[t] = "setToken" /\ tok'[t] = tok[t],
           \A t \in Callers : req[t] = "reset" =>
                /\ pc'[t] \in ResetLabels
                /\ pc'[t] = "idle" => pc[t] = "idle" \/ currentToken' = 0
    PROVE  HeldInv'
<1> USE DEF rest, resets
<1>1. \A i \in Tokens : HasBeenHeld(i)' => HasBeenHeld(i)
  BY DEF HasBeenHeld, Tokens
<1>2. ResetForgets'
  BY DEF HeldInv, ResetForgets, Tokens
<1>3. QED
  BY <1>1, <1>2 DEF HeldInv

LEMMA HeldManagerStep ==
    ASSUME TimedInv, FreshInv, HeldInv, UNCHANGED rest,
           \/ \E t \in Callers : Authenticate(t) \/ Other(t)
           \/ \E i \in Tokens : Age(i) \/ Timer(i)
    PROVE  HeldInv'
<1> USE DEF Goto, Move
<1>1. ASSUME NEW t \in Callers, PostAnswers(t) \/ RequestAnswers(t) PROVE HeldInv'
  <2>1. /\ pc[t] \in {"post", "requestToken"} /\ pc' = [pc EXCEPT ![t] = "setToken"]
        /\ issued' = issued + 1 /\ issued \in Nat
        /\ tok' = [tok EXCEPT ![t] = issued + 1] /\ UNCHANGED currentToken
    BY <1>1, AuthAssumption DEF PostAnswers, RequestAnswers, Issue, manager, TimedInv
  <2>2. \A i \in Tokens : HasBeenHeld(i)' => HasBeenHeld(i) /\ i # issued + 1
    BY <2>1 DEF HasBeenHeld, HeldInv, rest, resets, Tokens
  <2>3. req[t] # "reset"
    BY <2>1 DEF HeldInv, ResetLabels
  <2>4. \A u \in Callers : pc'[u] = "setToken" /\ u # t => pc[u] = "setToken" /\ tok'[u] = tok[u]
    BY <2>1 DEF TimedInv
  <2>5. tok'[t] = issued + 1
    BY <2>1 DEF TimedInv
  <2>6. \A i \in Tokens : HasBeenHeld(i)' =>
            i <= issued' /\ \A u \in Callers : pc'[u] = "setToken" => tok'[u] # i
    BY <2>1, <2>2, <2>4, <2>5 DEF HeldInv, Tokens
  <2>7. ResetForgets'
    BY <2>1 DEF HeldInv, ResetForgets, rest, resets
  <2>8. QED
    BY <2>1, <2>3, <2>6, <2>7 DEF HeldInv, rest, resets, TimedInv
<1>2. ASSUME NEW t \in Callers, SetToken(t) PROVE HeldInv'
  <2>1. /\ pc[t] = "setToken" /\ pc' = [pc EXCEPT ![t] = "stopTimer"]
        /\ currentToken' = tok[t] /\ tok[t] \in Tokens /\ UNCHANGED <<issued, tok>>
        /\ tok[t] <= issued
    BY <1>2 DEF SetToken, TimedInv, FreshInv, Setters, local, clock
  <2>2. ~HasBeenHeld(tok[t])
    BY <2>1 DEF HeldInv
  <2>3. \A u \in Callers : pc'[u] = "setToken" => pc[u] = "setToken" /\ tok[u] # tok[t]
    BY <2>1 DEF FreshInv, Setters, TimedInv
  <2>4. \A i \in Tokens : HasBeenHeld(i)' => HasBeenHeld(i) \/ i = tok[t]
    BY <2>1 DEF HasBeenHeld, rest, resets
  <2>5. req[t] # "reset"
    BY <2>1 DEF HeldInv, ResetLabels
  <2>6. ResetForgets'
    BY <2>1, <2>2 DEF ResetForgets, HasBeenHeld, rest, resets
  <2>7. \A u \in Callers : req[u] = "reset" => before[u] # tok[t]
    BY <2>2 DEF HasBeenHeld
  <2>8. QED
    BY <2>1, <2>3, <2>4, <2>5, <2>6, <2>7 DEF HeldInv, rest, resets, TimedInv
<1>3. ASSUME NEW t \in Callers,
             \/ AuthStart(t) \/ Attempt(t) \/ PostGivesRequest(t) \/ PostFails(t)
             \/ RequestFails(t) \/ StopTimer(t) \/ Arm(t) \/ ClearTooLate(t)
             \/ GetToken(t) \/ CheckToken(t) \/ Clear(t) \/ Reset(t) \/ CancelContext(t)
             \/ NewContext(t) \/ ResetClears(t)
      PROVE  HeldInv'
  <2> USE DEF AuthStart, Attempt, PostGivesRequest, PostFails, Again, Forget, RequestFails,
          StopTimer, Arm, ClearTooLate, ClearBy, ClearToken, GetToken, CheckToken, Clear, Reset,
          CancelContext, NewContext, ResetClears
  <2>1. UNCHANGED issued /\ currentToken' \in {currentToken, 0}
    BY <1>3 DEF clock, manager
  <2>2. \A u \in Callers \ {t} : pc'[u] = pc[u] /\ tok'[u] = tok[u]
    BY <1>3 DEF local, TimedInv
  <2>3. pc'[t] # "setToken"
    BY <1>3 DEF TimedInv
  <2>4. pc[t] \in ResetLabels =>
            pc'[t] \in ResetLabels /\ (pc'[t] = "idle" => currentToken' = 0)
    BY <1>3 DEF ResetLabels, TimedInv
  <2>5. QED
    BY <2>1, <2>2, <2>3, <2>4, HeldQuiet DEF HeldInv
<1>4. ASSUME NEW i \in Tokens, Age(i) \/ Timer(i) PROVE HeldInv'
  <2>1. UNCHANGED <<issued, pc, tok>> /\ currentToken' \in {currentToken, 0}
    BY <1>4 DEF Age, Timer, Fire, TimerClears, manager, caller, local, clock
  <2>2. QED
    BY <2>1, HeldQuiet DEF HeldInv
<1>5. QED
  BY <1>1, <1>2, <1>3, <1>4 DEF Authenticate, Other

(* The beginning of a call, a request, and a change of the options.          *)
LEMMA HeldRestStep ==
    ASSUME TimedInv, RestTypeOK, HeldInv, NEW t \in Callers,
           \/ RestCall(t) \/ Request(t) \/ ResetStarts(t) \/ RequestStep(t) \/ ResetOptions(t)
    PROVE  HeldInv'
<1> USE AuthAssumption DEF RestTypeOK, Requesting
<1>1. /\ UNCHANGED <<currentToken, issued, tok>>
      /\ \A u \in Callers \ {t} : pc'[u] = pc[u] /\ req'[u] = req[u]
      /\ \A u \in Callers : pc'[u] = "setToken" => pc[u] = "setToken"
  BY DEF RestCall, Call, Request, ResetStarts, RequestStep, NoHeaders, Headers, Answered,
     ResetOptions, ChangeOptions, Invoke, Move, Goto, vars, manager, caller, local, clock, rest,
     TimedInv
<1>2. CASE RestCall(t) \/ Request(t) \/ RequestStep(t)
  <2>1. req[t] # "reset" /\ req'[t] # "reset" /\ UNCHANGED <<before, forgotten>>
    BY <1>2 DEF RestCall, Request, RequestStep, NoHeaders, Headers, Answered, rest, resets
  <2>2. \A i \in Tokens : HasBeenHeld(i)' => HasBeenHeld(i)
    BY <1>1, <2>1 DEF HasBeenHeld
  <2>3. QED
    BY <1>1, <2>1, <2>2 DEF HeldInv, ResetForgets
<1>3. CASE ResetStarts(t)
  <2>1. /\ pc'[t] = "reset" /\ UNCHANGED forgotten
        /\ before'[t] = currentToken /\ \A u \in Callers \ {t} : before'[u] = before[u]
    BY <1>3 DEF ResetStarts, Invoke, Move, Goto, TimedInv
  <2>2. \A i \in Tokens : HasBeenHeld(i)' => HasBeenHeld(i)
    BY <1>1, <2>1 DEF HasBeenHeld
  <2>3. QED
    BY <1>1, <2>1, <2>2 DEF HeldInv, ResetForgets, ResetLabels
<1>4. CASE ResetOptions(t)
  <2>1. /\ req[t] = "reset" /\ req'[t] = "none" /\ pc[t] = "idle" /\ UNCHANGED before
        /\ forgotten' = forgotten \cup ({before[t]} \ {0})
        /\ before[t] \in MaybeToken
    BY <1>4 DEF ResetOptions
  <2>2. \A i \in Tokens : HasBeenHeld(i)' => HasBeenHeld(i)
    BY <1>1, <2>1 DEF HasBeenHeld
  <2>3. ResetForgets' /\ forgotten' \subseteq Tokens
    BY <1>1, <2>1 DEF HeldInv, ResetForgets, MaybeToken
  <2>4. QED
    BY <1>1, <2>1, <2>2, <2>3 DEF HeldInv
<1>5. QED
  BY <1>2, <1>3, <1>4

LEMMA RequestTypes ==
    ASSUME OptsOK, RestTypeOK, TimedInv, [RestNext]_restVars
    PROVE  /\ req' \in [Callers -> {"none", "token", "sent", "reset"}]
           /\ key' \in [Callers -> Values \cup {Zero}]
           /\ before' \in [Callers -> MaybeToken] /\ forgotten' \subseteq Tokens
           /\ sets' \in Nat
<1> USE DEF RestTypeOK, MaybeToken
<1>1. opts.field["APIKey"] \in Values \cup {Zero}
  BY AuthAssumption DEF OptsOK, Option, FieldValues
<1>2. ASSUME NEW t \in Callers, Request(t) \/ ResetStarts(t) \/ RestStep(t)
      PROVE  /\ req' \in [Callers -> {"none", "token", "sent", "reset"}]
             /\ key' \in [Callers -> Values \cup {Zero}]
             /\ before' \in [Callers -> MaybeToken] /\ forgotten' \subseteq Tokens
             /\ sets' \in Nat
  BY <1>1, <1>2 DEF Request, ResetStarts, RestStep, RequestStep, NoHeaders, Headers, Answered,
     ResetOptions, Requesting, TimedInv, resets
<1>3. CASE UNCHANGED rest /\ sets' \in {sets, sets + 1}
  BY <1>3 DEF rest, resets
<1>4. QED
  BY <1>2, <1>3 DEF RestNext, RestCall, CallerStep, Set, TimeStep, TimerStep, restVars

RestInv == OptsOK /\ TimedInv /\ RestTypeOK /\ FreshInv /\ HeldInv

LEMMA RestFreshStep ==
    ASSUME RestInv, [RestNext]_restVars PROVE FreshInv' /\ HeldInv'
<1> USE DEF RestInv
<1>1. CASE /\ UNCHANGED rest
           /\ \/ \E t \in Callers : Authenticate(t) \/ Other(t)
              \/ \E i \in Tokens : Age(i) \/ Timer(i)
  BY <1>1, FreshStep, HeldManagerStep
<1>2. ASSUME NEW t \in Callers,
             \/ RestCall(t) \/ Request(t) \/ ResetStarts(t) \/ RequestStep(t)
             \/ ResetOptions(t)
      PROVE  FreshInv' /\ HeldInv'
  <2>1. /\ UNCHANGED <<issued, timer, tok>>
        /\ \A u \in Callers \ {t} : pc'[u] = pc[u]
        /\ pc'[t] \in Setters => pc[t] \in Setters
    BY <1>2, AuthAssumption DEF RestCall, Call, Request, ResetStarts, RequestStep, NoHeaders,
       Headers, Answered, ResetOptions, ChangeOptions, Invoke, Move, Goto, vars, manager,
       caller, local, clock, TimedInv, Setters
  <2>2. QED
    BY <1>2, <2>1, FreshQuiet, HeldRestStep
<1>3. CASE UNCHANGED <<manager, caller, clock, rest>>
  <2>1. FreshInv'
    BY <1>3 DEF FreshInv, manager, caller, local, clock
  <2>2. HeldInv'
    BY <1>3, HeldQuiet DEF HeldInv, manager, caller, local, clock
  <2>3. QED
    BY <2>1, <2>2
<1>4. QED
  BY <1>1, <1>2, <1>3 DEF RestNext, RestStep, CallerStep, TimeStep, TimerStep, Set, ChangeOptions,
     restVars, vars

LEMMA RestInvariant == RestSpec => []RestInv
<1>1. RestInit => RestInv
  <2> SUFFICES ASSUME RestInit PROVE RestInv
    OBVIOUS
  <2>1. OptsOK /\ TimedInv /\ TypeOK
    BY TimedInit, InitTypes, AuthAssumption DEF RestInit, Init, OptsOK
  <2>2. RestTypeOK
    BY <2>1 DEF RestInit, RestTypeOK, MaybeToken
  <2>3. \A t \in Callers : pc[t] \in {"idle", "requestToken"} /\ req[t] = "none"
    BY DEF RestInit, Init
  <2>4. FreshInv
    BY <2>3 DEF RestInit, Init, FreshInv, Setters
  <2>5. HeldInv
    BY <2>3 DEF RestInit, Init, HeldInv, HasBeenHeld, ResetForgets, Tokens
  <2>6. QED
    BY <2>1, <2>2, <2>4, <2>5 DEF RestInv
<1>2. RestInv /\ [RestNext]_restVars => RestInv'
  BY OptsStep, RestManagerStep, RequestTypes, RestFreshStep DEF RestInv, RestTypeOK
<1>3. QED
  BY <1>1, <1>2, PTL DEF RestSpec

(* The types of the client's state are kept.                                 *)
THEOREM RestTypes == RestSpec => []RestTypeOK
BY RestInvariant, PTL DEF RestInv

(* A token that is held has something that will drop it, however requests,   *)
(* Set and Reset interleave with what sets and clears it.                    *)
THEOREM RestTokenTimed == RestSpec => []TokenIsTimed
BY RestInvariant, PTL DEF RestInv, TimedInv

(* A token that was held when a Reset was called is never held again once it *)
(* has returned, whatever overlaps it.                                       *)
THEOREM ResetDropsToken == RestSpec => []ResetForgets
BY RestInvariant, PTL DEF RestInv, HeldInv
=============================================================================
