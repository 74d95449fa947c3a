-------------------------- MODULE AuthManagerProofs --------------------------
(***************************************************************************)
(* Proofs about AuthManager, for any number of goroutines, tokens, calls   *)
(* and retries.                                                            *)
(***************************************************************************)
EXTENDS AuthManager, TLAPS

(* TokenIsTimed, with the types it needs: a setToken is about a real token.  *)
TimedInv ==
    /\ currentToken \in MaybeToken /\ issued \in 0 .. MaxTokens
    /\ timer \in [Tokens -> {"none", "armed", "stopped", "fired", "done"}]
    /\ pc \in [Callers -> Labels]
    /\ tok \in [Callers -> MaybeToken]
    /\ \A t \in Callers : pc[t] \in {"setToken", "stopTimer", "arm", "tooLate"} => tok[t] \in Tokens
    /\ TokenIsTimed

(* A step of a goroutine outside setToken: it clears the token, or touches   *)
(* neither the token nor the timers and leaves every setToken where it is.   *)
LEMMA QuietStep ==
    ASSUME TimedInv, NEW t \in Callers, ~Setting(t),
           NEW l \in Labels, pc' = [pc EXCEPT ![t] = l],
           NEW k \in MaybeToken, tok' = [tok EXCEPT ![t] = k],
           l = "setToken" => k \in Tokens,
           l \notin {"stopTimer", "arm", "tooLate"},
           issued' \in 0 .. MaxTokens,
           UNCHANGED <<currentToken, timer>> \/ ClearToken
    PROVE  TimedInv'
<1> USE DEF TimedInv, Setting, Labels
<1>1. /\ timer' \in [Tokens -> {"none", "armed", "stopped", "fired", "done"}]
      /\ currentToken' \in MaybeToken
  BY DEF ClearToken, StopRefreshTimer, MaybeToken
<1>2. TokenIsTimed'
  BY DEF TokenIsTimed, ClearToken
<1>3. pc' \in [Callers -> Labels] /\ tok' \in [Callers -> MaybeToken]
  OBVIOUS
<1>4. \A u \in Callers : pc'[u] \in {"setToken", "stopTimer", "arm", "tooLate"} => tok'[u] \in Tokens
  OBVIOUS
<1>5. QED
  BY <1>1, <1>2, <1>3, <1>4

(* A held token keeps something that will drop it, whatever step is taken.   *)
LEMMA ManagerStep ==
    ASSUME TimedInv,
           \/ \E t \in Callers : Authenticate(t) \/ Other(t)
           \/ \E i \in Tokens : Age(i) \/ Timer(i)
    PROVE  TimedInv'
<1> USE AuthAssumption DEF Goto, Move
<1>2. ASSUME NEW t \in Callers, SetToken(t) PROVE TimedInv'
  BY <1>2 DEF SetToken, TimedInv, TokenIsTimed, Setting, Labels, MaybeToken, local, clock
<1>3. ASSUME NEW t \in Callers, StopTimer(t) PROVE TimedInv'
  <2>1. timer' \in [Tokens -> {"none", "armed", "stopped", "fired", "done"}]
    BY <1>3 DEF StopTimer, StopRefreshTimer, TimedInv
  <2>2. PICK l \in {"arm", "tooLate"} : pc[t] = "stopTimer" /\ pc' = [pc EXCEPT ![t] = l]
    BY <1>3 DEF StopTimer
  <2>3. QED
    BY <1>3, <2>1, <2>2 DEF StopTimer, TimedInv, TokenIsTimed, Setting, Labels, local, clock
<1>4. ASSUME NEW t \in Callers, Arm(t) PROVE TimedInv'
  <2>1. tok[t] \in Tokens /\ timer' = [timer EXCEPT ![tok[t]] = "armed"]
    BY <1>4 DEF Arm, TimedInv
  <2>2. timer' \in [Tokens -> {"none", "armed", "stopped", "fired", "done"}]
        /\ timer'[tok[t]] = "armed"
    BY <2>1 DEF TimedInv
  <2>3. TokenIsTimed'
    BY <2>1, <2>2 DEF TokenIsTimed
  <2>4. QED
    BY <1>4, <2>2, <2>3 DEF Arm, TimedInv, Labels, local, clock
<1>5. ASSUME NEW t \in Callers, ClearTooLate(t) \/ Clear(t) \/ ResetClears(t) PROVE TimedInv'
  BY <1>5 DEF ClearTooLate, Clear, ResetClears, ClearBy, ClearToken, StopRefreshTimer, TimedInv,
     TokenIsTimed, Labels, MaybeToken, local, clock
<1>6. ASSUME NEW t \in Callers, PostAnswers(t) \/ RequestAnswers(t) PROVE TimedInv'
  <2>1. /\ pc[t] \in {"post", "requestToken"} /\ pc' = [pc EXCEPT ![t] = "setToken"]
        /\ issued < MaxTokens /\ issued' = issued + 1
        /\ tok' = [tok EXCEPT ![t] = issued + 1]
        /\ UNCHANGED <<currentToken, timer>>
    BY <1>6 DEF PostAnswers, RequestAnswers, Issue, manager
  <2>2. issued + 1 \in Tokens /\ issued' \in 0 .. MaxTokens
    BY <2>1 DEF TimedInv, Tokens
  <2>3. QED
    BY <2>1, <2>2, QuietStep DEF Setting, Labels, MaybeToken
<1>7. ASSUME NEW t \in Callers, AuthStart(t) \/ Attempt(t) \/ PostGivesRequest(t)
               \/ PostFails(t) \/ RequestFails(t) \/ GetToken(t) \/ CheckToken(t) \/ Reset(t)
               \/ CancelContext(t) \/ NewContext(t)
      PROVE  TimedInv'
  <2>1. /\ ~Setting(t)
        /\ \E l \in Labels \ {"setToken", "stopTimer", "arm", "tooLate"} :
              pc' = [pc EXCEPT ![t] = l]
    BY <1>7 DEF AuthStart, Attempt, PostGivesRequest, PostFails, Again, RequestFails, GetToken,
       CheckToken, Reset, CancelContext, NewContext, Setting, Labels
  <2>2. \E k \in {tok[t], currentToken, 0} : tok' = [tok EXCEPT ![t] = k]
    BY <1>7 DEF AuthStart, Attempt, PostGivesRequest, PostFails, Again, RequestFails, GetToken,
       CheckToken, Reset, CancelContext, NewContext, local, TimedInv
  <2>3. UNCHANGED <<currentToken, timer, issued>>
    BY <1>7 DEF AuthStart, Attempt, PostGivesRequest, PostFails, Again, RequestFails, GetToken,
       CheckToken, Reset, CancelContext, NewContext, manager, clock
  <2>4. \E k \in MaybeToken : tok' = [tok EXCEPT ![t] = k]
    BY <2>2 DEF TimedInv, MaybeToken
  <2>5. QED
    BY <2>1, <2>3, <2>4, QuietStep DEF TimedInv
<1>8. ASSUME NEW i \in Tokens, Age(i) PROVE TimedInv'
  BY <1>8 DEF Age, TimedInv, TokenIsTimed, Setting, manager, caller, local
<1>9. ASSUME NEW i \in Tokens, Fire(i) PROVE TimedInv'
  BY <1>9 DEF Fire, TimedInv, TokenIsTimed, Setting, caller, local, clock
<1>10. ASSUME NEW i \in Tokens, TimerClears(i) PROVE TimedInv'
  BY <1>10 DEF TimerClears, TimedInv, TokenIsTimed, MaybeToken, caller, local, clock
<1>11. QED
  BY <1>2, <1>3, <1>4, <1>5, <1>6, <1>7, <1>8, <1>9, <1>10 DEF Authenticate, Other, Timer

(* So does the beginning of a call, and a step that leaves the manager alone. *)
LEMMA InvokeStep ==
    ASSUME TimedInv, NEW t \in Callers, NEW o \in Labels, Invoke(t, o),
           o \notin {"setToken", "stopTimer", "arm", "tooLate"}
    PROVE  TimedInv'
<1>1. ~Setting(t) /\ pc' = [pc EXCEPT ![t] = o] /\ tok' = [tok EXCEPT ![t] = tok[t]]
  BY DEF Invoke, Move, Goto, Setting, TimedInv
<1>2. UNCHANGED <<currentToken, timer, issued>>
  BY DEF Invoke, manager, clock
<1>3. QED
  BY <1>1, <1>2, QuietStep DEF TimedInv

LEMMA IdleStep ==
    ASSUME TimedInv, UNCHANGED <<manager, caller, issued>> PROVE TimedInv'
BY DEF manager, caller, local, TimedInv, TokenIsTimed, Setting

LEMMA TimedInit == Init => TimedInv
BY AuthAssumption DEF Init, TimedInv, TokenIsTimed, MaybeToken, Labels

LEMMA TimedStep ==
    ASSUME TimedInv, [Next]_vars PROVE TimedInv'
<1>1. ASSUME NEW t \in Callers, Call(t) PROVE TimedInv'
  <2>1. PICK o \in Ops : Invoke(t, o)
    BY <1>1 DEF Call
  <2>2. QED
    BY <2>1, AuthAssumption, InvokeStep DEF Labels
<1>2. CASE UNCHANGED vars
  BY <1>2, IdleStep DEF vars, clock
<1>3. QED
  BY <1>1, <1>2, ManagerStep DEF Next

(* The types, one group of variables at a time.                              *)
LEMMA ManagerTypes ==
    ASSUME TypeOK, TimedInv,
           \/ \E t \in Callers : Authenticate(t) \/ Other(t)
           \/ \E i \in Tokens : Age(i) \/ Timer(i)
    PROVE  TypeOK'
<1> USE AuthAssumption
<1>1. LifecycleOK'
  <2>1. /\ UNCHANGED opts /\ resetting' \in BOOLEAN
        /\ ctx' \in {ctx, ctx + 1} /\ cancelled' \subseteq cancelled \cup {ctx}
    BY DEF TypeOK, LifecycleOK, lifecycle, Authenticate, Other, AuthStart, Attempt,
       PostAnswers, PostGivesRequest, PostFails, RequestAnswers, RequestFails, Issue,
       SetToken, StopTimer, Arm, ClearTooLate, GetToken, CheckToken, Clear, Reset,
       CancelContext, NewContext, ResetClears, ClearBy, Age, Timer, Fire, TimerClears
  <2>2. QED
    BY <2>1 DEF TypeOK, LifecycleOK
<1>2. attempt' \in [Callers -> 0 .. AuthenticateRetries] /\ direct' \subseteq Callers
      /\ failed' \subseteq Callers
  BY DEF TypeOK, CallersOK, caller, local, Authenticate, Other, AuthStart, Attempt,
     PostAnswers, PostGivesRequest, PostFails, RequestAnswers, RequestFails, Issue,
     Forget, Again, GivesUp, SetToken, StopTimer, Arm, ClearTooLate, GetToken, CheckToken,
     Clear, Reset, CancelContext, NewContext, ResetClears, ClearBy, Age, Timer, Fire,
     TimerClears
<1>3. age' \in [Tokens -> {"none", "fresh", "late", "expired"}] /\ calls' \in Nat
  BY DEF TypeOK, ClockOK, clock, Authenticate, Other, AuthStart, Attempt,
     PostAnswers, PostGivesRequest, PostFails, RequestAnswers, RequestFails, Issue,
     SetToken, StopTimer, Arm, ClearTooLate, GetToken, CheckToken, Clear, Reset,
     CancelContext, NewContext, ResetClears, ClearBy, Age, Timer, Fire, TimerClears
<1>4. refreshTimer' \in MaybeToken
  BY DEF TypeOK, ManagerOK, TimedInv, MaybeToken, manager, Authenticate, Other, AuthStart,
     Attempt, PostAnswers, PostGivesRequest, PostFails, RequestAnswers, RequestFails, Issue,
     SetToken, StopTimer, Arm, ClearTooLate, GetToken, CheckToken, Clear, Reset, ClearToken,
     CancelContext, NewContext, ResetClears, ClearBy, Age, Timer, Fire, TimerClears
<1>5. TimedInv'
  BY ManagerStep
<1>6. QED
  BY <1>1, <1>2, <1>3, <1>4, <1>5 DEF TypeOK, ManagerOK, CallersOK, ClockOK, TimedInv

LEMMA InvokeTypes ==
    ASSUME TypeOK, NEW t \in Callers, NEW o \in Labels, Invoke(t, o), calls' \in Nat
    PROVE  TypeOK'
BY DEF TypeOK, ManagerOK, LifecycleOK, CallersOK, ClockOK, Invoke, Move, Goto, manager,
   lifecycle, clock

LEMMA InitTypes == Init => TypeOK
<1> SUFFICES ASSUME Init PROVE TypeOK
  OBVIOUS
<1>1. 0 \in 0 .. AuthenticateRetries /\ 0 \in 0 .. MaxTokens /\ 0 \in Nat
  BY AuthAssumption
<1>2. ManagerOK
  BY DEF Init, ManagerOK, MaybeToken
<1>3. LifecycleOK
  BY <1>1, AuthAssumption DEF Init, LifecycleOK
<1>4. CallersOK
  BY <1>1 DEF Init, CallersOK, MaybeToken, Labels
<1>5. ClockOK
  BY <1>1 DEF Init, ClockOK
<1>6. QED
  BY <1>2, <1>3, <1>4, <1>5 DEF TypeOK

(* A token that is held always has something that will drop it.              *)
THEOREM TokenAlwaysTimed == Spec => []TokenIsTimed
<1>1. Init => TimedInv
  BY TimedInit
<1>2. TimedInv /\ [Next]_vars => TimedInv'
  BY TimedStep
<1>3. TimedInv => TokenIsTimed
  BY DEF TimedInv
<1>4. QED
  BY <1>1, <1>2, <1>3, PTL DEF Spec
=============================================================================
