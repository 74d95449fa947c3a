-------------------------- MODULE QueueWorkerProofs --------------------------
(***************************************************************************)
(* Proofs about QueueWorker, for any number of goroutines, jobs and calls. *)
(***************************************************************************)
EXTENDS QueueWorker, TLAPS

(* The types, and that a worker has a batch only while it works it off.      *)
InBatch == {"batch", "handler", "ack", "nack"}
NoStrayBatch == \A r \in Runners : pc[r] \notin InBatch => batch[r] = {}
ContextsCounted == contexts = 0 => ended = {}
TypeInv == TypeOK /\ NoStrayBatch /\ ContextsCounted

(* The steps of a worker between batches.                                    *)
LEMMA LoopTypes ==
    ASSUME TypeInv, NEW r \in Runners,
           Start(r) \/ LookForStop(r) \/ Ask(r) \/ WaitStops(r) \/ Poll(r) \/ Return(r)
    PROVE  TypeInv'
<1> USE DEF TypeInv, TypeOK, ManagerOK, WorkerOK, ClientOK, ServiceOK, CountersOK, HandsFull,
            NoStrayBatch, InBatch, ContextsCounted, Labels, States, Move
<1>1. CASE Start(r)
  BY <1>1, QueueAssumption DEF Start, client, service, mishaps
<1>2. CASE LookForStop(r) \/ Ask(r) \/ WaitStops(r) \/ Poll(r)
  <2>1. \E l \in {"top", "pull", "polling", "wait", "return"} : pc' = [pc EXCEPT ![r] = l]
    BY <1>2 DEF LookForStop, Ask, WaitStops, Poll
  <2>2. pc[r] \notin InBatch
    BY <1>2 DEF LookForStop, Ask, WaitStops, Poll
  <2>3. UNCHANGED <<manager, batch, job, ended, client, service, calls, mishaps>>
    BY <1>2 DEF LookForStop, Ask, WaitStops, Poll
  <2>4. QED
    BY <2>1, <2>2, <2>3 DEF manager, client, service, calls, mishaps
<1>3. CASE Return(r)
  BY <1>3 DEF Return, client, service, calls, mishaps
<1>4. QED
  BY <1>1, <1>2, <1>3

(* The steps of a worker that pulls a batch and works it off.                *)
LEMMA BatchTypes ==
    ASSUME TypeInv, NEW r \in Runners,
           \/ Pull(r) \/ PullFails(r) \/ BatchDone(r) \/ Handle(r)
           \/ HandlerSucceeds(r) \/ HandlerFails(r) \/ Ack(r) \/ Nack(r)
    PROVE  TypeInv'
<1> USE DEF TypeInv, TypeOK, ManagerOK, WorkerOK, ClientOK, ServiceOK, CountersOK, HandsFull,
            NoStrayBatch, InBatch, ContextsCounted, Labels, States, Move
<1>1. CASE Pull(r)
  <2>1. PICK jobs \in SUBSET Jobs : Leases(jobs) /\ batch' = [batch EXCEPT ![r] = jobs]
    BY <1>1 DEF Pull
  <2>2. QED
    BY <1>1, <2>1 DEF Pull, Leases, manager, client, calls, mishaps
<1>2. CASE PullFails(r)
  <2>1. PICK jobs \in SUBSET Jobs : Leases(jobs)
    BY <1>2 DEF PullFails
  <2>2. QED
    BY <1>2, <2>1 DEF PullFails, Leases, RequestFails, manager, client, calls
<1>3. CASE BatchDone(r)
  BY <1>3 DEF BatchDone, manager, client, service, calls, mishaps
<1>4. CASE Handle(r)
  <2>1. PICK j \in batch[r] : job' = [job EXCEPT ![r] = j]
    BY <1>4 DEF Handle
  <2>2. j \in Jobs
    BY <2>1
  <2>3. QED
    BY <1>4, <2>1, <2>2 DEF Handle, manager, client, service, calls, mishaps
<1>5. CASE HandlerSucceeds(r)
  BY <1>5 DEF HandlerSucceeds, manager, client, calls, mishaps
<1>6. CASE HandlerFails(r)
  BY <1>6 DEF HandlerFails, manager, client, service, calls
<1>7. CASE Ack(r) \/ Nack(r)
  <2>1. PICK results \in SUBSET States : Answer(r, pc[r], results) /\ pc[r] \in {"ack", "nack"}
    BY <1>7 DEF Ack, Nack, Answer
  <2>2. state' \in [Jobs -> States]
    BY <2>1 DEF Answer
  <2>3. faults' \in Nat
    BY <2>1 DEF Answer, RequestFails
  <2>4. /\ pc' = [pc EXCEPT ![r] = "batch"]
        /\ batch' = [batch EXCEPT ![r] = @ \ {job[r]}]
        /\ job' = [job EXCEPT ![r] = none]
        /\ UNCHANGED <<manager, ended, client, handled, calls, handlerErrors, expiries, contexts>>
    BY <2>1 DEF Answer
  <2>5. QED
    BY <2>1, <2>2, <2>3, <2>4 DEF manager, client, calls
<1>8. QED
  BY <1>1, <1>2, <1>3, <1>4, <1>5, <1>6, <1>7

(* close(m.stopCh), or its panic.                                            *)
LEMMA Closes ==
    ASSUME CloseStopCh
    PROVE  /\ closed' = closed \/ closed' = closed \cup {stopCh}
           /\ panicked' = panicked \/ panicked' = TRUE
<1>1. CASE running /\ stopCh # 0 /\ stopCh \in closed
  BY <1>1 DEF CloseStopCh
<1>2. CASE running /\ stopCh # 0 /\ stopCh \notin closed
  BY <1>2 DEF CloseStopCh
<1>3. CASE ~(running /\ stopCh # 0)
  BY <1>3 DEF CloseStopCh
<1>4. QED
  BY <1>1, <1>2, <1>3

(* Everybody else.                                                           *)
LEMMA OtherTypes ==
    ASSUME TypeInv,
           \/ StopWorker \/ Reset \/ ResetCredentials
           \/ \E r \in Runners : ContextDone(r)
           \/ \E j \in Jobs : Enqueue(j) \/ CancelJob(j) \/ RetryJob(j) \/ Expire(j)
    PROVE  TypeInv'
<1> USE DEF TypeInv, TypeOK, ManagerOK, WorkerOK, ClientOK, ServiceOK, CountersOK, HandsFull,
            NoStrayBatch, InBatch, ContextsCounted, Labels, States
<1>1. CASE StopWorker \/ Reset
  <2>1. UNCHANGED <<running, stopCh, worker, ended, credentials, service, runs, cancels, retries, mishaps>>
    BY <1>1 DEF StopWorker, Reset, CloseStopCh
  <2>2. stops' \in Nat /\ (resetting' = resetting \/ resetting' = TRUE)
    BY <1>1 DEF StopWorker, Reset, CloseStopCh
  <2>3. closed' \subseteq Nat
    BY <1>1, Closes DEF StopWorker, Reset
  <2>4. panicked' = panicked \/ panicked' = TRUE
    BY <1>1, Closes DEF StopWorker, Reset
  <2>5. QED
    BY <2>1, <2>2, <2>3, <2>4 DEF worker, service, mishaps
<1>2. CASE ResetCredentials
  BY <1>2 DEF ResetCredentials, manager, worker, service, calls, mishaps
<1>3. ASSUME NEW r \in Runners, ContextDone(r) PROVE TypeInv'
  BY <1>3 DEF ContextDone, manager, worker, client, service, calls
<1>4. ASSUME NEW j \in Jobs, Enqueue(j) \/ CancelJob(j) \/ RetryJob(j) \/ Expire(j) PROVE TypeInv'
  <2>1. UNCHANGED <<manager, worker, ended, client, handled, runs, stops, faults, handlerErrors, contexts>>
    BY <1>4 DEF Enqueue, CancelJob, RetryJob, Expire, calls, mishaps
  <2>2. cancels' \in Nat /\ retries' \in Nat /\ expiries' \in Nat
    BY <1>4 DEF Enqueue, CancelJob, RetryJob, Expire, calls, mishaps
  <2>3. state' \in [Jobs -> States]
    BY <1>4 DEF Enqueue, CancelJob, RetryJob, Expire
  <2>4. QED
    BY <2>1, <2>2, <2>3 DEF manager, worker, client
<1>5. QED
  BY <1>1, <1>2, <1>3, <1>4

LEMMA TypeStep ==
    ASSUME TypeInv, [Next]_vars PROVE TypeInv'
<1>1. CASE UNCHANGED vars
  BY <1>1 DEF vars, manager, worker, client, service, calls, mishaps, TypeInv, TypeOK, ManagerOK,
     WorkerOK, ClientOK, ServiceOK, CountersOK, HandsFull, NoStrayBatch,
     InBatch, ContextsCounted, Labels, States
<1>2. QED
  BY <1>1, LoopTypes, BatchTypes, OtherTypes DEF Next, Run

LEMMA TypeInit ==
    Init => TypeInv
<1> SUFFICES ASSUME Init PROVE TypeInv
  OBVIOUS
<1>1. ManagerOK /\ ClientOK
  BY DEF Init, ManagerOK, ClientOK
<1>2. WorkerOK /\ ServiceOK
  BY DEF Init, WorkerOK, ServiceOK, Labels, States
<1>3. CountersOK /\ ContextsCounted
  BY DEF Init, CountersOK, ContextsCounted
<1>4. HandsFull /\ NoStrayBatch
  BY DEF Init, HandsFull, NoStrayBatch
<1>5. QED
  BY <1>1, <1>2, <1>3, <1>4 DEF TypeInv, TypeOK

(* The variables keep their types, and a handler and its answer are about a  *)
(* job of the worker's own batch.                                            *)
THEOREM WorkerTypes == Spec => []TypeOK
<1>1. TypeInv => TypeOK
  BY DEF TypeInv
<1>2. QED
  BY <1>1, TypeInit, TypeStep, PTL DEF Spec

-----------------------------------------------------------------------------
(* No step breaks the agreement of m.running with where the goroutines are.  *)
LEMMA SingleStep ==
    ASSUME TypeInv, SingleWorker, [Next]_vars PROVE SingleWorker'
<1> USE DEF TypeInv, TypeOK, WorkerOK, SingleWorker, Labels, Move, vars, manager, worker
<1>1. CASE UNCHANGED vars
  BY <1>1
<1>2. ASSUME NEW r \in Runners, Start(r) PROVE SingleWorker'
  BY <1>2 DEF Start
<1>3. ASSUME NEW r \in Runners, Run(r) PROVE SingleWorker'
  <2>1. CASE Return(r)
    BY <2>1 DEF Return
  <2>2. CASE ~Return(r)
    <3>1. /\ pc[r] # "idle" /\ running' = running
          /\ \E l \in Labels \ {"idle"} : pc' = [pc EXCEPT ![r] = l]
      BY <1>3, <2>2 DEF Run, LookForStop, Ask, Pull, PullFails, BatchDone, Handle,
         HandlerSucceeds, HandlerFails, Ack, Nack, Answer, WaitStops, Poll
    <3>2. QED
      BY <3>1
  <2>3. QED
    BY <2>1, <2>2
<1>4. CASE \/ \E r \in Runners : ContextDone(r)
           \/ StopWorker \/ Reset \/ ResetCredentials
           \/ \E j \in Jobs : Enqueue(j) \/ CancelJob(j) \/ RetryJob(j) \/ Expire(j)
  BY <1>4 DEF ContextDone, StopWorker, Reset, CloseStopCh, ResetCredentials, Enqueue, CancelJob,
     RetryJob, Expire
<1>5. QED
  BY <1>1, <1>2, <1>3, <1>4 DEF Next

(* One goroutine is in the loop of RunWorker, and m.running says so.         *)
THEOREM OneWorker == Spec => []SingleWorker
<1>1. Init => SingleWorker
  BY DEF Init, SingleWorker
<1>2. QED
  BY <1>1, TypeInit, TypeStep, SingleStep, PTL DEF Spec

-----------------------------------------------------------------------------
(* What is counted is not forgotten, and nothing fails uncounted.            *)
LEMMA CountersGrow ==
    ASSUME TypeInv, [Next]_vars
    PROVE  /\ faults' \in {faults, faults + 1} /\ contexts' \in {contexts, contexts + 1}
           /\ expiries' \in {expiries, expiries + 1} /\ retries' \in {retries, retries + 1}
<1> USE DEF manager, worker, client, service, calls, mishaps
<1>1. CASE UNCHANGED vars
  BY <1>1 DEF vars
<1>2. ASSUME NEW r \in Runners, Start(r) \/ Run(r) \/ ContextDone(r) PROVE
        /\ faults' \in {faults, faults + 1} /\ contexts' \in {contexts, contexts + 1}
        /\ UNCHANGED <<expiries, retries>>
  BY <1>2 DEF Start, Run, LookForStop, Ask, Pull, PullFails, BatchDone, Handle, HandlerSucceeds,
     HandlerFails, Ack, Nack, Answer, RequestFails, WaitStops, Poll, Return, ContextDone
<1>3. CASE StopWorker \/ Reset \/ ResetCredentials
  BY <1>3 DEF StopWorker, Reset, CloseStopCh, ResetCredentials
<1>4. ASSUME NEW j \in Jobs, Enqueue(j) \/ CancelJob(j) \/ RetryJob(j) \/ Expire(j) PROVE
        /\ UNCHANGED <<faults, contexts>>
        /\ expiries' \in {expiries, expiries + 1} /\ retries' \in {retries, retries + 1}
  BY <1>4 DEF Enqueue, CancelJob, RetryJob, Expire
<1>5. QED
  BY <1>1, <1>2, <1>3, <1>4 DEF Next

LEMMA CredentialsGoForGood ==
    ASSUME TypeInv, [Next]_vars PROVE credentials' = credentials \/ credentials' = FALSE
BY Zenon DEF Next, vars, client, Start, Run, LookForStop, Ask, Pull, PullFails, BatchDone, Handle,
   HandlerSucceeds, HandlerFails, Ack, Nack, Answer, WaitStops, Poll, Return, ContextDone,
   StopWorker, Reset, CloseStopCh, ResetCredentials, Enqueue, CancelJob, RetryJob, Expire

LEMMA FailuresAreCounted ==
    ASSUME TypeInv, NEW r \in Runners, PullFails(r) \/ ContextDone(r)
    PROVE  ~Undisturbed'
<1> USE DEF TypeInv, TypeOK, CountersOK, Undisturbed
<1>1. faults' # 0 \/ contexts' # 0
  BY DEF PullFails, ContextDone, RequestFails, ContextsCounted
<1>2. QED
  BY <1>1

(* So a trouble, once there, stays.                                          *)
LEMMA TroublesAreCounted ==
    ASSUME TypeInv, [Next]_vars, Undisturbed'
    PROVE  /\ Undisturbed
           /\ expiries' = 0 => expiries = 0
           /\ retries' >= retries
<1> USE CountersGrow DEF TypeInv, TypeOK, CountersOK, Undisturbed
<1>1. credentials
  BY CredentialsGoForGood
<1>2. faults = 0 /\ contexts = 0
  OBVIOUS
<1>3. (expiries' = 0 => expiries = 0) /\ retries' >= retries
  OBVIOUS
<1>4. QED
  BY <1>1, <1>2, <1>3

(* A graceful stop.  Without trouble, a job leaves a batch only when the     *)
(* service has taken the answer for it.                                      *)
AllHeld ==
    \A j \in Jobs : state[j] = "leased" => \E r \in Runners : j \in batch[r]

LEMMA AnswerIsTaken ==
    ASSUME TypeInv, Undisturbed, Undisturbed', NEW r \in Runners, Ack(r) \/ Nack(r)
    PROVE  /\ pc[r] \in {"ack", "nack"} /\ pc' = [pc EXCEPT ![r] = "batch"]
           /\ job[r] \in batch[r] /\ job[r] \in Jobs
           /\ batch' = [batch EXCEPT ![r] = @ \ {job[r]}]
           /\ job' = [job EXCEPT ![r] = none]
           /\ \E result \in {"ready", "done", "failed"} :
                /\ pc[r] = "ack" => result = "done"
                /\ state' = [state EXCEPT ![job[r]] = IF @ = "leased" THEN result ELSE @]
           /\ handled' = handled /\ retries' = retries
<1> USE DEF TypeInv, TypeOK, WorkerOK, ServiceOK, CountersOK, HandsFull, Undisturbed
<1>1. PICK results \in SUBSET {"ready", "done", "failed"} :
        /\ Answer(r, pc[r], results) /\ pc[r] \in {"ack", "nack"}
        /\ pc[r] = "ack" => results = {"done"}
  BY DEF Ack, Nack, Answer, Move
<1>2. ~(credentials /\ RequestFails(r) /\ UNCHANGED state)
  BY <1>1 DEF RequestFails, ContextsCounted, Answer
<1>3. PICK result \in results :
        state' = [state EXCEPT ![job[r]] = IF @ = "leased" THEN result ELSE @]
  BY <1>1, <1>2 DEF Answer
<1>4. QED
  BY <1>1, <1>3 DEF Answer, Move, calls

LEMMA GracefulStep ==
    ASSUME TypeInv, [Next]_vars, Undisturbed', AllHeld PROVE AllHeld'
<1> USE DEF TypeInv, TypeOK, WorkerOK, ServiceOK, AllHeld, manager, worker, service
<1>0. Undisturbed
  BY TroublesAreCounted
<1>1. CASE UNCHANGED vars
  BY <1>1 DEF vars
<1>2. ASSUME NEW r \in Runners, Pull(r) PROVE AllHeld'
  <2>1. PICK jobs \in SUBSET Jobs :
          /\ batch' = [batch EXCEPT ![r] = jobs]
          /\ state' = [j \in Jobs |-> IF j \in jobs THEN "leased" ELSE state[j]]
    BY <1>2 DEF Pull, Leases
  <2>2. batch[r] = {}
    BY <1>2 DEF Pull, Move, NoStrayBatch, InBatch
  <2>3. QED
    BY <2>1, <2>2
<1>3. ASSUME NEW r \in Runners, PullFails(r) \/ ContextDone(r) PROVE FALSE
  BY <1>3, FailuresAreCounted
<1>4. ASSUME NEW r \in Runners, Ack(r) \/ Nack(r) PROVE AllHeld'
  BY <1>0, <1>4, AnswerIsTaken
<1>5. ASSUME NEW r \in Runners,
             \/ Start(r) \/ LookForStop(r) \/ Ask(r) \/ BatchDone(r) \/ Handle(r)
             \/ HandlerSucceeds(r) \/ HandlerFails(r) \/ WaitStops(r) \/ Poll(r) \/ Return(r)
      PROVE  AllHeld'
  <2>1. state' = state /\ \A q \in Runners : batch'[q] = batch[q]
    BY <1>5 DEF Start, LookForStop, Ask, BatchDone, Handle, HandlerSucceeds, HandlerFails,
       WaitStops, Poll, Return, Move, NoStrayBatch, InBatch
  <2>2. QED
    BY <2>1
<1>6. CASE StopWorker \/ Reset \/ ResetCredentials
  BY <1>6 DEF StopWorker, Reset, CloseStopCh, ResetCredentials
<1>7. ASSUME NEW j \in Jobs, Enqueue(j) \/ CancelJob(j) \/ RetryJob(j) \/ Expire(j) PROVE AllHeld'
  BY <1>7 DEF Enqueue, CancelJob, RetryJob, Expire
<1>8. QED
  BY <1>1, <1>2, <1>3, <1>4, <1>5, <1>6, <1>7 DEF Next, Run

(* As long as no request failed, no context ended and Reset has not taken    *)
(* the credentials, a worker never leaves a leased job behind, however often *)
(* and whenever it is stopped.                                               *)
THEOREM StopIsGraceful == Spec => []LeasedIsHeld
<1> DEFINE Inv == TypeInv /\ (Undisturbed => AllHeld)
<1>1. Init => Inv
  BY TypeInit DEF Init, AllHeld
<1>2. Inv /\ [Next]_vars => Inv'
  BY TypeStep, TroublesAreCounted, GracefulStep
<1>3. Inv => LeasedIsHeld
  BY DEF AllHeld, LeasedIsHeld
<1> HIDE DEF Inv
<1>4. QED
  BY <1>1, <1>2, <1>3, PTL DEF Spec

-----------------------------------------------------------------------------
(* What a job may still be handled without another retry: when it is waiting *)
(* at the service, and when it is in the hands of a worker that has not yet  *)
(* succeeded with it.                                                        *)
Waiting(j) == IF state[j] \in {"absent", "ready"} THEN 1 ELSE 0
Held(j) == \E r \in Runners : j \in batch[r] /\ ~(pc[r] = "ack" /\ job[r] = j)
InHand(j) == IF Held(j) THEN 1 ELSE 0
OnceInv == \A j \in Jobs : handled[j] + Waiting(j) + InHand(j) <= 1 + retries
Calm == Undisturbed /\ expiries = 0

(* A job that gains no chance keeps the bound.                               *)
LEMMA NoNewChance ==
    ASSUME TypeInv, OnceInv, UNCHANGED <<handled, retries>>, state' \in [Jobs -> States],
           \A j \in Jobs : Waiting(j)' + InHand(j)' <= Waiting(j) + InHand(j)
    PROVE  OnceInv'
BY DEF OnceInv, TypeInv, TypeOK, ServiceOK, CountersOK, Waiting, InHand

LEMMA OnceStep ==
    ASSUME TypeInv, [Next]_vars, Calm, Calm', SingleWorker, AllHeld, OnceInv PROVE OnceInv'
<1> USE DEF TypeInv, TypeOK, WorkerOK, ServiceOK, CountersOK
<1>0. TypeInv'
  BY TypeStep
<1>1. ASSUME UNCHANGED <<pc, batch, job, state, handled>>, retries' >= retries PROVE OnceInv'
  BY <1>0, <1>1 DEF OnceInv, Waiting, InHand, Held
<1>2. CASE UNCHANGED vars \/ StopWorker \/ Reset \/ ResetCredentials \/ \E r \in Runners : ContextDone(r)
  BY <1>1, <1>2 DEF vars, StopWorker, Reset, CloseStopCh, ResetCredentials, ContextDone, worker,
     service, calls
<1>3. ASSUME NEW j \in Jobs, Enqueue(j) \/ CancelJob(j) PROVE OnceInv'
  <2>1. UNCHANGED <<pc, batch, job, handled, retries>>
    BY <1>3 DEF Enqueue, CancelJob, worker, calls
  <2>2. \A k \in Jobs : Waiting(k)' <= Waiting(k)
    BY <1>3 DEF Enqueue, CancelJob, Waiting
  <2>3. QED
    BY <1>0, <2>1, <2>2, NoNewChance DEF InHand, Held, Waiting
<1>4. ASSUME NEW j \in Jobs, RetryJob(j) PROVE OnceInv'
  BY <1>4 DEF RetryJob, OnceInv, Waiting, InHand, Held, worker
<1>5. ASSUME NEW j \in Jobs, Expire(j) PROVE FALSE
  BY <1>5 DEF Expire, AllHeld, Calm
<1>6. ASSUME NEW r \in Runners, Pull(r) PROVE OnceInv'
  <2>1. PICK jobs \in SUBSET {j \in Jobs : state[j] = "ready"} :
          /\ batch' = [batch EXCEPT ![r] = jobs]
          /\ state' = [j \in Jobs |-> IF j \in jobs THEN "leased" ELSE state[j]]
    BY <1>6 DEF Pull, Leases
  <2>2. \A q \in Runners : batch[q] = {}
    BY <1>6 DEF Pull, Move, NoStrayBatch, InBatch, SingleWorker
  <2>3. ASSUME NEW j \in Jobs PROVE Waiting(j)' + InHand(j)' <= Waiting(j) + InHand(j)
    <3>1. CASE j \in jobs
      <4>1. Waiting(j) = 1 /\ Waiting(j)' = 0
        BY <2>1, <3>1 DEF Waiting
      <4>2. QED
        BY <4>1 DEF InHand
    <3>2. CASE j \notin jobs
      <4>1. ~Held(j)'
        BY <2>1, <2>2, <3>2 DEF Held
      <4>2. Waiting(j)' = Waiting(j)
        BY <2>1, <3>2 DEF Waiting
      <4>3. QED
        BY <4>1, <4>2 DEF InHand, Waiting
    <3>3. QED
      BY <3>1, <3>2
  <2>4. QED
    BY <1>0, <1>6, <2>3, NoNewChance DEF Pull, calls
<1>7. ASSUME NEW r \in Runners, PullFails(r) PROVE FALSE
  BY <1>7, FailuresAreCounted DEF Calm
<1>8. ASSUME NEW r \in Runners, HandlerSucceeds(r) PROVE OnceInv'
  <2>1. /\ pc[r] = "handler" /\ pc' = [pc EXCEPT ![r] = "ack"] /\ job[r] \in batch[r]
        /\ handled' = [handled EXCEPT ![job[r]] = @ + 1]
        /\ UNCHANGED <<batch, job, state, retries>>
    BY <1>8 DEF HandlerSucceeds, Move, HandsFull, calls
  <2>2. \A q \in Runners : q # r => batch[q] = {}
    BY <2>1 DEF NoStrayBatch, InBatch, SingleWorker
  <2>3. Held(job[r]) /\ ~Held(job[r])'
    BY <2>1, <2>2 DEF Held
  <2>4. ASSUME NEW j \in Jobs PROVE handled'[j] + Waiting(j)' + InHand(j)' <= 1 + retries'
    <3>1. CASE j = job[r]
      <4>1. handled'[j] = handled[j] + 1 /\ InHand(j) = 1 /\ InHand(j)' = 0
        BY <2>1, <2>3, <3>1 DEF InHand
      <4>2. QED
        BY <2>1, <4>1 DEF OnceInv, Waiting
    <3>2. CASE j # job[r]
      <4>1. Held(j)' <=> Held(j)
        BY <2>1, <3>2 DEF Held
      <4>2. handled'[j] = handled[j]
        BY <2>1, <3>2
      <4>3. QED
        BY <2>1, <4>1, <4>2 DEF OnceInv, Waiting, InHand
    <3>3. QED
      BY <3>1, <3>2
  <2>5. QED
    BY <2>4 DEF OnceInv
<1>9. ASSUME NEW r \in Runners, Ack(r) \/ Nack(r) PROVE OnceInv'
  <2>1. PICK result \in {"ready", "done", "failed"} :
          /\ pc[r] = "ack" => result = "done"
          /\ state' = [state EXCEPT ![job[r]] = IF @ = "leased" THEN result ELSE @]
    BY <1>9, AnswerIsTaken DEF Calm
  <2>2. /\ pc[r] \in {"ack", "nack"} /\ pc' = [pc EXCEPT ![r] = "batch"]
        /\ job[r] \in batch[r] /\ job[r] \in Jobs
        /\ batch' = [batch EXCEPT ![r] = @ \ {job[r]}]
        /\ handled' = handled /\ retries' = retries
    BY <1>9, AnswerIsTaken DEF Calm
  <2>3. \A q \in Runners : q # r => batch[q] = {}
    BY <2>2 DEF NoStrayBatch, InBatch, SingleWorker
  <2>4. ASSUME NEW j \in Jobs PROVE Waiting(j)' + InHand(j)' <= Waiting(j) + InHand(j)
    <3>1. CASE j = job[r]
      <4>1. ~Held(j)'
        BY <2>2, <2>3, <3>1 DEF Held
      <4>2. pc[r] = "nack" => Held(j)
        BY <2>2, <3>1 DEF Held
      <4>3. pc[r] = "ack" => Waiting(j)' <= Waiting(j)
        BY <2>1, <3>1 DEF Waiting
      <4>4. QED
        BY <2>2, <4>1, <4>2, <4>3 DEF InHand, Waiting
    <3>2. CASE j # job[r]
      <4>1. ASSUME Held(j)' PROVE Held(j)
        <5>1. PICK q \in Runners : j \in batch'[q]
          BY <4>1 DEF Held
        <5>2. q = r /\ j \in batch[r]
          BY <2>2, <2>3, <5>1
        <5>3. QED
          BY <3>2, <5>2 DEF Held
      <4>2. Waiting(j)' = Waiting(j)
        BY <2>1, <3>2 DEF Waiting
      <4>3. QED
        BY <4>1, <4>2 DEF InHand, Waiting
    <3>3. QED
      BY <3>1, <3>2
  <2>5. QED
    BY <1>0, <2>2, <2>4, NoNewChance
<1>10. ASSUME NEW r \in Runners,
              \/ Start(r) \/ LookForStop(r) \/ Ask(r) \/ BatchDone(r) \/ Handle(r)
              \/ HandlerFails(r) \/ WaitStops(r) \/ Poll(r) \/ Return(r)
       PROVE  OnceInv'
  <2>1. UNCHANGED <<state, handled, retries>>
    BY <1>10 DEF Start, LookForStop, Ask, BatchDone, Handle, HandlerFails, WaitStops, Poll, Return,
       service, calls
  <2>2. /\ \A q \in Runners : batch'[q] = batch[q]
        /\ pc[r] # "ack" /\ \A q \in Runners : q # r => pc'[q] = pc[q] /\ job'[q] = job[q]
    BY <1>10 DEF Start, LookForStop, Ask, BatchDone, Handle, HandlerFails, WaitStops, Poll, Return,
       Move, NoStrayBatch, InBatch
  <2>3. \A j \in Jobs : Held(j)' => Held(j)
    BY <2>2 DEF Held
  <2>4. QED
    BY <1>0, <2>1, <2>3, NoNewChance DEF InHand, Waiting
<1>11. QED
  BY <1>2, <1>3, <1>4, <1>5, <1>6, <1>7, <1>8, <1>9, <1>10 DEF Next, Run

(* As long as moreover no lease ends under a worker, no job's handler        *)
(* succeeds more often than the job was enqueued and retried.                *)
THEOREM DoneOncePerRetry == Spec => []HandledOnce
<1> DEFINE Inv == /\ TypeInv /\ SingleWorker /\ (Undisturbed => AllHeld)
                  /\ (Calm => OnceInv)
<1>1. Init => Inv
  <2>1. Init => SingleWorker /\ AllHeld
    BY DEF Init, SingleWorker, AllHeld
  <2>2. Init => OnceInv
    BY DEF Init, OnceInv, Waiting, InHand, Held
  <2>3. QED
    BY <2>1, <2>2, TypeInit
<1>2. Inv /\ [Next]_vars => Inv'
  <2> SUFFICES ASSUME Inv, [Next]_vars PROVE Inv'
    OBVIOUS
  <2>1. TypeInv' /\ SingleWorker'
    BY TypeStep, SingleStep
  <2>2. ASSUME Undisturbed' PROVE Undisturbed /\ AllHeld'
    BY <2>2, TroublesAreCounted, GracefulStep
  <2>3. ASSUME Calm' PROVE OnceInv'
    <3>1. Calm
      BY <2>3, TroublesAreCounted DEF Calm
    <3>2. QED
      BY <2>3, <3>1, OnceStep DEF Calm
  <2>4. QED
    BY <2>1, <2>2, <2>3
<1>3. Inv => HandledOnce
  <2> SUFFICES ASSUME Inv, Calm, NEW j \in Jobs PROVE handled[j] <= 1 + retries
    BY DEF HandledOnce, Calm
  <2>1. Waiting(j) \in {0, 1} /\ InHand(j) \in {0, 1}
    BY DEF Waiting, InHand
  <2>2. handled[j] \in Nat /\ retries \in Nat
    BY DEF TypeInv, TypeOK, ServiceOK, CountersOK
  <2>3. QED
    BY <2>1, <2>2 DEF OnceInv
<1> HIDE DEF Inv
<1>4. QED
  BY <1>1, <1>2, <1>3, PTL DEF Spec

=============================================================================
