----------------------------- MODULE QueueWorker -----------------------------
(***************************************************************************)
(* The REST queue manager (queue/manager.go): RunWorker and StopWorker,    *)
(* Enqueue, CancelJob and RetryJob beside them, Reset of the REST client   *)
(* (rest.go), and the queue service they talk to.                          *)
(*                                                                         *)
(* Goroutines call RunWorker; m.running lets one of them in.  It pulls     *)
(* batches of jobs, runs the handler on each and answers Ack or Nack,      *)
(* ignoring the error of the answer.  It looks for a stop before a pull    *)
(* and after a batch.  StopWorker closes stopCh.  The heartbeat before a   *)
(* pull changes no state of the client, and its error is ignored.          *)
(*                                                                         *)
(* Every request needs the headers of authHeaders.  Reset stops the worker *)
(* and then takes the credentials away, without waiting for the worker, so *)
(* the requests that the worker has left to make fail in the client.       *)
(*                                                                         *)
(* The service leases the jobs it hands out; a lease that ends makes the   *)
(* job ready again.  This is external: only what the worker relies on is   *)
(* modelled.  A batch is a set: the order within it does not matter.       *)
(***************************************************************************)
EXTENDS Naturals, FiniteSets

CONSTANTS
    Runners,            \* goroutines that may call RunWorker
    Jobs,               \* jobs that may be enqueued
    BatchSize,
    MaxRuns,            \* bound on the calls of RunWorker
    MaxStops,           \* bound on the calls of StopWorker and Reset
    MaxHandlerErrors,   \* bound on the handlers that return an error
    MaxTroubles         \* bound on what else goes wrong, and on CancelJob

ASSUME QueueAssumption ==
    /\ BatchSize \in Nat \ {0}
    /\ {MaxRuns, MaxStops, MaxHandlerErrors, MaxTroubles} \subseteq Nat

VARIABLES
    running,
    stopCh, closed,     \* the current channel, by number, 0 when nil; the closed ones
    panicked,
    pc,                 \* where every runner is
    batch,              \* the jobs it pulled and has not answered for
    job,                \* the job in its hands
    ended,              \* the runners whose context is done
    credentials,        \* Reset has left the token and the options alone
    resetting,          \* between the two halves of Reset
    state,              \* of every job, at the service
    handled,            \* how often a job's handler succeeded
    runs, stops,
    faults,             \* requests that failed by accident
    handlerErrors,
    expiries,           \* leases that ended under a worker
    contexts,           \* contexts that ended under a RunWorker
    cancels, retries

none == "none"          \* no job

manager == <<running, stopCh, closed, panicked>>
worker  == <<pc, batch, job>>
client  == <<credentials, resetting>>
service == <<state, handled>>
calls   == <<runs, stops, cancels, retries>>
mishaps == <<faults, handlerErrors, expiries, contexts>>
vars    == <<manager, worker, ended, client, service, calls, mishaps>>

Init ==
    /\ running = FALSE /\ stopCh = 0 /\ closed = {} /\ panicked = FALSE
    /\ pc = [r \in Runners |-> "idle"]
    /\ batch = [r \in Runners |-> {}] /\ job = [r \in Runners |-> none]
    /\ ended = {}
    /\ credentials = TRUE /\ resetting = FALSE
    /\ state = [j \in Jobs |-> "absent"] /\ handled = [j \in Jobs |-> 0]
    /\ runs = 0 /\ stops = 0 /\ cancels = 0 /\ retries = 0
    /\ faults = 0 /\ handlerErrors = 0 /\ expiries = 0 /\ contexts = 0

Move(r, from, to) == pc[r] = from /\ pc' = [pc EXCEPT ![r] = to]

Trouble == faults + expiries + contexts + cancels < MaxTroubles

(* A request fails when its context ends, or by accident.                    *)
RequestFails(r) ==
    IF r \in ended THEN UNCHANGED faults ELSE Trouble /\ faults' = faults + 1

(* What both selects wait for.                                               *)
StoppedByContext(r) == r \in ended
Stopped(r) == r \in ended \/ stopCh \in closed

-----------------------------------------------------------------------------
(* RunWorker *)

(* Under m.mu: one worker, and a new stopCh.                                 *)
StartUnguarded(r) ==
    /\ runs < MaxRuns /\ runs' = runs + 1
    /\ running' = TRUE /\ stopCh' = runs'
    /\ Move(r, "idle", "top")
    /\ UNCHANGED <<closed, panicked, batch, job, ended, client, service, stops, cancels, retries, mishaps>>
Start(r) ==
    /\ runs < MaxRuns /\ runs' = runs + 1
    /\ ~running                             \* else "worker already running"
    /\ running' = TRUE /\ stopCh' = runs'
    /\ Move(r, "idle", "top")
    /\ UNCHANGED <<closed, panicked, batch, job, ended, client, service, stops, cancels, retries, mishaps>>

LookForStop(r) ==
    /\ Move(r, "top", IF Stopped(r) THEN "return" ELSE "pull")
    /\ UNCHANGED <<manager, batch, job, ended, client, service, calls, mishaps>>

(* authHeaders; the long poll that follows may outlive the credentials.      *)
Ask(r) ==
    /\ Move(r, "pull", IF credentials THEN "polling" ELSE "wait")
    /\ UNCHANGED <<manager, batch, job, ended, client, service, calls, mishaps>>

(* The jobs the service leases: none when the long poll runs out.            *)
Leases(jobs) ==
    /\ jobs \subseteq {j \in Jobs : state[j] = "ready"} /\ Cardinality(jobs) <= BatchSize
    /\ state' = [j \in Jobs |-> IF j \in jobs THEN "leased" ELSE state[j]]

Pull(r) ==
    /\ r \notin ended
    /\ Move(r, "polling", "batch")
    /\ \E jobs \in SUBSET Jobs :
        /\ Leases(jobs)
        /\ jobs = {} => \A j \in Jobs : state[j] # "ready"
        /\ batch' = [batch EXCEPT ![r] = jobs]
    /\ UNCHANGED <<manager, job, ended, client, handled, calls, mishaps>>

(* The request is lost, or its answer with the jobs leased.                  *)
PullFailsForGood(r) ==
    /\ Move(r, "polling", "return")
    /\ RequestFails(r)
    /\ UNCHANGED <<manager, batch, job, ended, client, service, calls, handlerErrors, expiries, contexts>>
PullFails(r) ==
    /\ Move(r, "polling", "wait")
    /\ RequestFails(r)
    /\ \E jobs \in SUBSET Jobs : Leases(jobs)
    /\ UNCHANGED <<manager, batch, job, ended, client, handled, calls, handlerErrors, expiries, contexts>>

HandleUnlessStopped(r) ==
    /\ \/ Stopped(r) /\ Move(r, "batch", "return") /\ UNCHANGED job
       \/ /\ ~Stopped(r) /\ Move(r, "batch", "handler")
          /\ \E j \in batch[r] : job' = [job EXCEPT ![r] = j]
    /\ UNCHANGED <<manager, batch, ended, client, service, calls, mishaps>>
HandlePops(r) ==
    /\ Move(r, "batch", "handler")
    /\ \E j \in batch[r] :
        /\ job' = [job EXCEPT ![r] = j]
        /\ batch' = [batch EXCEPT ![r] = @ \ {j}]
    /\ UNCHANGED <<manager, ended, client, service, calls, mishaps>>
Handle(r) ==
    /\ Move(r, "batch", "handler")
    /\ \E j \in batch[r] : job' = [job EXCEPT ![r] = j]
    /\ UNCHANGED <<manager, batch, ended, client, service, calls, mishaps>>

BatchDone(r) ==
    /\ batch[r] = {} /\ Move(r, "batch", "wait")
    /\ UNCHANGED <<manager, batch, job, ended, client, service, calls, mishaps>>

(* A handler sees the context, so the end of it may make the handler fail.   *)
HandlerSucceedsNacked(r) ==
    /\ Move(r, "handler", "nack")
    /\ handled' = [handled EXCEPT ![job[r]] = @ + 1]
    /\ UNCHANGED <<manager, batch, job, ended, client, state, calls, mishaps>>
HandlerSucceeds(r) ==
    /\ Move(r, "handler", "ack")
    /\ handled' = [handled EXCEPT ![job[r]] = @ + 1]
    /\ UNCHANGED <<manager, batch, job, ended, client, state, calls, mishaps>>
HandlerFails(r) ==
    /\ Move(r, "handler", "nack")
    /\ handlerErrors < MaxHandlerErrors /\ handlerErrors' = handlerErrors + 1
    /\ UNCHANGED <<manager, batch, job, ended, client, service, calls, faults, expiries, contexts>>

(* The answer, whose error is ignored: without credentials it is not sent,   *)
(* else the service takes it for a job that is leased, or it is lost.  After *)
(* a nack the service may have had enough of the job.                        *)
Answer(r, from, results) ==
    /\ Move(r, from, "batch")
    /\ batch' = [batch EXCEPT ![r] = @ \ {job[r]}] /\ job' = [job EXCEPT ![r] = none]
    /\ \/ /\ credentials /\ r \notin ended /\ UNCHANGED faults
          /\ \E result \in results :
                state' = [state EXCEPT ![job[r]] = IF @ = "leased" THEN result ELSE @]
       \/ credentials /\ RequestFails(r) /\ UNCHANGED state
       \/ ~credentials /\ UNCHANGED <<state, faults>>
    /\ UNCHANGED <<manager, ended, client, handled, calls, handlerErrors, expiries, contexts>>
Ack(r) == Answer(r, "ack", {"done"})
Nack(r) == Answer(r, "nack", {"ready", "failed"})

(* The second select: a stop, or the poll interval; if both are ready, Go    *)
(* picks either.                                                             *)
WaitStops(r) ==
    /\ Stopped(r) /\ Move(r, "wait", "return")
    /\ UNCHANGED <<manager, batch, job, ended, client, service, calls, mishaps>>
Poll(r) ==
    /\ Move(r, "wait", "top")
    /\ UNCHANGED <<manager, batch, job, ended, client, service, calls, mishaps>>

(* The deferred function; the goroutine may call RunWorker with a new        *)
(* context.                                                                  *)
Return(r) ==
    /\ Move(r, "return", "idle")
    /\ running' = FALSE
    /\ batch' = [batch EXCEPT ![r] = {}]
    /\ ended' = ended \ {r}
    /\ UNCHANGED <<stopCh, closed, panicked, job, client, service, calls, mishaps>>

-----------------------------------------------------------------------------
(* StopWorker and Reset *)

CloseStopCh ==
    /\ stops < MaxStops /\ stops' = stops + 1
    /\ IF running /\ stopCh # 0
       THEN IF stopCh \in closed
            THEN panicked' = TRUE /\ UNCHANGED closed    \* close of closed channel
            ELSE closed' = closed \cup {stopCh} /\ UNCHANGED panicked
       ELSE UNCHANGED <<closed, panicked>>
    /\ UNCHANGED <<running, stopCh, worker, ended, credentials, service, runs, cancels,
                   retries, mishaps>>

StopWorker == CloseStopCh /\ UNCHANGED resetting

(* Rest.Reset: the queues, then the token and the options.                   *)
Reset == ~resetting /\ resetting' = TRUE /\ CloseStopCh
ResetCredentials ==
    /\ resetting /\ resetting' = FALSE
    /\ credentials' = FALSE
    /\ UNCHANGED <<manager, worker, ended, service, calls, mishaps>>

-----------------------------------------------------------------------------
(* The application's other calls, each with its request; one that fails has  *)
(* no effect, or that of one that succeeds.                                  *)

Enqueue(j) ==
    /\ credentials
    /\ state[j] = "absent" /\ state' = [state EXCEPT ![j] = "ready"]
    /\ UNCHANGED <<manager, worker, ended, client, handled, calls, mishaps>>

(* Nobody tells a worker that has the job.                                   *)
CancelJob(j) ==
    /\ credentials /\ Trouble /\ cancels' = cancels + 1
    /\ state[j] \in {"ready", "leased"} /\ state' = [state EXCEPT ![j] = "failed"]
    /\ UNCHANGED <<manager, worker, ended, client, handled, runs, stops, retries, mishaps>>

RetryJob(j) ==
    /\ credentials /\ retries' = retries + 1
    /\ state[j] = "failed" /\ state' = [state EXCEPT ![j] = "ready"]
    /\ UNCHANGED <<manager, worker, ended, client, handled, runs, stops, cancels, mishaps>>

-----------------------------------------------------------------------------
(* The environment *)

ContextDone(r) ==
    /\ pc[r] # "idle" /\ r \notin ended
    /\ Trouble /\ contexts' = contexts + 1
    /\ ended' = ended \cup {r}
    /\ UNCHANGED <<manager, worker, client, service, calls, faults, handlerErrors, expiries>>

(* A lease ends: under a worker, which is bounded, or when nobody has it.    *)
Expire(j) ==
    /\ state[j] = "leased"
    /\ state' = [state EXCEPT ![j] = "ready"]
    /\ IF \E r \in Runners : j \in batch[r]
       THEN Trouble /\ expiries' = expiries + 1
       ELSE UNCHANGED expiries
    /\ UNCHANGED <<manager, worker, ended, client, handled, calls, faults, handlerErrors, contexts>>

-----------------------------------------------------------------------------
Run(r) ==
    \/ LookForStop(r) \/ Ask(r) \/ Pull(r) \/ PullFails(r) \/ BatchDone(r) \/ Handle(r)
    \/ HandlerSucceeds(r) \/ HandlerFails(r) \/ Ack(r) \/ Nack(r)
    \/ WaitStops(r) \/ Poll(r) \/ Return(r)

(* A panic ends the process.                                                 *)
Next ==
    \/ ~panicked /\ \E r \in Runners : Start(r) \/ Run(r) \/ ContextDone(r)
    \/ ~panicked /\ (StopWorker \/ Reset \/ ResetCredentials)
    \/ ~panicked /\ \E j \in Jobs : Enqueue(j) \/ CancelJob(j) \/ RetryJob(j)
    \/ \E j \in Jobs : Expire(j)

Spec == Init /\ [][Next]_vars

(* Handlers and requests end, poll intervals pass, and a lease nobody holds  *)
(* ends.                                                                     *)
FairSpec ==
    /\ Spec
    /\ \A r \in Runners : WF_vars(~panicked /\ Run(r))
    /\ \A j \in Jobs : WF_vars(Expire(j))

-----------------------------------------------------------------------------
(* Properties *)

Labels == {"idle", "top", "pull", "polling", "batch", "handler", "ack", "nack", "wait", "return"}

States == {"absent", "ready", "leased", "done", "failed"}

ManagerOK ==
    running \in BOOLEAN /\ stopCh \in Nat /\ closed \subseteq Nat /\ panicked \in BOOLEAN
WorkerOK ==
    /\ pc \in [Runners -> Labels]
    /\ batch \in [Runners -> SUBSET Jobs]
    /\ job \in [Runners -> Jobs \cup {none}]
    /\ ended \subseteq Runners
ServiceOK ==
    /\ state \in [Jobs -> States]
    /\ handled \in [Jobs -> Nat]
ClientOK == credentials \in BOOLEAN /\ resetting \in BOOLEAN
CountersOK ==
    /\ {runs, stops, cancels, retries} \subseteq Nat
    /\ {faults, handlerErrors, expiries, contexts} \subseteq Nat

(* A handler and its answer are about a job of the worker's batch.           *)
HandsFull ==
    \A r \in Runners : pc[r] \in {"handler", "ack", "nack"} => job[r] \in batch[r]
TypeOK == ManagerOK /\ WorkerOK /\ ClientOK /\ ServiceOK /\ CountersOK /\ HandsFull

(* However RunWorker, StopWorker and the end of contexts interleave, at most *)
(* one goroutine is in the loop, and m.running says whether one is.          *)
SingleWorker ==
    /\ \A r, q \in Runners : pc[r] # "idle" /\ pc[q] # "idle" => r = q
    /\ running <=> \E r \in Runners : pc[r] # "idle"

(* As long as no request fails, no context ends and Reset takes no           *)
(* credentials away, a stop is graceful: every leased job is in the batch of *)
(* the worker that will answer for it.                                       *)
Undisturbed == faults = 0 /\ contexts = 0 /\ credentials
LeasedIsHeld ==
    Undisturbed =>
        \A j \in Jobs : state[j] = "leased" => \E r \in Runners : j \in batch[r]

(* And as long as no lease ends too early either, no job is done more often  *)
(* than it was enqueued or retried, however often workers are stopped and    *)
(* started and jobs cancelled.                                               *)
HandledOnce ==
    Undisturbed /\ expiries = 0 => \A j \in Jobs : handled[j] <= 1 + retries

(* A stop is heeded, whatever fails meanwhile.                               *)
StopIsHeeded ==
    \A r \in Runners : pc[r] # "idle" /\ stopCh \in closed ~> pc[r] = "idle" \/ panicked

(* Unless it is stopped, its context ends or the credentials go, a worker    *)
(* settles every job that is enqueued, in spite of failed requests, handler  *)
(* errors and leases that end early.                                         *)
JobsGetDone ==
    \A r \in Runners, j \in Jobs :
        pc[r] # "idle" /\ state[j] # "absent" ~>
            \/ state[j] \in {"done", "failed"}
            \/ stopCh \in closed \/ r \in ended \/ ~credentials

-----------------------------------------------------------------------------
(* "RunWorker / StopWorker (context + loop) | Done"                          *)
(* (docs/implementation-status.md): stopping twice, or Reset after a stop,   *)
(* is not a crash.                                                           *)
StopNeverPanics == ~panicked
=============================================================================
