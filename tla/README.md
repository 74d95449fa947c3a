# qpub-go in TLA+

Specifications of the Go SDK of QPub: its realtime side (`Socket`: a WebSocket connection, channels,
token authentication) and its REST side (`Rest`: publishing, queues, options). The modules follow the source; paths
below are relative to the repository's root. `PROJECT.json` maps each definition to its lines.

    tlc -workers 2 -config conn_all.cfg MCConnection     # model-check one run
    tlapm ConnectionProofs.tla                           # check one module of proofs

## 1. Inventory

### The parts and how they interact

```
            application goroutines
      |           |            |              |
  SocketChannel  SocketManager  connection.Conn   auth.Manager       queue.Manager (REST)
      |  ^          |  ^         |   |    ^  \      |    ^  timers        |
      |  +-Dispatch-+  |         |   |    |   \     |    |                |
      |                +-onClose-+   |    +--events-+    |                |
      +------ ws.Client.Send --------+ read loop         +-- HTTP --------+-- HTTP
```

Nothing in this SDK persists state; what is hard is concurrency. The goroutines are: those of the
application; one read loop per successful `Connect` (`connection/connection.go:121`), which handles
every frame; one goroutine per lost connection (`:182`), which runs `tryReconnect` and in it
`Connect` and the resubscriptions; the function of every `time.AfterFunc` of the token
(`auth/manager.go:222`); the application's goroutine inside `RunWorker`.
Several mutexes protect small critical sections, and most operations are a chain of them with a
network write or a wait in between. Several fields (`Conn.readCancel`, `Manager.ctx`, the maps of
`SocketManager`) are used without any.

| component | state | operations | hard behaviour | what makes it correct |
|---|---|---|---|---|
| **SocketChannel, subscription** `channel/socket.go` | `subscribed`, `pendingSubscribe`, `pendingUnsubscribe`, `reconnectPending`, callbacks, `operationQueue`, done channels | `Subscribe`, `Unsubscribe`, `Resubscribe`, `Reset`, `HandleIncoming`, `SetPendingSubscribe` | check, unlock, send, wait; answers that arrive after the timeout; the read loop running a queued operation that waits for the read loop; a `Connect` across all of it, over a socket whose loop still reads | belief agrees with the server; no channel deaf for good; calls return; a reconnect restores |
| **SocketChannel, delivery** same file | `paused`, `bufferWhilePaused`, `pausedMessages`, `handlerSerial` | `HandleIncoming` of MESSAGE, `Pause`, `Resume`, `ClearBufferedMessages`, `Reset` | read loop and `Resume` deliver at once | each handler once, one at a time, no loss, nothing stranded |
| **SocketManager** same file | `channels`, `refCounts` | `Get`, `Release`, `Remove`, `Reset`, `Dispatch`, `PendingSubscribeAllChannels`, `ResubscribeAfterReconnect` | iterations over a map that changes, of an old loop and of a new connection at once; `Release` looks, resets, deletes while answers arrive; it goes by name, after a `Remove` too | handles, counts and map agree; what is subscribed is reachable and resubscribed |
| **Conn** `connection/connection.go`, `transport/ws/client.go` | `ws.conn`, `readCancel`, `isReconnecting`, `reconnectAttempts`, `intentionalDisconnect`, `resetting` | `Connect`, `Disconnect`, `Reset`, read loop, `onClose`, `tryReconnect` | overlapping `Connect`s, losses during a reconnect, backoff against `Disconnect` and `Reset` | one reconnector, attempts bounded, an open socket is read, a lost one replaced |
| **Ping** `connection/connection.go:241` | `pingCounter`, `pendingPings` | `Ping`, `completePing` | late and duplicated PONGs against timeouts; a send outside the lock | the read loop never blocks, everybody gets his own PONG, no leak |
| **auth.Manager** `auth/manager.go` | `currentToken`, `refreshTimer`, `resetting`, `ctx` | `Authenticate`, `RequestToken`, `GetToken`, `ClearToken`, `Reset`, timers | `setToken` is three critical sections; timers that have fired cannot be stopped; options that change between two attempts | a held token is always timed, an expired one dropped, calls return |
| **renewal**: `auth.Manager` and `Conn` through `internal/emitter` | the listeners | `AuthTokenExpired` calls `Connect` on the goroutine that emits | calls of the manager inside calls of the manager; the token is announced before it is cleared | each level of nesting has cost a token, the renewal uses a newer one, calls return unless tokens keep coming |
| **queue.Manager** `queue/manager.go` | `running`, `stopCh` | `RunWorker`, `StopWorker`, `Reset`, `Pull`, `Ack`, `Nack`, `Enqueue`, `CancelJob`, `RetryJob` | stop, restart and reset while a batch is in hand; answers that fail; leases that end; jobs cancelled under a worker | one worker, graceful stops, nothing done twice, everything done |
| **Rest** `rest.go`, `channel/rest.go`, `option/option.go` | the options, the token | any request (headers, send), `Set`, `Reset` | options that change, and a `Reset`, under an authentication or a request | the same of the token as above; `Reset` forgets it |

Without state of their own, or with none that interleaves: `transport/ws` (its only field is part of
`Connection`), REST channels, HTTP client, JWT and HMAC, protocol types, instance ids, logger, the
facades. `PROJECT.json` lists each with the reason it is modelled or not.

### Why these properties

`PROJECT.json` lists the hazards of this code line by line, each with the properties that watch it.
They are of a few kinds: a decision taken under a lock and acted on after it was released
(`channel/socket.go:127`, `:312`, `:621`), an answer that arrives when its call is gone (`:303`,
`:434`, `connection.go:270`), goroutines that meet on an unlocked field (`connection.go:112`,
`auth/manager.go:114`), a listener that calls back into the component that emits (`auth/manager.go:183`,
`:223`), a socket replaced under those who use it (`connection.go:97`), a flag that makes one of two goroutines give up (`connection.go:187`,
`queue/manager.go:300`), and budgets and retries (`connection.go:192`, `auth/manager.go:79`).

## 2. Modules

One module specifies one component. Its header says what a step is and what is left out, and its
actions carry the names of the functions they model. `MC<module>` gives TLC its model values,
`<module>Proofs` holds the theorems
(`AuthClientsProofs` those of both `TokenRenewal` and `RestClient`). Some actions stand next to a second version of themselves
(`EnqueueWithoutKind`, `Release`/`ReleaseUnguarded`, ...) that no specification uses: it is a plausible
mistake, and the properties are known to fail with it (`mutants` in `PROJECT.json`).

**SocketChannel** - the subscription protocol of one channel. A goroutine is a label in `pc`, the
operation it runs in `op`; every step is one critical section of `c.mu`, one `ws.Send`, or one return
from `waitAck`. `mu` is a variable only because one path takes it twice (`relock`, lines 113 and 139).
The done channel of a call is named by its goroutine (`subDone`, `unsubDone`, `acked`).
`ProcessOperationQueue` makes the read loop itself run the operation it took, as line 510 does, so
everything queued behind stays until it returns. Sockets are numbered, and each has its inbox; a read loop has the number
of the socket its `Connect` dialled and reads the one `startReadLoop` found (`source`), which another `Connect` may have replaced by then.
`Connect` (a `Connectors` goroutine: the application's, the listener's of `AuthTokenExpired`, or a reconnecting one) closes whatever
socket there is, working or not, and dials; `StartReadLoop` cancels the loop before; then come the two halves of `Resubscribe`.
The old loop goes on by itself: it reads what still came, then runs `OnClose` (`SetPendingSubscribe(true)`) before, during or after
the resubscription of the next connection, or it comes to `CheckDone` first and leaves without `onClose`. `Disconnect`, a dial that fails
and the end of a context are steps of the environment. External: the server handles a frame when it is sent and its answer waits in
`inbox` (`Answered`), or the peer is gone and the frame vanishes (`Vanished`).

**ChannelDelivery**, **MessageBox** - `MessageBox` says what a channel promises of its messages
(the comment at `channel/socket.go:31`): a message waits from arrival to settlement; each handler is
handed it at most once, one handler of the channel at a time; it settles after all its handlers had
it, unless the application had it dropped. It promises no order; `OvertakesBuffered` says which there is. `ChannelDelivery` is the code: `Receive` reads
`subscribed` once per frame, `Deliver` buffers, drops, or copies the handlers, `SkipNil` passes over a
nil one before any lock, `InvokeHandler` takes `handlerSerial`, and `Pause`, `Resume`, `ClearBufferedMessages` and `Reset` interleave, called by the
application's goroutines or by a running handler; a `Resume` inside a handler delivers what was buffered
on that goroutine (`DeliverWithin`) and is `blocked` for good when it comes to a handler. The refinement
mapping: a message waits while it is in the buffer or in some goroutine's loop; the box is busy while
some goroutine is in a handler. `given` and `excused` are history variables and guard nothing.

**SocketManager**, **Registry** - several channels by name, with reference counts. `Release` of the last handle is
four steps (`Release`, `ReleaseLooks`, `ReleaseResets`, `ReleaseDeletes`), `Reset` one for each channel and one for the maps, and the
iterations of `onClose` and `ResubscribeAfterReconnect` visit one channel per step, with Go's rule for
maps that change during a `range`. `Connect` may close a working socket here as well: the old loop's `onClose` then marks channels
while the new connection resubscribes them, or the loop leaves and marks none. A channel shows only what the manager's behaviour depends on: has
it a callback, its four flags. Calls of the channels are those with one event, in one step up to their
wait; their finer interleaving is `SocketChannel`. The maps have no lock, so the application's calls
of the manager are serial here (`Serial`), as they must be in a correct application; the connection's goroutines
interleave with them freely. A `Release` goes by name, whatever channel has that name now: who got a channel that was removed since
releases the present one, which is `disputed` from then on. Each `Release` is paired with a `Get`, and nothing else is asked of the application.
`Registry` is what the callers may rely on ("manages socket channels with ref counting",
`channel/socket.go:589`): every call is one step, the set of holders stands in place of the counter, and a `Release` takes
an object out only if nobody else holds it and nobody has subscribed on it (`Drop`), unless an answer to an older call wiped it (`wiped`,
here `stale`). What `Remove` and `Reset` take out is recorded (`removed`), so that a `Release` cannot pass for one of them. Only when something
was removed can an object become disputed (`Dispute`), and only a disputed one may be lost to those who hold it (`Lose`). The refinement
mapping hides dropped objects from the map (`Registered`) and from those who hold them (`InHand`): `Reset` happens when it begins,
`Release` when it ends.

**Connection** - `Conn` over `ws.Client`. Sockets, read loops and reconnecting goroutines are
numbered; a read loop's reconnector has the loop's number, since a loop spawns at most one.
`Connect` is `ConnectStart`, `Dial` or a failure, `CancelOldLoop`, `SetReadCancel`, `StartReadLoop`,
`Resubscribe`: each access to `readCancel` and to the client is a step, because no lock holds them
together. `ws.Client.Connect` keeps its mutex while it closes the old socket, dials and stores
the new one, so that is one step (`Dial`). `Reset` is four. `Lose` is the environment.
`resets`, `failures`, `losses`, `overlaps` and `contexts` count what the environment and the
application did, to bound it and for the premises of the properties.

**Ping** - the table of `pendingPings` and the one-slot channels (`full`). Two read loops may
be alive at once (see `Connection`), so readers are a set. The peer may answer late, more than once,
or not at all.

**QueueWorker** - `RunWorker` step by step: look for a stop, ask for the headers, pull, each job's
handler, its `Ack` or `Nack` whose error is ignored, then a stop or the next poll. `Reset` is
`Rest.Reset` as far as the worker sees it: `StopWorker`, and later the credentials are gone
(`ResetCredentials`), so what the worker has left to send fails in the client. `Enqueue`, `CancelJob` and `RetryJob` are the application's,
at any time. The service is external: it leases, settles and lets leases expire. `stopCh` is a number,
renewed by each `RunWorker`; closing a closed one sets `panicked` and everything stops.

**AuthManager** - the token, from `NewManager` on, which starts a goroutine for a token request it is given (`Constructor`). A token is the number of its issue, its age what the clock says; the
timer armed for it has the same number and is `armed`, `stopped`, `fired` (its function waits for
`m.mu`) or `done`. `setToken` with `scheduleRefresh` is `SetToken`, `StopTimer`, `Arm`; `Reset` is four
steps; `Aborted` looks at the context of the moment, as line 114 does. `Authenticate` keeps the retries and
the token request of the options it read first, and each attempt reads the auth URL again. The module is
checked inside the next two, never alone.

**TokenRenewal** - `AuthManager` with the connection as the listener of `AuthTokenExpired`. Emission is
synchronous, so a goroutine is a stack: a caller of `AuthManager` is a *frame*, a goroutine (of the
application, or the one a timer starts) and a depth, and a frame waits while the one inside it is in use
(`Active`). `Notify` puts the listener's `Connect` into the next frame; `Connect` authenticates (in the
same frame), asks for the URL's credential and dials, unless `Conn.Reset`, on some other goroutine, has set `resetting`
(`ConnResets`, `ConnectWhileResetting`). What a dial does to sockets is in `Connection`. The listener is there from the start:
the constructor's goroutine is taken to announce nothing before `connection.New`, which follows `NewManager`, has registered it.

**Options**, **RestClient** - `Options` is data: `MergeOption`, `DefaultOption` over three
kinds of options, which `mergeOption` treats differently (fields by their zero value, flags not at all, `Debug`
always). `RestClient` is `AuthManager` with requests: `Request` reads the options and calls `GetToken`,
`Headers` decides for token or key, `Answered` ends it. Every call of
`channel/rest.go` and `queue/manager.go` is such a request; the URL it reads the options again for is left out (section 6).
`Set` and `Reset` change the options meanwhile. `before` and `forgotten` are history: the token held when a `Reset` began, and those of the
`Reset`s that have returned.

### Composition

Two modules compose components over one state: `TokenRenewal` (authentication, event emitter and
`Connect`) and `RestClient` (authentication, options, requests, `Rest.Reset`); both extend `AuthManager` and use its
actions unchanged, conjoined with what the other part does in the same step. The others meet at three places,
and each has the other side as far as its own state depends on it: `Connect` and `OnClose` in
`SocketChannel` and `SocketManager` are what `Connection` does to channels; `Resubscribe` in `Connection`
is the time the reconnecting goroutine spends in them; `AuthFails` in `Connection` is all the
authentication can do to a `Connect`. `ChannelDelivery` starts with a subscribed channel, and
`HandleUnsubscribed` and `Reset` take its handlers away.

## 3. Runs

Eight runs hold, in four a documented promise does not. Times are for two workers.

| run | asks | instance |
|---|---|---|
| `channel` | `ViewAgreesWithServer`, `NeverDeaf` (first connection): belief and server agree in both directions. `PendingIsAnswered`: a flag that makes calls wait is about to be cleared. `CallsReturn`, `ReconnectRestoresSubscription` | 2 callers, every kind of call, 1 event, 2 handlers, 2 calls, 2 `Connect`s, 1 fault (213 000 states, 1.5 min) |
| `delivery` | `KeepsPromise`: does `ChannelDelivery` implement `MessageBox`? `BufferOnlyWhilePaused`: nothing is stranded. `MessagesSettle`: everything is settled. `OvertakesBuffered`: only what was buffered is overtaken | 2 callers and the handlers, 3 handlers, 3 messages in frames of 1 or 2, 5 calls (144 000 states, 50 s) |
| `manager` | `IsRegistry`: does `SocketManager` implement `Registry`? `HandlesAreCounted`, `KeptForCallback`, `ChannelsComeBack`: counts, handles and map agree, what is unused goes, what is subscribed comes back | 2 goroutines, 2 names, 2 channels, 3 calls, 2 `Connect`s, 1 loss (353 000 states, 2 min) |
| `conn_all` | `SingleReconnector`, `DialsWithinBudget`, `LiveSocketIsRead`; `LossIsHandled`: is a lost socket always in somebody's charge? `LostSocketIsReplaced`: and replaced in the end? | 2 users, 4 sockets, 2 attempts, 2 calls, 2 losses, 1 failed dial, 1 context (447 000 states, 1.5 min) |
| `ping` | `ReaderNeverBlocks`, `NoEntryLeaks`, `PingReturns` | 2 callers, 2 read loops, 3 pings, 1 copied PONG, 2 abandoned calls |
| `queue` | `SingleWorker`, `LeasedIsHeld`, `HandledOnce`, `StopIsHeeded`, `JobsGetDone` | 2 runners, 2 jobs, batches of 2, 2 runs, 2 stops or resets, 1 handler error, 1 mishap or cancelled job (340 000 states, 2.5 min) |
| `renewal` | `NestingIsPaid`: what does a level of `Connect`s that start `Connect`s cost? `RenewalDialsAnew`: with what does a renewal dial? `ListenersReturn`: does every call return, listeners included, unless tokens are issued to it over and over? | 1 user and the timers, 2 tokens, 3 levels, 1 retry, 2 calls, of them `Conn.Reset` (226 000 states, 3 min) |
| `rest` | `TokenIsTimed`, `ExpiredIsDropped`: does every held token go? `ResetForgets`: does a `Reset` leave the token it found? | 2 goroutines, started with an auth URL or a token request, 1 `Set` to another account, 2 calls, 2 tokens (169 000 states, 1 min) |
| `channel_catch_all` | must fail: a catch-all `Subscribe` on a subscribed channel returns | 2 catch-all subscriptions |
| `conn_dial_fails` | must fail: after a failed dial the next attempt is made (`AutoReconnects`) | 1 user, 1 loss, 1 failure, 4 attempts |
| `conn_reset` | must fail: after `Reset` nothing dials (`ResetTearsDown`) | 1 user, 1 `Connect`, 1 `Reset` |
| `queue_stop_twice` | must fail: stopping twice does not panic | 1 runner, 2 stops |

Every module has one type invariant, checked in its run.

### Bounds

TLC's bounds are constants that begin with `Max`, and each is a guard of the action it bounds (`Call`,
`Lose`, `Dial`, ...); nothing else is cut off. They are chosen for the crossings to happen:

- two of everything that races (callers, users, runners, read loops, handlers);
- in `channel` two calls of any kind, two `Connect`s and one fault (`MaxFaults`: a working socket lost or closed, a refusal, a context that ends):
  a `Subscribe` that times out and the call that meets its late answer, a call across a reconnect or across a `Connect` over a working
  socket, a queued operation run by the read loop, a `Reset` under any of them;
- in `delivery` five calls: pause, resume, pause again while the first `Resume` still delivers, and a reset or clear
  on top; a last message without an event, which only the catch-all gets;
- in `conn_all` two losses and four sockets: the first reconnect and a loss during or after it, with
  the users' `Connect`s still overlapping; two attempts, so the budget is exhausted;
- in `ping` three pings and a copy: an id is used again by nobody, a PONG comes twice, a caller pings
  again after it gave up;
- in `queue` two jobs in one batch: a stop with the second still in hand; two runs and stops: a
  restart, and a stop or `Reset` of each. `MaxTroubles` bounds failed requests, early leases, contexts and cancelled jobs together:
  each of them is met alone, in every place;
- in `renewal` two tokens and three levels: a token that expires at once makes the second level, a second one the third,
  and a fourth would need a third token, which is what `NestingIsPaid` says. The code has no such bound, so `ListenersReturn` does
  not rest on it: a call that waits for a token more, or is about to call a listener at the last level, has left the model (`BeyondBounds`), and nothing is
  claimed of it;
- in `rest` two tokens: the timer of the first is late for the second; a token whose answer crosses a `Reset`; two accounts, since a change
  of the options to one's own account changes nothing;
- in `manager` two channels: a name can be dropped and created again, and a map can change under an
  iteration. One working connection is lost or closed by the second `Connect`, which is one full round of marking and resubscribing, in turn or
  at once. Three calls besides `Release`: two `Get`s and a `Subscribe`, a `Remove` or a `Reset`. The safety properties were also checked,
  outside the five minutes of a run, with four calls (2.3 million states) and with two goroutines that connect (3.1 million), all properties with four
  calls on one name, and `ChannelsComeBack` with two goroutines that connect and one that calls.

No symmetry is used: the runs with liveness could not use it soundly, and the others are small.
`CHECK_DEADLOCK FALSE` in all: when the bounded calls are spent and every goroutine is idle, the
program has nothing to do. That no goroutine is stuck is the liveness properties' to say.

### Fairness

Weak fairness only, on what runs by itself:

- each goroutine's next step: Go's scheduler is fair and `sync.Mutex` starves nobody;
- the timeout of a wait (`waitAck`, `Ping`), which is always enabled while waiting, as its timer is;
- a read of a dead socket fails, a dial ends with a socket or an error, an HTTP request ends;
- a goroutine inside nested calls runs in its innermost frame (`FairRenewalSpec`);
- time passes for tokens (`Age`) and `time.AfterFunc` timers fire (`FairRestSpec`), leases of the queue service expire;
- in `SocketManager`, somebody connects again once the connection is lost: `ChannelsComeBack` is about what a
  reconnect does. That a reconnect happens is `Connection`'s `LostSocketIsReplaced`, not an assumption there. In `SocketChannel` nothing makes
  anybody connect: `ReconnectRestoresSubscription` starts when somebody has.

No fairness on calls, losses, frames that arrive or answers of the server: an answer may never come.

### Premises

Some properties have an exception. Each one is a behaviour of the code, not of the model:

- `Settled` (in `SocketChannel` and `SocketManager`): the loops of all connections before the present one have run `onClose`, and the present one is
  read by its own loop. `ViewAgreesWithServer`, the first half of `PendingIsAnswered`, `ReconnectRestoresSubscription` and `ChannelsComeBack`
  speak of such states, however much `Connect`s overlapped before. Outside them the code promises nothing: a loop that is cancelled over a
  working socket leaves without `onClose` (`connection.go:125`), and the channel stays `subscribed`, or pending, for a connection that is gone; an
  `onClose` that comes late marks channels the resubscription has passed (section 6).
- `NeverDeaf` on the first connection: after a reconnect `Resubscribe` clears `subscribed` of a channel it
  finds without callbacks, although a `SUBSCRIBE` that crossed the reconnect has just been answered, and a `Subscribe`
  between its two critical sections adds a callback to it then (section 6).
- `SingleReconnector`, `DialsWithinBudget` until the first `Reset`, which clears `isReconnecting` and
  `reconnectAttempts` while a goroutine still sleeps in its backoff.
- `LiveSocketIsRead` outside a `Connect` or `Reset` under way, and if no context of a `Connect` ended.
- `LossIsHandled`, `LostSocketIsReplaced` name two excuses of the code (`GivesUp`): a failed dial, shown alone by
  `conn_dial_fails`, and a loss while a reconnect is in progress.
- `PendingIsAnswered` if the server refuses nothing: an ERROR frame clears no flag. After a loss
  `pendingSubscribe` stays set until the next SUBSCRIBED, which `reconnectPending` marks, and `pendingUnsubscribe` for good if its answer was
  lost, so it is followed on the first connection only (section 6).
- `HandlesAreCounted`, `KeptForCallback`, `IsRegistry`, `ChannelsComeBack` but for `disputed` channels: a `Release` whose `Get` came before a
  `Remove` or `Reset` was counted against them (section 6). Of these `HandlesAreCounted` still says that the count is not too high.
- The application calls `SocketManager` from one goroutine at a time (`Serial`) and releases what it got. In that module the contexts given to `Connect` do
  not end, and dialling and starting the loop are one step; `SocketChannel` and `Connection` have both.
- `LeasedIsHeld`, `HandledOnce` while no request failed, no context ended and `Reset` took no credentials: the worker
  ignores the errors of `Ack` and `Nack`, and `JobsGetDone` shows what remains true then. After `Reset` the model gives
  no credentials back, so nothing is said of a client used again.
- `MessagesSettle` unless the channel stays paused or a handler waits for itself (`Blocked`).
- `NestingIsPaid`, `RenewalDialsAnew` while `AutoAuthenticate` is on, there is an auth URL or a token request, and no
  `Reset` has begun (`Renews`): otherwise `Authenticate` returns nil without a token (section 6).
- `ListenersReturn` unless the call is given tokens without end, or the model's bound on them is met (`BeyondBounds`): a token that is
  issued with less life left than the refresh buffer starts the next authentication at once (`auth/manager.go:216-219`, `connection.go:55`).
- `ResetForgets` of the token that was held when `Reset` was called; one whose answer was on its way may be held afterwards (section 6).
- `IsRegistry` (in `Drop`), `KeptForCallback` unless a late `UNSUBSCRIBED` wiped a channel (`stale`).
- `CallsReturn` unless a catch-all update has locked `c.mu` twice; `CatchAllReturns` without that excuse is violated.
- `ReconnectRestoresSubscription`, `ChannelsComeBack` for channels with callbacks, on a connection
  that lasts; the former if the server refuses nothing.

## 4. Proofs

TLAPS proves these for every value of the constants, from the constants' assumptions only
(`ChannelAssumption`, `DeliveryAssumption`, ...: the bounds are naturals, the sets of goroutines are
disjoint; `Threads` in `Connection` may be infinite; `Users` of `SocketManager` is finite, because its theorem counts them).
Every invariant a run checks is proved.

| theorem | says | argument |
|---|---|---|
| `SocketChannelProofs!TypeCorrect` | `[]TypeOK` | one lemma per group of actions; all moves of goroutines share `MovesTypes` |
| `SocketChannelProofs!ViewCorrect` | `[]ViewAgreesWithServer` | `ViewInv`, below |
| `SocketChannelProofs!ChannelHears`, `PendingIsNotLeft` | `[]NeverDeaf`, `[]PendingIsAnswered` | `AnswerInv`, below |
| `ChannelDeliveryProofs!NothingStranded` | `[]BufferOnlyWhilePaused` | inductive as it stands: each critical section that stops pausing also takes the buffer |
| `ChannelDeliveryProofs!DeliveryTypes`, `ChannelKeepsPromise` | `[]TypeOK`, `KeepsPromise` (`ChannelDelivery` implements `MessageBox`) | `Inv`, below |
| `ChannelDeliveryProofs!OnlyBufferedOvertaken` | `OvertakesBuffered` | `Ordered`, below |
| `ConnectionProofs!TypeCorrect` | `[]TypeOK` | one step per action |
| `ConnectionProofs!OneReconnector` | `[]SingleReconnector` | `SingleInv`: with the types, and that nobody is inside `Reset` before the first one is counted |
| `ConnectionProofs!BudgetKept` | `[]DialsWithinBudget` | each step adds at most one goroutine to `Spent`, and only `TryReconnect`, which counts; finiteness of `Spent` from `Ids` |
| `ConnectionProofs!LiveSocketsAreRead` | `[]LiveSocketIsRead` | `LiveInv`, below |
| `ConnectionProofs!LossesAreHandled` | `[]LossIsHandled` | `LossInv`, below |
| `PingProofs!TypeCorrect`, `ReadersNeverBlock`, `WaitersAlwaysDiffer` | `[]TypeOK`, `[]ReaderNeverBlocks`, `[]WaitersDiffer` (which no run checks by itself) | `PingInv`, below |
| `PingProofs!LeaksAreAbandoned` | `[]NoEntryLeaks` | `LeakInv`: the orphans are finite and counted; a step leaves at most one, and then counts it |
| `QueueWorkerProofs!OneWorker` | `[]SingleWorker` | `m.running` and the labels, in one critical section each |
| `QueueWorkerProofs!StopIsGraceful` | `[]LeasedIsHeld` | `GracefulInv`: a worker outside its batch has none left, and while nothing failed every leased job is in a batch |
| `QueueWorkerProofs!WorkerTypes` | `[]TypeOK` | with `HandsFull`: the job in a worker's hands is of its batch |
| `QueueWorkerProofs!DoneOncePerRetry` | `[]HandledOnce` | `OnceInv`, below |
| `SocketManagerProofs!ManagerTypesHold`, `CountsAreRight` | `[]TypeOK`, `[]HandlesAreCounted` | `MapInv`, below |
| `SocketManagerProofs!WantedIsFound`, `NothingIsLeft` | `[]WantedStaysMapped`, `[]KeptForCallback` | `KeptInv`, below |
| `SocketManagerProofs!ManagerIsRegistry` | `IsRegistry` (`SocketManager` implements `Registry`) | `MapInv` and `KeptInv`, below |
| `AuthManagerProofs!TokenAlwaysTimed` | `[]TokenIsTimed` of the authentication alone | `TimedInv`: the types, and a `setToken` under way is about a real token |
| `AuthClientsProofs!RenewalTypes`, `RenewedTokenTimed` | `[]RenewalTypeOK`, `[]TokenIsTimed` | the lemmas of `AuthManagerProofs`: every step of the composition is one of the manager, an `Invoke`, or leaves it alone |
| `AuthClientsProofs!TimerDialsAnew` | `[]RenewalDialsAnew` | `RenewalInv`, below |
| `AuthClientsProofs!NestingCostsTokens` | `[]NestingIsPaid` | `NestInv`, below |
| `AuthClientsProofs!RestTypes`, `RestTokenTimed` | `[]RestTypeOK`, `[]TokenIsTimed` | the same lemmas; a change of the options does not touch the token |
| `AuthClientsProofs!ResetDropsToken` | `[]ResetForgets` | `HeldInv`, below |
| `AuthClientsProofs!MergeIsAssociative` | merging two partial options at once or in turn is the same | pointwise |

`ViewAgreesWithServer` says nothing while an answer is on its way, so a step that reads the last answer
could break it. `ViewInv` adds that the last answer in the present inbox tells what the server holds (`LastAnswerIsServerState`); that a connection whose own
loop ran `onClose` has nothing left to read (`ClosedIsQuiet`), so that no frame of an old connection comes late; that once all loops are down nothing
is believed (`BeliefEnds`), which is what the next connection starts from; and that no loop or socket is in use before its `Connect` (`FutureIsBlank`).
A `Connect` over a working socket makes `Settled` false; what makes it true again is the old loop's `onClose`, which clears `subscribed`.

`PendingIsAnswered` is about a connection that works, but the flag may have been set before there was one. `AnswerInv` carries
it over: it says the same while all loops are down (`Awaited`); that then the channel is marked with `reconnectPending` (`ClosedIsMarked`), so a
SUBSCRIBE lost with its socket is excused; and that before the first loss nothing is resubscribed and no loop has ended (`FirstConnection`), so only an
UNSUBSCRIBED, read last, clears `subscribed`.

`ChannelKeepsPromise` maps every step of the code to a step of the box or to a stutter. A handler may be handed a message only
if it waits and that handler had it not, and a message may go only if all the handlers it is due to had it. `Inv` says why:
a message is in the buffer or in one goroutine's loop, once (`EachOnce`), and is no newer than what arrived (`Known`); nobody
was handed what no goroutine has begun (`Fresh`); of the message a goroutine has begun, each due handler had it or is still in the
copy it walks through (`AllHalfway`); a handler runs on the goroutine that holds `handlerSerial` (`Serial`); and the handlers
stand as they were, or are gone and everything that waits is excused (`HandlersStand`).

`OvertakesBuffered` is about pairs of messages; `Ordered` says where they are: the read loop has the newest messages, oldest
first, and whatever any other loop, or a `Resume` in a handler, has in hand was buffered. So an older message that comes late
was buffered.

`LiveSocketIsRead` speaks of the moments when no `Connect` is under way. In between, `WillBeRead` says that the open socket is read
or that somebody is about to start a loop on it or to close it: each thread that can cancel the loop (`CancelOldLoop`, a later
`SetReadCancel`) is such a somebody. For this the number of a new loop must be fresh (`LoopsAreNumbered`), and there must be one
(`LoopsAreDialled`: a dial starts one loop at most).

`LossIsHandled` is the safety half of `LostSocketIsReplaced`: nobody may drop a lost socket in the belief that another goroutine has it.
When it is lost, `LiveSocketIsRead`'s invariant names who sees it. From there it is handed on, to `onClose`, `tryReconnect`, `Connect`;
the only step that lets go is a `tryReconnect` that finds `isReconnecting` set. Then somebody does reconnect (`FlagIsUsed`), and has not
dialled yet: what he dialled would be the present socket, and its loss would be the excuse `overlaps` (`NewSocketHolds`).

`ResetForgets` is about a token that was held, perhaps long ago. It cannot come back because a token is set by one `setToken` only (`FreshInv`),
and it has been set before it was held. `HeldInv` says so of every token that is held, that was held when a `Reset` that is still under way began, or that has
been forgotten (`HasBeenHeld`); and between the manager's part of a `Reset` and the options' the token it found is gone.

`RenewalDialsAnew` compares the token a frame read with the one whose timer started it. It needs to know that
the renewal has replaced the token before it asks. `FreshInv`: a token is set by one `setToken`, which arms its timer
once, so when that timer has fired no `setToken` can bring the token back. `DialInv` follows the timer's own
frame from `Connect` to `Dial`: once its `Authenticate` has set a token or succeeded, the current token is not the
timer's, and once it has read the token, what it read is not either.

`NestingIsPaid` counts frames; `NestInv` says what each has cost. A frame around another stands at an announcement
(`Nested`), and while `Connect` authenticates it comes to one only with a token issued to it (`Paid`): by then its
`Authenticate` has set one or has returned without an error (`WellPlaced` says where in the manager a `Connect` can
be). A token pays for one `Connect` (`AllPaid`), so at most the innermost frame of a goroutine is unpaid.

`HandledOnce` bounds the successes of the handler. `OnceInv` adds to them the chances a job still has: one while it
waits at the service, one while a worker holds it and has not succeeded with it. Without faults (`Calm`) a pull moves a chance from the
service to a worker, and only `RetryJob` creates one, which raises the bound as well.

`ReaderNeverBlocks` is not inductive: why is the slot free when the read loop comes to it? Because an
id is in one place only: in the table, in the hands of one read loop, or in a full slot
(`OnePlace`), and no id is larger than the counter (`IdsWereCounted`), so a new one is nowhere yet.

`HandlesAreCounted` compares a counter with a set of goroutines. `MapInv` adds why a `Release` that has looked at the count
can still trust it two steps later: no other goroutine of the application is in the manager (`OneManages`), so the one that
lets go remains the only holder, unless the channel is disputed (`LastHolder`). An object is mapped by its own name or not at all (`Named`); one that
was not dropped and is held is mapped or disputed (`HandlesMapped`), and nothing is disputed before something was dropped (`DroppedFirst`); one that was dropped is not
mapped, but within a `Reset`, when all that is mapped was (`DroppedIsGone`). That makes a stray `Release` lower a count, never raise it, so it remains at most the
number of holders.

`WantedStaysMapped` fails if `Release` takes out a channel that somebody wants. `KeptInv` says that what is wanted and not disputed has a callback
(`WantedInv`), which `ReleaseLooks` therefore sees and keeps; what it found without one stays unwanted until it is deleted
(`LetGoUnwanted`), since only a holder could want it and the last one is inside `Release`. Answers interleave with all of it: an
UNSUBSCRIBED that removes callbacks somebody wants again makes the run `stale`, as the premise says.

`ManagerIsRegistry` has one lemma per call. A `Release` that deletes is a `Drop`: the one inside it is the sole holder (`LastHolder`),
and what it deletes is unwanted (`LetGoUnwanted`); its steps before that are not seen. If the object is disputed it is a `Lose`, and when the name is not of
the object that was got, the first step of the `Release` is the `Dispute`, after a removal because of `DroppedFirst`. Outside a `Reset` nothing that is mapped was dropped
(`DroppedIsGone`), so the map is the registry's; inside one the registry is empty already, and nobody holds anything. No run checks
`WantedStaysMapped` by itself, because `Drop` says it of every step.

**Model-checked only.** All liveness properties: TLAPS does not reason about `ENABLED`, and so not about fairness.

## 5. Where code and documents disagree

Four runs show a disagreement, listed under `findings` in `PROJECT.json` with its lines:

1. `channel_catch_all` - the catch-all update locks `c.mu` twice (`channel/socket.go:139`).
2. `conn_dial_fails` - a failed dial ends the reconnection (`connection/connection.go:206`).
3. `conn_reset` - after `Reset` the read loop it ended dials again (`connection/connection.go:302`).
4. `queue_stop_twice` - a second `StopWorker` closes a closed channel (`queue/manager.go:359`).

## 6. Behaviours met on the way that no run asserts

These follow from the same modules; the checked properties are stated so that they hold in spite of
them. They are the first candidates for discussion with the maintainers.

- Two first event subscriptions that overlap both send SUBSCRIBE (`channel/socket.go:127`).
- `processOperationQueue` runs one operation per answer; what is queued behind an operation that sends
  nothing waits for an answer that does not come (`:499`).
- A queued operation taken off the queue before `Reset` runs after it (`:505`).
- A `Connect` over a working socket (the application's, or the listener's at `connection/connection.go:55`) cancels the old read loop. If that
  loop leaves at `:125`, nothing marks the channels: they stay `subscribed` on a connection where the server has nothing, a `Subscribe` in flight
  keeps `pendingSubscribe` for good, and no reconnect restores them, because `NeedsResubscribe` is false.
- If it runs `onClose` instead, that may come after the resubscription: channels that have just been subscribed are marked as not subscribed and
  pending, until the SUBSCRIBED arrives, or for good if it was read before; or the resubscription has passed them unmarked.
- Between two overlapping `Connect`s `startReadLoop` may find the other's socket (`:117`), so two loops read it, or none the first.
- A `Release` by name after a `Remove` or `Reset` counts against the channel others got since (`channel/socket.go:615`): it may be reset and deleted
  while they hold it, and their own `Release`s then find no count.
- `Resubscribe` copies the callbacks, unlocks, stores the copy (`:310-331`): handlers changed meanwhile
  are lost or come back; it clears `pendingUnsubscribe` under an UNSUBSCRIBE in flight, whose answer
  later wipes what was subscribed since.
- `onClose` marks channels without callbacks as pending too (`:92`); their next event `Subscribe` adds
  a handler, sends nothing and returns nil. The same follows from a `Subscribe` that timed out (`:303`),
  since `pendingSubscribe` stays set.
- The UNSUBSCRIBED of an earlier channel of a name wipes the callbacks of the present one (`:434`).
- A socket lost while the reconnecting goroutine still resubscribes is not replaced: its `tryReconnect`
  finds `isReconnecting` set (`connection/connection.go:187`).
- A reconnecting goroutine in its backoff dials after `Disconnect` (`:205`).
- If the connection is lost while an UNSUBSCRIBE is unanswered and nothing is resubscribed, `pendingUnsubscribe`
  stays set for good and every later `Subscribe` is queued and returns nil (`:116`).
- A message handler that calls `Resume` while messages are buffered waits for `handlerSerial`, which it holds (`:549`).
- `Pause` emits its event while it holds `c.mu` (`:374`): a listener that calls the channel waits for itself.
- An overlapping `Subscribe` of an event may add its callback after an UNSUBSCRIBED (`:123`), or after a `Resubscribe` that
  found no callbacks and cleared `subscribed` (`:314`), and return nil: the channel stays deaf to it.
- The timer of the previous token, fired but not yet run, clears the new token (`auth/manager.go:224`).
- An `Authenticate` or `RequestToken` whose answer is on its way when `Reset` is called does not see it and stores a token
  afterwards (`:114`), although `rest.go:48` says "Reset clears client state". `ResetForgets` says what does hold.
- A server that keeps issuing tokens with less than the refresh buffer of life left keeps `setToken`, `Connect` and `Authenticate` calling each other
  (`auth/manager.go:216-219`, `connection/connection.go:55`): the recursion has no bound.
- A refresh timer announces the expiry, on which `Connect` stores a *new* token, and then clears that one and stops its
  timer (`auth/manager.go:223-224`); `GetToken` on an expired token does the same (`:183-184`).
- With `AutoAuthenticate` off, or with an API key only, `GetToken` on an expired token announces it, `Connect` asks for it
  again, and so on without end (`:183`, `connection/connection.go:55`).
- `AuthTokenUpdated` has no listener; `AuthTokenError` and `AuthError` are never emitted, so `handleAuthFail` has no caller.
- `Authenticate` takes the retries and the token request of one moment, the auth URL of another (`auth/manager.go:75`, `:122`);
  `RequestToken` builds its URL of the options of now for a token request of then (`:372`).
- A `Set` or `Reset` between the headers and the URL of a request sends a credential to the other account's host
  (`channel/rest.go:38` and `:53`, the same in every call of `queue/manager.go`).
- `Set` cannot take back a port or any other field, and always overwrites `Debug` (`option/option.go:210`).
- `Rest.Reset` stops the worker without waiting (`rest.go:51`): the answers it still owes fail in the client, and its jobs
  are handed out again when their leases end.
- A job cancelled and retried while a worker holds it is leased, and done, a second time.
- The map of REST channels has no lock (`channel/rest.go:82`); `Emitter.Off` never removes anything
  (`internal/emitter/emitter.go:36`).

## 7. Plan

Done, in this order of importance: SocketChannel, Connection, ChannelDelivery with MessageBox, Ping,
QueueWorker, AuthManager, SocketManager, TokenRenewal, Options with RestClient; the proofs of section 4.

Next, modules:

1. **SocketSession** - channel, manager, connection and authentication under `Socket.Reset`, composing the
   present modules by `INSTANCE`.
2. **Subscription** - an abstract subscription (what a caller may conclude from a call that returned nil),
   which `SocketChannel` is to implement on the executions where it does.
3. Lifecycle listeners that call back into the channel; the application's simultaneous calls of
   `SocketManager` as far as they are defined.

## 8. Not modelled

Protocol types and their conversions (`protocol/`), JWT decoding and signing, API key and HMAC helpers, ids, logger:
pure functions on strings, or no state that interleaves. `RestManager`'s map is a cache of stateless objects. `Emitter.On` runs at
construction, and `Off` removes nothing. `OptionFunc`s and the reading of a partial `Option` at construction are in the
constant `Given`. `Publish` and the metadata getters of a channel change no state. `ResubscribeAllChannels` has no caller; `Has`
and `All` only read. Data races on the maps of `SocketManager` and `RestManager` are undefined behaviour of Go (a crash): the first is
excluded by `Serial` and by taking each access as one step, the second is not modelled. Examples and test helpers are not part of the program.
