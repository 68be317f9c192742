# Verification of foundation-framework

TLA+ models of the framework's own logic, the TLC runs that check them on small
instances, and proofs, checked by TLAPS, of what holds for every instance. All
paths are relative to the repository (`src/...`) or to this directory.

Contents: 1 the system, 2 the modules, 3 the runs, 4 fairness, 5 the proofs,
6 where the code departs from what it says, 7 what is not modelled, 8 the plan,
9 how to run everything.

## 1. The system

foundation-framework is a Go library that services link in: a thin layer over
go-zero, GORM, RabbitMQ, Redis, Consul, Nacos and xxl-job. It has no process of
its own; each *instance* of a service runs its goroutines, and instances meet in
Redis, the database, the broker and the registries.

| Component | State it keeps | Operations | Hard behaviour |
|---|---|---|---|
| Distributed lock, `redis/redis.go` | `lock.state`; the key in Redis and its TTL; one `renewLock` goroutine per acquisition | `Lock`, `LockWithContext`, `TryLock`, `Unlock`, the `...Func` wrappers | time (500 ms TTL before `SetExpire`, 60 s after, renewal at 50 s), lost answers, deaths, a renewer racing `Unlock`, nesting |
| Transactions, `orm/gorm.go`, `orm/trans.go` | the GORM transaction; `CommitListener` | `DoWithListener`, `Commit`, `Rollback` | refused commits, panics |
| Transactional outbox, `rabbitmq/rabbitmq.go`, `transactional_msg.go`, `po.go` | rows of `transactional_msg`; `Client.state`; the retry lock | `SendMessageInTransaction`, `SendDelayMessageInTransaction`, `rabbitMqMessageRetrySend`, `deletedTransactionalMsg`, `Close` | crashes between commit and send, outages, refusals, two instances retrying, old rows purged |
| Publishing with confirmation, `rabbitmq/rabbitmq.go` 590-713 | the channel, `confirmOne` goroutine, its `confirms`, `returns`, `close` channels, `errChan` | `DoPublish`, `NotifyPublish`, `NotifyPublishDelay`, `DoNotifyPublish` | confirmation before the registration for it, return and ack together, loss of the channel in every gap |
| Consumers and dead letters, `rabbitmq/listener.go`, `dead_msg.go` | rows of `dead_msg` with `RetryCount` | `doStartListener`, the dead-letter listener, `rabbitMqDeadMessageRetrySend`, `RegisterListener` | redelivery, panics, stale rows written back, several retriers, listeners that are registered late or not at all |
| RabbitMQ connection, `rabbitmq/rabbitmq.go` 295-389 | `Conn.Connection`, its mutex, a watcher per connection | `newConn`, `reConnect`, `GetChannel`, `GetChannelUntilSucess`, `RegisterListener`, `Close` | everybody reconnects at once; a loss nobody hears of |
| xxl-job executor, `xxl/executor.go`, `task.go`, `task_list.go` | `regList`, `runList`, and one shared `Task` per handler | `/run`, `/kill`, `/idleBeat`, `callback`, `Task.Run` | runs of one handler share a Task; callbacks after cover or kill |
| Registration, `reg/consul/register.go`, `reg/consul/plugin.go`, `xxl/executor.go` 266-328 | a heartbeat goroutine and its timer; the registry's entry and TTL | `RegisterService`, `RegisterPlugin.Register`, `registry`, `registryRemove` | TTL against timer, outages, a registry that forgets, a heartbeat after the removal |
| Discovery, `reg/consul/consul_discovery.go`, `reg/nacos/nacos_discovery.go` | `pairs`, `chans`, goroutines that announce | `NewDiscovery`, `watch`, `GetServices`, `WatchService`, `RemoveWatcher`, `Close` | servers that lag behind, announcements out of order, reads without the lock, full channels |
| JSON-RPC client, `jsonrpc/jsonrpc.go` | `RoundRobinSelector.index` | `Call`, `Selector`, `GetRequestContext` | the index is read, written and read again by all callers without a lock, over a list that may shrink |
| HTTP middleware, `handler/handler.go`, `http_result.go`, `common/security/context.go` | users cached in Redis, asked for under a lock; the context of each request | `Resolve` of three middlewares, `getUserInfo`, `Response`, `ExceptionFail` | a second look into the cache, a lock that is lost on the way, panics under the lock, two types under one context key |
| Errors, `err/biz`, `err/comm` | none; an error is a chain of causes | the constructors and wrappers, `IsBizErrorOrCause`, `ErrorInterceptor` | an error that is wrapped and sent on through several services must show its code and message in the end |
| gRPC resolver for Nacos, `reg/nacos/builder.go`, `resolver.go` | an unbuffered pipe from the callback to `populateEndpoints` | `Build`, `CallBackHandle`, `Close` | a subscription that fails, a callback while `Close` runs |
| Log files of jobs, `xxl/log_handler.go` | files by day | write, page, clear | clearing races writing |
| The rest: configuration, DTOs, utilities, Shenyu registration, start and stop | none, or set once | | boundaries of `SplitArray` and `NewPage` |

How they interact:

* The outbox and the dead-letter retries run their jobs under the **lock**
  (`TryLockFunc`), and the log files and the user cache use it too. What the lock
  does not guarantee, they have to bear: the runs `outbox_faults` and
  `dead_faults` take a lock that expires under its holder, which `RedisLock`
  shows is possible.
* The **outbox** is the `CommitListener` of a **transaction**, and sends with
  `DoNotifyPublish`, whose verdict deletes the row. `ConfirmedPublish` shows what
  that verdict is worth, and `Outbox` uses exactly that: the broker may refuse a
  message, a confirmation may be missed, a returned message may be reported as sent.
* Publishing, consuming and retrying take channels from the **connection** and
  meet its losses at any step.
* **Dead letters** are what a **consumer** rejects; the retry job calls the
  consumer's listener again through `QueueNameListenerMapping`.
* An **executor** keeps itself **registered** while it runs jobs; **discovery**
  lists what **registration** keeps alive; JSON-RPC and gRPC clients call those.
* An HTTP **request** passes the middlewares, which share the user cache and its
  **lock**, to a handler that may call a service through the **JSON-RPC client**
  with the context it was given; its **error** becomes the answer.

What makes each correct, in a sentence (the modules state it precisely):

* Lock: one function of a key at a time; a key does not outlive its holder.
* Outbox: only messages of committed transactions are sent, and each of them
  reaches the broker in the end.
* Publishing: the verdict is true, the caller and the listener get it.
* Dead letters: no message is lost, none is given up before its retries, none
  retried after it was settled.
* Connection: no loss goes unnoticed and nobody throws away a healthy connection.
* Executor: runs of a job do not overlap, each gets its own parameters and is
  reported as itself, and a job that ended can run again.
* Registration: who runs and can be heard stays listed; who was dropped returns; who
  is gone does not stay.
* Discovery: what is shown was the registry's, is no older than what every server
  knew when the list before was shown, and is current in the end.
* Requests: the user of a token is asked for once, the handler and the services it
  calls see that user, calls are spread over the nodes, an error is shown as it was
  made, and everybody is answered.

## 2. The modules

Each component has a module that EXTENDS only standard and community modules, an
`MC...` module with the values TLC needs, and a `...Proofs` module. Four abstract
specifications state what a component promises, and the detailed one implements
it by `INSTANCE ... WITH`. `Requests` composes three components: it has their
variables, and its steps are theirs, with what they leave alone UNCHANGED, or
steps that two of them take together.

| Module | Models | State and actions, and the code they stand for |
|---|---|---|
| `RedisLock` | `redis/redis.go`, and the two scripts of go-zero's lock as the code uses them | The key is `owner` and `ttl`; each lock object has `state` (l.state), `expire` (the seconds go-zero's lock was given), the `pc` of its current call, the `depth` of the functions it runs, a deadline in `wait`, and its `renewLock` goroutines in `renewer`. `AcquireOk`, `AcquireBusy` or `AcquireErr`, `Enter` (SetExpire, the state, `go renewLock`), `Return` of the function, `Release` and `ClearState` are the steps of the Lock/TryLock/LockWithContext paths in program order; `Wake` and `Renew` are renewLock; `Tick` is time; a call may fail before or after Redis did it; `Crash` ends a process. Clients of different kinds share the key: each has its method (`Path`), how deep its calls nest (`Depth`), which of its calls may fail (`Faults`), whether its function may be long and its process may die |
| `PublishOutcome` | the promise of a publication: one true verdict, told once | `taken` messages and the `verdict` told; `Take`, `Hear` |
| `ConfirmedPublish` | `DoPublish`, `DoNotifyPublish`, `confirmOne` | One `pc` for the caller, one for the goroutine, the three notification channels and `errChan` as buffers; the broker (which takes, refuses or returns) and the loss of the channel are actions between any two steps; `crashed` is the process that a send on a closed channel ends |
| `TransactionalDelivery` | the promise of the outbox | the messages `owed` and `delivered`; `Commit`, `Deliver` |
| `Outbox` | `orm`, `SendMessageInTransaction` to the purge | A transaction's steps, `row` of each message, attempts in `Slots` for each publication under way (its steps are those `ConfirmedPublish` allows: `Take`, `SendBack`, `Nack`, `HearYes`, `HearNo`), the round of the retry job step by step in each instance (`TryLock`, `List` of at most `BatchLimit` rows, `SendNext`, ...), purge, `Close`, crash and restart, the broker's outages |
| `DeadLetters` | the consumer, the dead-letter listener, `rabbitMqDeadMessageRetrySend` | `place` of each message, the rows of `dead_msg` (`msgOf`, `count`, `state`), who is `listening` (`Register` is `RegisterListener`, at any time after the start), each instance's round with at most `BatchLimit` rows *as it listed them* (`batch`, `snap`: the code writes back the listed value), redelivery, crashes |
| `XxlExecutor` | `/run`, `/kill`, `callback`, `Task.Run` | `regList`'s Task per handler with its `Id`, `Param`, context; `runList`; a dispatch's steps under the mutex, `Admit` (the checks and the new context), `SetId`, `SetParam`, `List`, `Launch` and `Accept`, apart because goroutines read the Task's fields without it; the goroutine's, `ReadContext`, `Start`, `Return`, then `Delete` and `Post` of the callback. `followed` is a history variable: which dispatches were admitted between a callback's `Delete` and its `Post` |
| `SharedChannels` | the promise of the connection to those who have taken a channel | whose channel is `working`, and how often the connection `breaks`; `Take`, `Break` |
| `RabbitConn` | `newConn` to `GetChannelUntilSucess`, `doStartListener` up to delivery | connections in the order they are made, a watcher each, the mutex of `reConnect`, users that take channels, goroutines that retry |
| `Registration` | the three ways a process registers | an `entry` and its `life` in the registry; the process's `pc`, its heartbeat goroutine, timer and pending tick; `Register`, `Check`, `Beat`, `Again`, `Deregister` are the calls of the code; `Tick` is a second |
| `ServiceList` | the promise of a discovery | the version `listed`, the `replica` of each server, what is `shown`, and what the server furthest behind had `since` it was shown; `Change`, `CatchUp`, `Show` |
| `Discovery` | the discoveries of Consul and Nacos, and the gRPC resolver (`reg/nacos/builder.go`, `resolver.go`) | `source` says which it is; any of the `Servers` answers with its `replica` (`AllowStale: true`), so that an answer may be older than the last; `pairs`, what the loop or the callback got, one channel per watcher, and announcing goroutines that read `pairs` in two steps (a Go slice is copied word by word, and the read is not under the lock) |
| `UserCache` | the three middlewares of `handler/handler.go`, `security/context.go` | Each request's `pc` from the first look to the handler; `cache` and the `holder` of the lock of each token, and who goes on `renewing` it; the `user` and the `json` the request has, which the code fills separately; its `context`; the `answers` written, of which there may be two. `Look`, `TakeLock`, `LookAgain`, `Ask`, `Store`, `Unlock` are the code in order; `Unwind` and `Recover` are a panic under the lock; `Expire` and `Renew` are what `RedisLock` shows of a lock used through `LockFunc`: its key may expire while the holder renews, since it lives half a second at first |
| `JsonRpcClient` | `Client.Call` and `RoundRobinSelector` | `index`; what each call `read` and the list it was given (`services`); `Begin`, `GetServices`, `Write`, `Pick`, then the context and the post. A node is its place in the list, so a list is its length |
| `ErrorPath` | `err/biz`, `err/comm`, `ErrorInterceptor`, `ExceptionFail` | operators: an error is the sequence of its layers; the wrappers, what gRPC and JSON-RPC make of an error, `Response`. `Shown` says of the journey alone what should come out |
| `Requests` | an HTTP server's requests: `UserCache`, `JsonRpcClient` and `ErrorPath` together | The context of a request is the one its call is given; a panic of the call unwinds to the middleware; the call's error is the handler's, which `Pass` wraps or sends on, and `Respond` answers |

The proofs about `Discovery` are in `RegistrationProofs`, those about `UserCache`,
`JsonRpcClient` and `ErrorPath` in `RequestsProofs`, with those about the whole server.

Abstractions common to all: a message, a job, a node or a list is a model value
or a number; JSON, formatting, logging and addresses are left out, except where
one matters (a body that is no JSON and a payload that a retry encodes
differently are sets of messages, `Plain` and `Recoded`). Code outside `src/`
(Redis scripts, amqp091, the broker, GORM, Consul, Nacos) is modelled from how
the code uses it and marked external in `PROJECT.json`.

## 3. The runs

Each run asks one question. A passing run lists only properties that hold; what
does not hold of the code is in section 6. The bounds are the smallest at which
the case in question happens: two lock objects contend, and the third is the one
that does not keep the rules; two requests race for a lock or an index, and the
third finds what they left; two retries and two rows show every order of listing and writing back; one
crash and one outage at *any* step cover each gap between two steps, and the
proofs of section 5 do not depend on them. One row is listed at a time where there
are two, so that the limit of a hundred rows bites; two servers are enough for one to
be behind the other, and one change for them to differ. Nobody closes a client
in `outbox_faults` and `dead_faults`: without fairness an instance that is closed does
nothing that one which stops cannot do. `dead_faults` takes rows and instances as
symmetric; it has invariants only, and all instances listen.

| Run | Configuration | What it shows |
|---|---|---|
| `lock_careful` | Three objects of one key: a uses `LockWithContext`, its function may be long and its acquire calls may fail; b uses `TryLock`, each of its calls may fail and its process may die; c's calls nest two deep. TTL 2 ticks, renewal every 1: the renewal is a tick before the end, as with 60 and 50 seconds | Functions of the careful clients a and b never overlap, whatever c does (`CarefulExclusion`); a key goes away only by its own object's `Unlock`, its death, or time (`KeyTakenOnlyByOwner`); it is freed after its last use, whatever a renewer does that woke during `Unlock` (`KeyFreed`) |
| `publish_confirmed` | Three publications: one by `DoPublish` that may be refused, one by `NotifyPublish`, and one more by `NotifyPublish` that may be returned; the channel is lost between any two steps | Success is never told of a message that is in no queue and could be routed (`SuccessIsTrue`); the process ends in no other way than by the loss of the channel between `go confirmOne` and the sending of a `DoPublish` whose message never left (`DeathExplained`); the goroutine does not wait for ever once it listens (`ListenerHears`); it implements `PublishOutcome` |
| `outbox_live` | Two messages of a transaction, listed one at a time, a crash, an outage, refusals of the broker, a lock that excludes | Nothing is lost (`NoLoss`), and as long as the instance is not closed for good both messages reach the broker (`CommittedDelivered`), though each round leaves one of them out; it implements `TransactionalDelivery`. With `Instances = {i1, i2}`, `MayClose = {i1, i2}` and `Messages = {m1}`, where one instance closes or dies and the other takes over, the same three hold (not a run of its own) |
| `outbox_faults` | Two instances with a lock that does not exclude, refused commits, a database that fails, refusals of the broker, a crash; one message that can be routed and whose row is young, and an unroutable one whose row lies for a week | Nothing is sent before somebody asked to commit (`SentOnlyAfterCommit`); the first message is not lost, and the second in one of two ways only (`LossExplained`) |
| `xxl` | Handler h1 runs job i alone and twice; handler h2's job j is covered, killed, timed out, and a result of it is never posted | i's runs are serial, listed while they run, with their own parameters and context (`QuietSerial`, `QuietListed`, `QuietOwn`); what they report is under their own log id or, as the callback frees the job before it reads the log id, under one that was admitted in this gap: never an earlier or a refused one (`QuietReports`); jobs alone on a handler leave the list (`AloneFreed`), though runs of both handlers panic (`MayPanic`) |
| `dead_live` | Two instances that register their listeners late and of which one may close its client, a lock that excludes, a lost channel, a crash, two rows listed one at a time, two retries | Every message is consumed or given up in the end (`Settled`), retries are bounded and only of live rows (`RetriesBounded`, `RetriesLive`) |
| `dead_faults` | As before with a lock that expires under its holder, so that both instances call the listener for the same rows with counts that are out of date, a database that refuses writes, panics | No message is lost (`NoLoss`); no row is given up before its retries (`GivenUpLate`) |
| `conn` | A consumer, a publisher and two retrying goroutines on three connections, one loss, `Close` | No closed connection goes unnoticed (`LossNoticed`); a channel works until the connection is lost or closed, however many goroutines reconnect meanwhile: it implements `SharedChannels` (`ChannelSpec`); listeners receive again (`ListenersReturn`) |
| `registration` | A service (TTL 3), a plugin (TTL 1) and an executor (TTL 2), an outage, a registry that forgets, crashes | Who runs and was heard since the last trouble stays listed (`HealthyListed`); who was dropped is listed again (`Relisted`); who is gone is off the list in the end, though nobody stops its heartbeat goroutine (`GoneUnlisted`) |
| `discovery` | Consul, Nacos and the gRPC resolver, two servers of which either may lag and either may answer, a change of the list, a failing call, a channel of one place, two announcing goroutines, `Close` | What is shown implements `ServiceList` (`ListSpec`) and is current in the end (`CaughtUp`); a watcher of Consul's holds the current list in the end, whatever order the announcements came in (`WatchersCaughtUp`) |
| `requests` | Three requests of one server together, in one of six mixes (`Together`): with the same token, with handlers that call a service over a list of one or two nodes that changes once, without a token, and with an error that is wrapped or sent on up to three times. One failure or lost lock | The user of a token is asked for once, and once more for each failure (`OneFetch`); the handler and the services it calls get that user, up to named exceptions (`UserTrue`); the selector leaves its list only in a call that was overtaken (`PanicExplained`) and spreads the calls up to what overtaking undoes (`Balanced`); the answer shows the code and message of the last biz error on the way (`ErrorShown`, here for ways of up to three steps, in section 5 for every way); every request is answered (`Answered`) |
| `lock_expires_early` | `Lock` and `TryLock` with functions longer than a tick | Violates `MutualExclusion`: see section 6 |

Bounds that no code has: `Slots` (goroutines of one object, attempts of one
message), `Room`, `Depth`, `MaxCrashes`, `MaxOutages`, `MaxLosses`, `MaxTries`, `Rows`,
`MaxConns`, `Retriers`, `Senders`, `MaxChanges`, `MaxErrors`,
`MaxForgets`, `MaxTroubles`, `MaxNodes`, and `steps` of a request in `Mixes`. They
bound the environment, or how many goroutines of one kind there are at a time;
a guard that would need one more waits. Every property has a mutant in
`PROJECT.json`, a change of the code's model like a plausible bug, that
breaks it within the same bounds: the cases are reached. Types are an invariant of
`requests` only: elsewhere the proofs show them (`TypeCorrect`).

`CHECK_DEADLOCK FALSE` is set everywhere, because every component may really come
to rest: all calls were made, a client was closed, the bounds of the environment
were used up.

## 4. Fairness

* A goroutine that can take a step takes it (weak fairness for the steps of each
  goroutine): Go's scheduler is preemptive, and calls to Redis, the database and
  the registries end, since their clients have timeouts. Calls *of* users
  (starting a transaction, publishing, dispatching, signals, deaths) have no fairness.
* Time passes: weak fairness of `Tick` in `Registration`. In `RedisLock` calls that
  take no time may disable it over and over, so that weak fairness is not enough:
  there are endlessly many ticks, unless the system comes to rest with no key and
  nobody asleep (`<>[]~Timed \/ []<><<Tick>>_vars`).
* `XxlExecutor`: a request that holds the executor's mutex goes on to its end
  (`Proceed`), and functions of handlers return; nothing obliges the scheduling centre to
  dispatch or to kill.
* `Requests`: the steps of each request (`Works`, `Handles`) go on, since Redis, the
  user service and the called service answer or fail; a key that nobody renews
  expires (`Lapse`). Nothing is obliged to fail (`LockFails`), and nobody is obliged
  to renew. The one exception of `Answered` (`HeldForEver`) is a request whose token
  some earlier request, which has left the middleware's locked part, could not unlock and
  renews the key of for ever.
* `SF` of `TryLock` in the retry jobs: an instance tries every minute, the lock
  is free again and again, and sooner or later it is the one that gets it. Without
  it an instance that never wins could starve, which matters only where the other
  one cannot do the work.
* An outage ends, a dead instance of `Outbox` is restarted, each server of the registry
  catches up, an instance of `DeadLetters` that has a listener registers it. The broker
  may refuse a message now and then, but takes or returns one that is offered again and
  again (`SF` of `Take` or `SendBack`), and a confirmation of it is heard in the end. None of the liveness properties holds without these, and
  none of them says how long it takes.
* Listeners end (by success, error or panic). `CommittedDelivered` has its own
  hypothesis, that some instance is not closed for good.

## 5. The proofs

TLAPS checks every theorem for all values of the constants, under the assumptions
that each module states in its `ASSUME`. Lemmas come first, the step lemma has one
case per action, and each theorem combines them with PTL.

| Theorem | Under | Argument |
|---|---|---|
| `RedisLockProofs!TypeCorrect`, `OnlyOwnerTakesKey` | nothing | `TypeOK` is inductive; the steps that take a key are listed |
| `CarefulExclusionHolds` | nothing; the properties are about `Careful` clients: their calls do not nest, and one whose function may be long uses `LockWithContext` and only its acquiring may fail | `LockInv`: a careful object inside owns the key with time left, asked for the long expiry before it could win, its state is 1 while its function runs, and if it is long a renewer sleeps that wakes before the key expires. The others may do anything the code lets them. Without any of the conditions the property fails (section 6) |
| `ConfirmedPublishProofs!TypeCorrect`, `SuccessIsTrueHolds`, `DeathExplainedHolds`, `ImplementsOutcome` | nothing | `PublishInv` relates what is on its way (on the wire, in the three channels, in `errChan`) to what the broker did, and where caller and goroutine can be when the one closes `errChan` to what the other still has to send |
| `OutboxProofs!TypeCorrect`, `SentOnlyAfterCommitHolds`, `LossExplainedHolds` | nothing | `OutboxInv`: a message's row follows its transaction, a verdict on its way is the broker's |
| `NoLossHolds` | `Assumed`: commits are not refused, messages can be routed, no row lies for a week (`Slow` is empty) | from `LossExplained`'s invariant |
| `OnlyCommittedSentHolds`, `ImplementsDelivery` | commits are not refused | the refinement to `TransactionalDelivery`, step by step |
| `XxlExecutorProofs!TypeCorrect`, `QuietSerialHolds`, `QuietListedHolds`, `QuietOwnHolds`, `QuietReportsHolds` | nothing; the properties are about handlers left alone ("quiet") | `ExecutorInv`: whose fields a Task holds in each step of a dispatch, what a listed job's Task is, what each run was given. For reports `QuietFollowed`: while a callback has still to report, the log id it will read, and the one a dispatch is about to write there, are its own or have followed it |
| `DeadLettersProofs!TypeCorrect`, `GivenUpLateHolds` | nothing | `DeadInv`: what each round listed, read and counts (`Rounds`, `Counts`), where each message is kept (`Keeps`). The listed counts may be stale, and are never too high |
| `NoLossHolds` | explicit acknowledgement, a dead-letter queue | `Keeps` |
| `RetriesBoundedHolds`, `RetriesLiveHolds` | `Orderly`: the lock excludes, the database writes, listeners return | `RetryInv`: one instance is in a round, its counts are up to date, every retry is counted, about to be, or lost in a crash |
| `RabbitConnProofs!TypeCorrect`, `LossNoticedHolds`, `OneConnectionHolds`, `HealthyKeptHolds` | nothing | `ConnInv`: who dials has seen the connection closed, every open connection has its watcher, no other is open |
| `ImplementsChannels` | nothing | the refinement to `SharedChannels`: a channel is one of a connection that has been made (`ChannelsMade`), so the one that `Dial` makes has none yet, and the one it replaces is closed; only `Lose` and `Close` end a channel |
| `RegistrationProofs!TypeCorrect`, `HealthyListedHolds` | nothing; the property is about TTLs that leave room for a heartbeat | `RegistrationInv`: the next tick of a node's timer comes before its time is up |
| `DiscoveryTypes`, `ListSpecHolds` (in `RegistrationProofs`, about an instance of `Discovery`) | `DiscoveryParameters`, what the module assumes of its constants, as a hypothesis | versions are ordered, and stay so whichever server answers: `since` is no more than any server's `replica`, no server's is more than `listed`, and `pairs` and what was fetched and is not yet stored lie between `since` and `listed`. That servers never go back is used of each server on its own, not of the answers |
| `RequestsProofs!TypeCorrect` | `RequestAssumption`: finitely many requests, None is no token and no request, codes are numbers, a list has at least one place | `Sides`: each step of the server is one of the middlewares or leaves them alone but for the handler's end, and one of the JSON-RPC client or leaves it alone. So what the steps of a part keep holds of the server |
| `OneFetchHolds` | the same | `FetchInv`: for each token, the questions asked, the requests that are about to ask, and one more while the token is neither stored nor in the hands of a holder that still renews, are at most one and its troubles. Requests are counted as finite sets |
| `UserTrueHolds` | the same | `UserInv`: what the request's user and JSON are at each place of the middleware |
| `PanicExplainedHolds` | the same | `SelectorInv`: the index is a place in the list of the call that wrote it last, and of every call about to read it again that was not overtaken |
| `BalancedHolds` | the same | `BalanceInv`: between any two nodes, what each was picked, with the pick that is about to be made, less its turn in the round of the index, differs by no more than the overtaken calls account for: one each while they are under way, two in the end |
| `ErrorShownHolds` | the same | `WayInv`: after any way, of any length, an error's first biz layer, its text and the code of its status are what the way says (`OnWay`). Below |

`ErrorShown` speaks of the whole way of an error, and its proof needs no induction
over sequences: a step appends to the way, and `OnWay` of the longer way follows
from `OnWay` of the shorter one, with a lemma for each operator of `ErrorPath` on
what appending does to it (`HopsAppended`, `TextAppended`, ...). That there is a last
biz error on the way is `LastOne`, from the well-foundedness of the strict subset
relation on finite sets. The proof found that `Shown` was wrong for ways of five
steps and more, which no run had: a `newcomm` over a biz error is dropped by the
next gRPC call (grpc, biz, newcomm, grpc, biz). It was corrected, and checked by TLC for all ways of
up to six steps before the proof was finished.

None of the safety properties is inductive as it stands. `CarefulExclusion`, for
example, says nothing about the key, and a step from a state in which two objects
believe in one key breaks it; `LockInv` adds whose key it is and for how long.

Only model-checked: everything that says *in the end* (`KeyFreed`, `ListenerHears`,
`CommittedDelivered`, `AloneFreed`, `Settled`, `ListenersReturn`, `Relisted`,
`GoneUnlisted`, `CaughtUp`, `WatchersCaughtUp`, `Answered`), since liveness under
fairness and ENABLED are out of the prover's reach. Every other property of a
passing run is a theorem. What section 6 lists is refuted by TLC.

## 6. Where the code departs from what it says

Found while modelling. Each is a property of the module that TLC refutes when a
run's constants are changed as given; the behaviour it prints is the explanation.
A constant not named keeps the run's value. Configurations of some of them are kept
here (in the last column); `lock_expires_early` is a run of its own.

| Property (module) | Run, with | What happens, and what was promised |
|---|---|---|
| `MutualExclusion` (`RedisLock`) | `lock_expires_early.cfg` | `Lock` and `TryLock` acquire first and call `SetExpire(60)` after (redis.go:47-53, 104-110): the first key lives go-zero's 500 ms and is first renewed after 50 s. readme.md:995: the user need not think about the lock expiring before the work is done |
| `AllFreed` (`RedisLock`) | `lock_careful` | an `Unlock` that fails, or finds the key expired, returns and leaves state 1 (redis.go:125-128), and `renewLock` takes the key back for a function that returned, as long as the process lives (164-176). `KeyFreed` is about the clients this does not happen to |
| `WaiterRetries` | `lock_careful`, `Faults <- NoFaults`, `Mortal = {}`, `MaxWait = 3` | the select of `LockWithContext` has no default case, so a waiter sleeps until its deadline (redis.go:92). readme.md:1041: it keeps trying |
| `MutualExclusion` | `lock_careful`, `Faults <- NoFaults`, `Mortal = {}` | the inner of two nested calls deletes the key (redis.go:129); the comment at redis.go:54 presents reentry as supported |
| `MutualExclusion` | `lock_careful`, `Faults <- RenewFails`, `Mortal = {}`, `Depth <- NoNesting` | one failed renewal ends `renewLock` (171-174) |
| `NoPanic` (`ConfirmedPublish`) | `publish_panic.cfg` | when `Publish` fails, `DoPublish` closes `errChan` while `confirmOne` may still send on it (663-675), without a recover |
| `EveryPublishReported` | `publish_confirmed`, `MayReturn = {}`, `MayNack = {}`, `NetworkFails = FALSE` | `confirmOne` registers for confirmations in a goroutine (614, 683): one that comes first is dropped and nobody is told |
| `SuccessMeansQueued` | `publish_confirmed`, `NetworkFails = FALSE` | the broker acknowledges a returned message too and select takes either (685-712). readme.md:1213: it guarantees the message reaches the queue |
| `OnlyCommittedSent` (`Outbox`) | `outbox_commit.cfg` | `Commit` drops the database's error (gorm.go:73) and the listener is called whatever happened (119-122). readme.md:1093: sent only once committed |
| `NoLoss` | `outbox_live`, `Slow = {m1}` | the purge deletes rows after seven days, sent or not (transactional_msg.go:43). readme.md:1230: retried until sent |
| `CommittedDelivered` | `outbox_live`, `Unroutable = {m1}`, `MaxCrashes = 0` | at most 100 rows without an order (transactional_msg.go:26): rows that always fail keep others out |
| `RetrySendsSame` | `outbox_live`, `Recoded = {m1}` | the row has the JSON and no delay (rabbitmq.go:539): a retry sends something else |
| `Serial` (`XxlExecutor`) | `xxl_shared.cfg` | jobs of one handler share a Task: the callback of one takes the other off the list while it runs |
| `OneLive` | `xxl_covered.cfg` | a covered run that ends late takes the run after it off the list (executor.go:332); dto.go:42 says COVER_EARLY covers the dispatch before |
| `ListIsRunning` | as `xxl_shared.cfg` | `callback` deletes by `Task.Id`, which another dispatch overwrote; the job itself is refused from then on (executor.go:88: the list of tasks being executed) |
| `ReportsOwn` | as `xxl_covered.cfg`, `Cover = {}` | the callback reads `LogID` after it freed the job (executor.go:333); dto.go:52: the log id of this dispatch |
| `NoLoss` (`DeadLetters`) | `dead_live`, `AutoAck = TRUE`, `Requeue = FALSE` | the broker forgets a message before the listener returned (rabbitmq.go:213-216). readme.md:1095: no message is lost |
| `RetriesBounded` | `dead_live`, `Results <- Panics`, `Requeue = FALSE` | a panic in the retry job unwinds the round before the retry is counted (501-511): for ever every minute. readme.md:1125: the number of retries is configured |
| `DeadSaved` | `dead_live`, `Results <- Errs`, `Requeue = FALSE`, `Plain = {m1}` | a body that is no JSON is refused by the json column (po.go:37, listener.go:90) and delivered again without pause. readme.md:1124 |
| `Settled` | `dead_unheard.cfg` | the loop of rabbitmq.go:472-487 goes on while rows are listed, and a row whose queue has no listener in the instance with the lock is skipped (495): it keeps the lock, and the instance that listens never gets it |
| `NetworkLossSurvived` (`RabbitConn`) | `conn` | the channel is lost before the queue is declared: `logx.Must` ends the process (rabbitmq.go:258). readme.md:1120: restarts are what the framework avoids |
| `StaysClosed` | `conn` | `Close` looks like a loss to the watcher, and the client connects again (359) |
| `AllRelisted` (`Registration`) | `registration`, `Nodes = {p}` | the plugin only logs an error of `UpdateTTL` (plugin.go:104-107) |
| `StartedListed` | `registration`, `Nodes = {s}` | the error of the first registration is dropped (consul.go:83-85): the process serves unlisted |
| `RemovedStays` | `registration`, `Nodes = {x}` or `{s}` | the heartbeat runs on while the process shuts down and registers it again |
| `ShortListed` | `registration`, `Nodes = {p}` | a TTL of a second has no room for a timer of a second (register.go:77-80) |
| `NeverBack` (`Discovery`) | `discovery` | queries are answered by any server (`AllowStale: true`, consul_discovery.go:112). One that is further behind than the last answers with its older list when the query's wait is over, and `watch` stores it without a look at the index (145) |
| `AllCaughtUp` | `discovery`, `Sources <- OnlyNacos`, `MaxErrors = 0`, `MayClose = FALSE` | announcements overtake each other, and with Nacos nothing corrects the last one |
| `Untorn` | `discovery`, `Sources <- OnlyNacos` | `d.pairs` is read without its lock (consul_discovery.go:159, nacos_discovery.go:173) |
| `EnabledOnly` | `discovery`, `Sources <- OnlyNacos` | `fetch` leaves out nodes that are not enabled, the callback does not |
| `CaughtUpAlways` | `discovery`, `Sources <- OnlyGrpc` | the resolver subscribes once, in a goroutine whose error is dropped (builder.go:81): the client keeps the first list for ever |
| `SameUser` (`Requests`) | `requests` | the second look into the cache reads the JSON and does not decode it (handler.go:160): the handler has an empty user, the services it calls the right one. A failure of the lock leaves both without one |
| `AnsweredOnce` | `requests` | after an error of the user service the middleware writes 401 and goes on to the handler, which answers too |
| `NoPanic` | `requests` | the index is read again after it was written (jsonrpc.go:178): between the two, a call with a longer list writes an index that this one's list does not have |
| `TakeTurns` | `requests` | two calls that read the same index call the same node |
| `BizShown` | `requests` | a biz error of code 0 is success to a gRPC client, one of code 2 an unknown error. readme.md:957: whatever contains a biz error shows its message |
| `AllAnswered` | `requests` | `AllFreed` again: after an `Unlock` that failed, the lock of a token stays taken, and `Lock` waits for it without a deadline |

## 7. What is not modelled

* Log files of jobs (`xxl/log_handler.go`): file system and formatting.
* `conf/nacos`, `shenyu`, the registry facades (`reg`) and the construction of
  clients: read, post or dispatch once at start.
* `common/dto`, `constant`: data. Stack traces of errors: formatting.
* `system`: waits for a signal; the closing it causes is in the modules as `Close`,
  `Stop` or `Exit`.
* `util`: pure helpers without state, among them the SQL values of `usql`.
* Within the modelled components: the size of the pool that consumers run in,
  `DeliveryMirror`, `SetFilter` and `Clone` of the discoveries, publishing without
  confirmation, `figureOutListenOn`; what the application does in its handlers and
  listeners, beyond the results they return.

## 8. The plan

Written in the order in which a failure would cost most: what loses or doubles
work first (lock, outbox, publication, dead letters, executor), then what they
stand on (connection), then who finds whom (registration, discovery), then the
requests that use all of it (middleware, JSON-RPC, errors). Done: all of these.
What is left:

1. A composition of `RedisLock` with a retry job, in place of `LockSafe`.
2. `SplitArray`, `NewPage` and the paging of log files as operators, with a
   reference definition over bounded inputs.
3. Proofs: the safety part of `Relisted` and `GoneUnlisted` (a dropped node is on its
   way back, a node that is gone has a bounded life), of which TLC
   checks the rest.

The abstract specifications worth stating were `PublishOutcome`,
`TransactionalDelivery`, `ServiceList` and `SharedChannels`; the
theorems worth proving are their refinements and the safety properties the runs
check.

## 9. Running

In this directory:

    tlc -workers 2 -config lock_careful.cfg MCRedisLock.tla
    tlapm RedisLockProofs.tla

`PROJECT.json` names the module of each run, the lines each definition stands
for, the mutants and the hazards.
