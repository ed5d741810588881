# landau in TLA+

landau is a Go framework for service processes: an engine that starts HTTP, gRPC and cron jobs
and stops them gracefully, a keep-alive mesh by which processes learn of each other, wrappers
around SQL, Redis, RabbitMQ and others, a logger. These modules describe the parts of it that
run concurrently, TLC checks them on small instances, and TLAPS proves the safety properties for
every instance.

Paths below are relative to `src/`. The Go module says `go 1.16`, so loop variables are one per
loop.

## 1. Inventory

| Component | State it keeps | Operations | Hard about it | Model |
| --- | --- | --- | --- | --- |
| Keep-alive mesh, checker's side (`data/service_keepalive.go`) | `serviceHealthMesh` (Address, AvailableSeq, NextSequence, HealthOnSecondary per service), `lastServiceAddr`, the maps of secondary addresses | configuration callback, rounds of checks, shutdown notice, lookup and Increment | four kinds of goroutines; slices shared between the mesh and `lastServiceAddr` and sorted in place; indexes kept apart from what they index | `HealthMesh` |
| Keep-alive mesh, receiver's side (same file) | `receiveServiceMesh` (ReceiveTime, Address, HealthOnSecondary), the maps of secondary addresses, `serviceCallback`, `LastTraceServiceAddress` | handler of `/ServiceHealthCheck`, expiry, lookup, trace of requests and answers | handlers interleave between two locks; one peer has two addresses; what was traced never expires | `ReceiverMesh`, `LeaseRegistry` |
| The two across processes | calls under way | checks, retries on the secondary address, stop, crash, restart | calls that are lost, late, reordered | `KeepaliveNet` |
| Database circuit breaker (`data/db_conn_optimize.go`, its callers in `data/db_base.go`) | flag, threshold, counters, `dbPingCheck` goroutines | calls that fail, ping rounds, switching on and off | flags read outside the lock; overlapping goroutines; late errors | `DbBreaker` |
| Cron jobs (`util/cron_job.go`) | scheduler, `JobRunningState` | firing, job, panic, `CronJobShutdown` | check and set are two critical sections; shared names | `CronJobs` |
| Engine (`entry/engine.go`, `entry/bridge.go`) | servers, callbacks, signal loop | start, reload, `gracefulStop` | five parallel shutdowns, one of which may end the process under the others | `GracefulStop` |
| SQL access (`data/db_base.go`, `data/mysql_interpolate.go`) | `dbConnectionPool`, `keepAllConnection`, the state of a transaction | `GetDB`, `SetKeepAllIdleConn`; `ExecTx` with Exec, ScanGet, Get, Gets of `_TxWrap`; `GetBuiltSQL`, `GetWhereClause` | a pool that is loaded and stored in two steps; commit or rollback chosen in a deferred function; callbacks that hold one connection and wait for another; values written into the text of a statement | `LazyPool`, `DbTx`, `TxPromise`, `TxRows`, `SqlText` |
| Service address cache (`protocol/service_addr_helper.go`, `zookeeper/zookeeper.go`) | cached lists, `nextUsingIndex`, watcher, connection | `GetAddr`, watch events, `GetConn` | an index written under a read lock; a goroutine that drops the list under no lock, started before the list is stored | `AddrCache` |
| RabbitMQ (`data/rabbit_mq_*.go`, `data/uamqp/`) | caches of connections and channels | listen loop, acknowledgement, refresh after an error; publishing | shared loop variable, reconnection; publishers that share a channel any of them may throw away | `RabbitConsumer`, `RabbitProducer` |
| Logging (`log/log_file_monitor.go`, `log/log4go/filelog*.go`) | channel and goroutine of each file, the file's name and handle, counters of the check | LogWrite, Close, intRotate, reopening, the check every 30 seconds, the cleaner | the check and the goroutine rotate under no lock; files removed by another log's cleaner | `FileLog` |
| HTTP API (`api/`) | registered handlers, `ServiceDisabled`, access list | registration, five ways of dispatch, `SetServiceReady` | each way composes routing, binding, access control and the not-ready gate in its own order | `HttpGate` |
| HTTP client (`data/http_helper.go`) | of each helper its caller's map of parameters and `isPrimaryAddress` | Call, Upload | state kept from one call to the next; a map shared with its owner | `HttpClient` |
| JSON and pure helpers (`data/json.go`, `protocol/bitmap.go`, `util/data.go`, `util/ip_helper.go`) | none; `JSONUnmarshal` a map it rewrites field by field | decoding into structs; bit operations, conversions | widths and boundaries, keys taken for one another | `JsonDecode`; the rest is not modelled |
| Other stores (`redis_base.go`, `db_mongo.go`, `elastic_search.go`, `grpc_helper.go`, `prometheus/`) | clients | get a client, commands | check-then-store, as `GetDB` | not modelled: I/O |
| Process helpers, settings, formats | none | reading settings, formatting, running programs | - | not modelled: I/O and formatting |

How they interact. `LandauServer.Start` starts the cron jobs, then the servers, then, as goroutines,
`MonitorServiceHealthConfigs` and `StartHealthChecking`, and ends in `gracefulStop`. The HTTP API
serves `/ServiceHealthCheck` with `DoHealthCheck`, which fills the receiver's mesh. Calls through the
HTTP client go by service name to `GetServiceAddrByName`, which reads the checker's mesh if the name
is configured and the receiver's otherwise; if the receiver's mesh has no address for the name, it is the one in
`LastTraceServiceAddress`, where the API's middleware and the client leave the address that each request or answer
had in its head. `gracefulStop` shuts the servers and the jobs down and
sends the mesh's shutdown notice. The breaker stands in front of every SQL call, which then takes its
pool from `GetDB`. `SetServiceReady` opens the gate of the HTTP API, which the engine's `Start` may have
closed. Every component writes to the log through a writer of its own.

What makes each modelled component correct:

- *Checker.* AvailableSeq is right about every address it speaks of; a lookup does not choose an
  address that failed while another passed; the configuration adopted last is in the mesh; the
  rotation starves nobody; the secondary address is used when only that one answers.
- *Receiver.* A peer counts as available only while it has checked within `ReceiverKeepTimer` and has
  not said goodbye; when none of a name does, and only then, a call is given the peer of the name that was heard
  of last; both addresses of a peer count as one peer; calls to it take the path it was last
  heard on; a peer that is gone is forgotten, or kept as that last resort.
- *Breaker.* A connection with too many errors is left alone, one that answers again is let through
  again, and a breaker that is switched off blocks nobody, errors of calls that were under way aside.
- *Address cache.* Whatever callers race for, an index stays inside its list; a cached list is what
  ZooKeeper holds, or is about to be dropped; ZooKeeper is asked only for lists that are missing.
- *RabbitMQ consumer.* A message is acknowledged after its callback, and none without it; nothing stays
  in the prefetch window for nothing; after any fault there is a receiver again.
- *RabbitMQ producer.* No error leaves a channel or a connection open that nobody keeps.
- *Transactions.* nil means that all the callback was told is committed, its error or a panic that nothing
  is, whatever connections do; every call ends. *Queries:* each struct is filled from its own row, each field by the last column of its name.
- *Lazy pool.* Raced first calls leak a bounded number of pools; a changed setting reaches the pool in use.
- *SQL text.* The server reads each value back as it was given. *JSON:* each field gets its own key's value.
- *HTTP API.* No handler runs past the access control or the gate, and nothing exempt is turned away.
- *HTTP client.* Requests are signed as they are sent and leave by the network of their address.
- *Log file.* What is written stays, once and in order; a disk that works again is written again.
- *Jobs and engine.* One run per name at a time; a flag is never left set by a job that has ended; a
  clean end has interrupted nothing it waits for; a stop ends.

## 2. Modules

`HealthMesh`, `ReceiverMesh`, `DbBreaker`, `LazyPool`, `DbTx`, `TxRows`, `SqlText`, `CronJobs`, `AddrCache`,
`RabbitConsumer`, `RabbitProducer`, `FileLog`, `HttpGate`, `JsonDecode`, `HttpClient` are components. `KeepaliveNet` EXTENDS
`ReceiverMesh` with the processes and the network in front of it, `GracefulStop` EXTENDS `CronJobs`
with the engine around it. `LeaseRegistry` is an abstract specification that `ReceiverMesh`
implements (`KeepsLeases`), `TxPromise` one that `DbTx` implements (`KeepsPromise`), and `GracefulStop` implements `CronJobs` (`EngineRunsCronJobs`), `KeepaliveNet`
implements `ReceiverMesh` (`NetRunsReceiver`). `MCx` holds the instances of `x` for TLC, `xProofs` the proofs about `x`. `MCDatabase`, `MCEngine` and `MCClients` hold
several components that share no state, `DatabaseProofs` the proofs about `DbBreaker`, `DbTx`, `LazyPool` and
`TxRows`, `HttpProofs` those about `HttpGate`, `JsonDecode` and `HttpClient`, `RabbitProofs` those about both sides of RabbitMQ,
`ReceiverMeshProofs` also those about `KeepaliveNet`. Definitions whose comment calls
them a *mutated form* are plausible bugs of the code; no action uses them. Each stands beside a
definition that it can replace to see that some property notices.

An action is a critical section, or a stretch of code that reads and writes shared state once.
History variables (named in each module) are read by no action.

### HealthMesh
`address`, `availableSeq`, `nextSequence`, `onSecondary` are the fields of `ServiceHealthInfo`;
addresses are numbers because `sort.Strings` needs an order. `aliased` says for which services
`Address` is the very slice that `lastServiceAddr` holds: after `RegisterServiceHealth` all of them,
after `ChangeServiceHealth` the ones it has just added. `FetchConfig`, `SortSwap`, `SortDone`,
`CompareConfig`, `ChangeServiceHealth` are one turn of the monitor; its sort of up to 12 elements is an
insertion sort, so its visible steps are swaps of neighbours. `StartPeriodicRound` and
`NotifyCheckerShutdown` start rounds; `Assignments` is the map address -> name of a round, which keeps
one service of those that list an address. `CheckPrimary` and `CheckSecondary` are the end of one
check with `_updateServerHealthStatus`. `Lookup` is the read-locked part of `GetServiceAddrByName`,
`Increment` the write-locked one. The configuration callback is the variant with a map of secondary
addresses, `MonitorServiceAddrChange2`; `MonitorServiceAddrChange` is the same without that map.
`CallCount`, `Health` and the trace page are display only and left out.

### ReceiverMesh, LeaseRegistry
`Accept`, `Learn`, `Apply`, `Callback` are `DoHealthCheck` in its critical sections: the request is
taken, the pair of addresses is learnt under `syncMeshPrimary`, the sender is registered or removed
under `syncReceiverService`, and the callback goroutine is started. `age` is `now - ReceiveTime`, counted up to the
first value that counts as expired. `copies` is how often `Address` lists an address, since a notice
from a secondary address lists the primary again. `LeaseRegistry` knows only leases: `Renew`,
`Revoke`, `RunDown`, `Resolve`, `Release`, and who was heard of last. `traced` is `LastTraceServiceAddress`, which
`Accept` writes for health checks (if `TraceRequests`, the engine's default) and `TraceCall` for all other requests and answers;
nothing takes an entry away. `Lookup` is `GetServiceAddrByName` where some address is available, followed by `Increment`;
`LookupNone` and `Fallback` are the rest of it, where none is, with the lock let go in between and the caller left with
what was traced until it returns (`Return`). `LeaseRegistry` has the same last resort: `Hear`, `FindNobody`,
`LastResort`. The mapping is lease = what is left of the age of a peer's primary address, last = `traced`.

### KeepaliveNet
Per peer the phase of its process and its calls under way (`round`, `notice`), and a set `net` of
requests that were sent and neither served nor lost; a call may end at its sender while its request
is still in `net` (timeout), and requests are served in any order. `Checking` are the peers that check the receiver,
`Calling` those that send it other requests or answers (`SendTraffic`), which are served or lost (`EndTraffic`) and leave only
a trace. `Counted(p)` says that a lookup counts p as available, `Routable(n)` to whom a call to n may go. `Exit` covers a kill, a graceful
stop and `log.Fatalf`.

### DbBreaker
`SetFlag`, `StartPingCheck`, `StopPingCheck`, `ResetEntries` are `SetEnableOptimizeConnection`,
`Access`, `Return`, `Record` the frame that `query`, `Exec2`, `Insert2`, `ExecTx` share, `Collect`,
`Ping`, `Resume`, `Wake` the loop of `dbPingCheck`. Not in the model: the listeners of block and resume
events, and changes of `pingDBInterval`. `late` (history) is, per connection, how many calls had looked
at the flag and not yet reported when the map was emptied; `Reporting` are those calls.

### CronJobs, GracefulStop
A firing is a goroutine of the scheduler; `Check` is `GetJobRunningState`, `SetRunning` the call in
front of the job, `EndJob` its end by return or panic, `Reset` the deferred function. `StopEngine`,
`Poll`, `Expire` are `CronJobShutdown`. `raced` (history) holds the names of which a firing has passed
the check while another was between its check and its set; a firing that passes while a job is at work is none of those, so
a flag that is set late, never, or cleared early shows. In `GracefulStop`, `main` is the goroutine of `gracefulStop`;
`CloseServer`, `ServerDown`, `ServerExpires` are `Shutdown` of an HTTP server and `GracefulStop` of the
gRPC server, which has no deadline; `StartDestroy`, `DestroyReturns`, `PollDestroy`,
`DestroyExpires` are `appShutdownCallback`. All deadlines are counted from the same moment, `late`.

### AddrCache
One ZKey. `cached` is whether `serviceAddressPool` has an entry, `list` the `serviceAddress` stored
last, which callers go on using after it was dropped. A caller goes through `Call` (RLock), `Look`,
and either `getAddr` or `Announce`, `Lock`, `LookAgain` and the fill: `GetConn`, `ChildrenW` with the
start of the goroutine, `GetNode` for each child, `StoreList` or `NoAddress`. `getAddr` is `ReadIndex`
to `TakeAddress`, with `nextUsingIndex++` and its wrap in four steps, as readers share it. `DropList`
is the goroutine. `skipped` (children that could not be read) and the watch of a list are history.
ZooKeeper is external: children come and go, and a watch fires once, at a change or when its session
ends. The code stores an empty address for every child so far (line 169 is to be written); the model
keeps the child's name in its place. `CreateNode`, `SetNode` and `DeleteNode` are called by nothing
in the repository and left out.

### RabbitConsumer
`listener` is the goroutine of `StartListen`: `GetChannel` to `CloseForErr` are `CreateReceiver`, in the
calls it makes of the client library, each of which may fail; `Receive` and `ReceiverEnds` are the loop
over the receiver. A handler is a call of `handle`, with a goroutine of its own if `async`. `slot` is the
variable of the loop, which every handler of that loop reads (`Delivery`): `ReadBody` and `Ack` are its
two reads. `errclosed` is `amqp.ErrClosed`, `error` any other error. `handled` is history, and a
callback that panics counts as having returned: the code recovers and acknowledges. Broker, network and client
library are external: deliveries of a channel that dies go back to the queue, its receiver ends at
once, and a second Ack of a delivery closes the channel. The sleeps between two receivers only take
time. A read of `delivery` that is torn by the loop's write is taken as a read before or after it. Not in
the model: an `Exchange` with several users, `deliveryAutoAck` off, and
`deliveryAutoAckValue`, which acknowledges all earlier deliveries too.

### LazyPool
One connection string of one `Database`. A caller of `GetDB` is a goroutine with a `pc`: `Load` (`sync.Map`),
`Compare` on a hit, `Open` on a miss, `ComputeLimit`, `SetMaxIdleConns`, `Remember`, `Store`; each reads or
writes one shared field, `keepAllConnection` in three of them. `SetKeepAllIdleConn` is the setter.
`overtaken` (history): the setting changed under a call, and no undisturbed call has come since.

### DbTx, TxPromise
Each call of `ExecTx` is `Refuse` (breaker or `GetDB`), `ExecTx`, `BeginTx` or `BeginFails`, `Exec` for its
statements, `CallbackEnds` (nil, error, panic) or `CallbackVanishes` (`panic(nil)`, `Goexit`), then `Commit` or
`Rollback`. `CallOutside` and `OutsideServed` are a callback that uses the `Database` beside its transaction and
so takes a second connection. `pinned` is who holds a connection, `open` whose transaction the server still
has; `Lose` takes it away. `TxPromise` knows only what the callback was told, how it ended, what is in the
database and what the caller got.

### TxRows, SqlText
`TxRows` is one query at a time inside a transaction: `SendQuery` chooses columns and rows, or an error (of the query, or of the
column types `Gets` asks for). Rows that break off are rows that end: nothing in the code asks for the error that tells.
`ScanGet`, `Get` and each turn of `Gets` scan a row into strings and set the fields (`SetField`).
Integer fields have 2 * `Half` values. `SqlText` is `GetBuiltSQL` turn by turn (`Begin`, `Turn`, `Built`) in both
modes of escaping, and `GetWhereClause`; `ReadBack` is how a server reads the text, which the code has no
counterpart of.

### FileLog
One file. Records are numbers, files are entries of `content`, `current` and `dated` are the names that
lead to them. `Take`, `Write`, `Note`, `Finish` are the writer's goroutine; `Stat`, `Rename`, `OpenFile`,
`Assign` are the steps of `intRotate`, by the goroutine or by the check; `CheckPersistStatus` is one check;
`Clean` is the cleaner of `log_file_monitor.go`. `DiskFails` and `DiskWorks` are the disk. `met` (history):
the check has rotated while the goroutine wrote or rotated.

### HttpGate
A request goes from `Arrive` to one of `httpHandleProxy`, `dispatchAction` (registered or not), `NoRoute`,
`restFullHttpHandleProxy`, and, if let through, to `Handle`. The checks of a way are one step: they read
`ServiceDisabled` once. `seenDisabled` (history) holds its values since the request came.

### JsonDecode
`JSONUnmarshal` starts with a struct and an object, `Field` is one turn of the loop, `PrepareGWArray` the
gathering of indexed keys into one. What Go leaves open (order of a map, a negative float64 as an unsigned
integer) is a choice.

### RabbitProducer
`getChannel`, `NewChannel` with `NewChannelDials` and `NewChannelFails`, `Publish`, `ProducerCloseForErr` are
`Publish` of a producer with the uamqp producer and exchange under it; `refreshConn` is part of them.
`ChannelCloses`, `ConnectionCloses`, `NodesChange` are the broker.

### HttpClient
`_prepareRequest`, `Send`, `Answered` are `Call`, `Upload` is by itself. `requestParams` are the callers' maps,
which helpers may share; `mesh` is what `GetServiceAddrByName` would find. A signature is the set of parameters
it covers. `posts` (history) counts the signed POSTs of a map.

## 3. Runs

| Run | Instance | Checks |
| --- | --- | --- |
| `mesh_config` | two services, two addresses of which both may list one, no caller, periodic rounds; three replies: a list grows, a service goes and another comes, the secondary map comes and goes | `ReadyIsPassed`, `ConfigApplied`, `MovedAddressSettles` |
| `mesh_callers` | one service of one or two addresses, two callers, periodic and shutdown round | `TypeOK`, `RotationFair`, `RoutesAroundFailures` |
| `mesh_secondary` | one address with a secondary one | finds `SecondaryIsUsed` violated |
| `receiver` | two handlers, two peers of one name, one of them dual-homed, one caller, traced calls of both peers, lease of one tick, no callbacks | `TypeOK`, `RoutesByLastContact`, `AddressBookAgrees`, `KeepsLeases` |
| `keepalive_net` | two peers of one name, of which one checks and one only calls, one handler with callbacks, the network | `GoneIsForgotten` |
| `keepalive_shutdown` | one dual-homed peer, one handler, the network, no callbacks | finds `ShutdownSticks` violated |
| `cron_jobs_completed` | two jobs, no servers | finds `JobsCompleted` violated |
| `rabbit_async` | three messages and handlers, no fault | finds `AckedReachesCallback` violated |
| `log_rotation` | a log that is not daily, two lines a file | finds `LinesBounded` violated |
| `database` | five components, see below | `TypeOK`, `DisabledBlocksNobody`, `BlockedIsLeftAlone`, `SomeonePings`, `Recovers` (breaker); `LeakBounded`, `IdleFollowsSetting` (pool); `KeepsPromise`, `CallsEnd` (transactions); `RowsAreRead`; `TextReadsBack` |
| `engine` | four components | `SingletonUnlessRaced`, `FlagIsRight`, `CleanEndIsDrained`, `StopEnds`, `JobsComeRound` (stop and jobs); `Gated`; `FieldsAreGiven`; `WrittenStays`, `KeepsWriting` (log file) |
| `clients` | four components | `IndexInBounds`, `WatchedListIsCurrent`, `FillsOnlyMissing`, `StaleIsDropped` (address cache); `AckedIsHandled`, `NothingStuck`, `HandledInTheEnd` (consumer); `NothingLeaks` (producer); `SentAsMeant` (HTTP client) |

The last three runs put components next to each other that share no state. `part`, chosen in the initial
state, says which one moves; the others stand still in an initial state. So the states of such a run are
those of its components one after another, not their product, and each property is a statement about one
component. Liveness carries over because whatever its fairness is about is not enabled in a component that
stands still (for the consumer the fairness is restricted to the behaviours in which it moves). The instances:

- `database`: one connection string, three calls at once, two ping goroutines, thresholds 2 (refused), 3, 4;
  two callers of `GetDB` and three pools; three calls of `ExecTx` over two connections, with one, two and no
  statement, the first of which uses the `Database` beside its transaction; queries of up to two rows, with a
  column missing, twice, NULL, blank, unreadable, and 3-bit integers (`Half` is 4); statements of up to two placeholders, all
  texts of up to two characters of a letter, a quote and a backslash, a packet so small that some do not fit.
- `engine`: one job that is also run at once, two firings, an HTTP and a gRPC server with one request each;
  requests of every kind of URL, method and action against two URLs, two actions and five RESTful
  registrations that overlap and replace each other; five structs and all objects of up to two keys (three
  with fewer values), 2-bit integers; a daily log with one midnight, two files, a channel of one record and
  one trouble with the disk.
- `clients`: two child nodes, two callers in any balance modes, three watches; two messages, two
  handlers, `deliveryAsync` on and off, two faults; two publishers, three channels, two connections; three
  HTTP helpers, of which a POST and a GET sign the same map and go by name, and one posts its own body to
  a URL on the secondary network.

Why these bounds are enough to show something. Two addresses are what a sort can put in the wrong
order and a rotation can alternate between; two callers are what it takes to overwrite each other's
`NextSequence`; a second service is what it takes to share an address, so that a round checks it for one of the
two only, to change the number of services and to leave the configuration. Callers change nothing that the
properties of `mesh_config` speak of, so that run has none; a list that grows while callers use it is in `mesh_callers`. The receiver needs two handlers for their interleaving, and
two peers of one name because the first contact of a name is treated differently. The network needs two peers of one name
as well: one may be gone and another be the last heard of, or the available one. One connection
suffices in the breaker because entries of different connections share nothing but the ping round;
three calls at once are as many as the minimal threshold, so their late errors can block a connection while the
breaker is off, and with two ping goroutines one can sleep over a stop and the next start and go on beside the new one
(more of them would need more restarts within one `Sleep`).
The address cache needs two callers for the race of `nextUsingIndex`, and lists of one and of two
addresses so that an index can be past the end of one of them; three watches let both callers run
while the goroutine of an earlier list has still to act.
The RabbitMQ consumer has one message waiting while another is handled, and two faults, so that a
second one meets the recovery from the first. The producer needs two publishers for an error about a channel
that is no longer the producer's, and a channel more than publishers so that the library has one to give.
Two callers of `GetDB` race for the first pool and a third pool would show a leak that goes on. With three
calls and two connections someone always waits, while only one callback asks for a second connection, which
is what `CallsEnd` is stated for. The log needs one midnight and two files for a rename; one trouble is a disk
that fails or a cleaner that comes. Two-character texts hold every pair of characters that an escape and a
quote can form; longer ones repeat them.
Two firings are the smallest race of check and set. Symmetry is used for the two handlers only, in a
run without liveness. What does not depend on the bounds is proved, see below.

Caps, which the code does not have: `MaxCopies` (entries of one address in a list), `MaxCallbacks`
(callback goroutines of a name), `MaxLoad` (requests at one server), `Run` (firings at once),
`Handler`, `Caller`, `Worker` (goroutines), `Pinger` (ping goroutines), `Watch` (goroutines of watches;
a call begins only while one is left for it), `MaxIndex` (`nextUsingIndex`, which a race can move past
the end again and again; past the end of every list all values act alike), `MaxFaults` (what befalls
broker and network), `Handler` (handlers of the RabbitMQ consumer at once; `ReceiverMesh` has a constant of that name too),
`Chan` and `Conn` of the producer, `Pool` (opened pools), `MaxStatements`, `MaxRows`, `MaxArgs`, `MaxRecords`, `MaxDays`,
`MaxFiles`, `MaxTrouble` (of one log), `MaxPosts` (signed POSTs of a map). `Half` and `Width` stand for the 8 to 64 bits
of Go's integers, `Plain` for the million from which `%g` writes an exponent.

Deadlock is checked but in `engine` and `cron_jobs_completed`, where the process really ends, in `database`,
where the calls of `ExecTx` come to an end, in `rabbit_async`, where the consumer waits for ever once all
messages are handled, and in `log_rotation`, where records are limited. In `clients` the consumer at rest is a
step of its own that changes nothing.

### What the violated properties show
- `SecondaryIsUsed`: `_updateServerHealthStatus` files a working secondary address under the
  secondary key and `GetServiceAddrByName` looks under the primary one, so a configured service is
  never called at its secondary address.
- `ShutdownSticks`: the periodic round goes on during a graceful stop, so a receiver that has taken
  note of the end hears of the peer again, counts it as available and routes to it.
- `JobsCompleted`: a job that has been fired and has not yet set its flag, or whose flag another run
  of its name has cleared, is not waited for.
- `AckedReachesCallback`: with `deliveryAsync`, the default, handlers share the variable of the loop. The
  goroutine of one message acknowledges a later one, whose own goroutine reads a still later one: the
  message in the middle is lost, without any fault.
- `LinesBounded`: a writer that is not daily never renames the file of its own name. At `maxLines` it closes
  it, opens the same file to append, and counts from zero.

### Conditions a property is stated under
- `SecondaryIsUsed` aside, a service is only ever reached on primary addresses, so
  `RoutesAroundFailures` speaks of primary addresses.
- `AddressBookAgrees` and `KeepsLeases` hold when every map of secondary addresses that
  `MonitorServiceAddrChange2` returns covers the peers that announce a pair themselves (`MapCovers` in
  the proofs, `LearnedMap` in the run). With a smaller map they fail: a handler learns a pair, the monitor
  replaces the maps, and the handler files the sender under its secondary address.
- `GoneIsForgotten` and `KeepsLeases` know a last resort: `LastTraceServiceAddress` never expires, so the peer
  that was heard of last under a name stays the one a call is given while nobody of the name is available
  (`data/service_keepalive.go:567-571`), also when it said goodbye or crashed long ago. With only the first half of its
  second conjunct, that it is not routable in the end, `GoneIsForgotten` fails. A name that is configured with a list of
  addresses is never looked up there, as the checker's mesh always has one to give.
- `MovedAddressSettles` excepts an address that another service lists too: the addresses of a round are a map from
  address to name (616-622), so it is checked for one of the services only. Without the exception TLC finds one that
  is never checked again for its service.
- `DisabledBlocksNobody` and `Recovers`, for any number of calls, except errors that were late: a call that has
  passed the look at the flag (89) reports its error after the map was emptied. `MinBadCount` of them, three, block
  the connection although the breaker is off, and nobody pings it until it is switched on again. Fewer calls at once than that
  cannot do it.
- `StopEnds` takes gRPC calls that end. `GracefulTimeout` does not bound them.
- `SingletonUnlessRaced` and the second half of `FlagIsRight` except names of which two firings are
  between check and set together, until the runs of that race are over. The code has no guard
  against that race; the properties say that nothing else breaks the promise and that it heals. A firing that
  comes while a job is at work is no such race: that it is skipped depends on the flag being set before
  each job, and cleared after it only.
- `WatchedListIsCurrent` and `StaleIsDropped` speak of a list whose goroutine has not acted. If the event
  comes between the start of the goroutine (line 139) and the store (185), there is nothing to drop
  yet, and the list stored afterwards stays until the process ends. They except children whose
  `GetNode` failed: those are left out until the children change.
- `AckedIsHandled`, `NothingStuck` and `HandledInTheEnd` are about `deliveryAsync` off; with it on they fail
  by the shared variable. `HandledInTheEnd` counts a callback that panicked as having handled its message.
- `KeepsPromise` lets a callback that ends by `panic(nil)` or `runtime.Goexit` leave its caller with nil, or with
  nothing, and its transaction open: `recover` sees nothing there. `CallsEnd` takes fewer callbacks that
  use the `Database` beside their transaction, or vanish, than there are connections; with as many they wait for
  each other for ever.
- `IdleFollowsSetting` excepts a setting that changes under a call of `GetDB` (`overtaken`), which may be
  remembered without having been applied.
- `RowsAreRead` is about the rows that were read: rows that break off with an error are to `Gets`, which never asks
  `Rows.Err`, as rows that end. It leaves open what `Get` counts where there is no row: the code says one
  (`data/db_base.go:781`), its own branch for `sql.ErrNoRows` says none.
- `TextReadsBack`: a where clause is read by a server that takes backslashes; no two placeholders touch.
- `WrittenStays` and `KeepsWriting` except behaviours in which the check rotated beside the writer's goroutine
  (`met`). There lines are lost and a file is renamed over another; TLC finds both when the condition is dropped.
- `Gated`: RESTful URLs have no access control, and an action posted to an unknown URL is never found among
  the exclusions (what `serv_api.go:294` would bind has not been prepared there), so it is turned away although exempt.
- `FieldsAreGiven` speaks of objects in which no key can be taken for another: two keys that differ in case, or a
  `gw_array` name that ends another key's, leave the outcome to the order of a Go map.
- `SentAsMeant` leaves aside requests whose map has already gone out with a signed POST. The POST leaves its
  Signature in the map, so a retry with the same helper or map signs over it; whether a receiver takes that is
  its own affair. `NothingLeaks` allows publishers to undo each other's repairs for ever.
- Read but in no property: `SetRabbitMQConsumerRetryConnectTime` is documented as the pause after an error
  of `CreateReceiver` (`data/rabbit_mq_consumer.go:122`), while the loop pauses only after a receiver that
  ended and retries at once after an error; and `CloseForErr` closes and replaces the connection whenever it
  sees `amqp.ErrClosed`, also if only the channel had closed.

## 4. Fairness

- `HealthMesh!FairSpec`: the ticker starts a round when the last is over, every check ends (it has
  the timeout `HealthCheckTimeout`), a caller that has read goes on to its write. Nothing is assumed of
  answers, configuration, or lookups: `RotationFair` has "lookups go on" as its premise.
- `KeepaliveNet!FairNetSpec`: time passes, each request is served or lost in the end, as is every other call, handlers go on.
  Nothing is assumed of peers.
- `BreakerFairness`: the steps of `SetEnableOptimizeConnection`, the end of each call and ping,
  and the end of `Sleep`. Pings and calls end at the latest at the timeout of the connection.
- `EngineFairness`: time passes, each goroutine of `gracefulStop` goes on, so do the proxy's
  steps around a job, and gRPC calls end. Jobs, HTTP handlers and `destoryCallback` may run for ever.

- `AddrFairness`: of the goroutines that have an event one acts. Nothing is assumed of callers or
  of ZooKeeper.
- `RabbitFairness`: the listener and each handler go on, callbacks return, some node takes
  connections again, and the broker delivers what is in the queue. The faults are bounded, so they end.
- `TxFairness`: `ExecTx` goes on once it is called, callbacks end, and database/sql gives a free connection to who
  waits for one. Nothing is assumed of connections, which may be lost, or of the database, which may fail.

All of it is weak fairness, as a goroutine that is ready to run is run, and a mutex that is held for
short sections is obtained.

## 5. Proofs

`tlapm` checks every theorem; assumptions are the `ASSUME`s of the component, which TLC evaluates in
the runs too.

**HealthMeshProofs.** `TypeCorrect`, `ReadyIsPassedHolds`, `ConfigAppliedHolds`,
`RoutesAroundFailuresHolds`, for any services, addresses, callers and replies. The inductive invariant adds to the properties
`Distinct` (no list has an address twice; without it the first index that matches an address would
not be the only one), `AllListed` (what a round is going to check is listed in the service it is
checked for) and `Adopted` (what the monitor has adopted is in the mesh, also while it is at work).
`RoutesAroundFailures` rests on a lemma about the least ready index in the order of the scan.

**ReceiverMeshProofs.** `TypeCorrect` and `RoutesByLastContactHolds` as they are; `AddressBookAgreesHolds` and
`KeepsLeasesHolds` under `MapCovers`. The latter is a refinement: initial states map to initial
states, and every step to a step of `LeaseRegistry` or a stutter, the lookup that finds nobody and goes by
`LastTraceServiceAddress` to `FindNobody` and `LastResort`. About `KeepaliveNet`: `NetRunsReceiver`, that peers and
network leave a receiver that `ReceiverMesh` describes (each step of theirs is one of its steps or a stutter), so that
`NetRoutesByLastContact` and, under `MapCovers`, `NetKeepsLeases` follow; `NetTypeCorrect`; and `GoneGrowsOldHolds`, the
safety half of `GoneIsForgotten`: while a peer is gone and nothing it has sent is under way its addresses only grow older,
no step counts it as available again, and calls can be sent to it again only if it was the last heard of its name and nobody
is available. It needs that a process that has ended makes no call (`CallsDieWithPeer`), and that no
handler files one peer under another's address (`OthersLeaveAlone`). `GoneGrowsOld` is in no run of its own: it is the step behind
`GoneIsForgotten`, which `keepalive_net` checks.

**DatabaseProofs.** For the breaker, `TypeCorrect`, `DisabledBlocksNobodyHolds`, `BlockedIsLeftAloneHolds`,
`SomeonePingsHolds`. All hold for any number of calls. A breaker that is off counts what is
late and nothing else: an entry then has at most as many errors as were late, so one that is blocked had `MinBadCount` of those. The
counters are bounded by an argument about finite sets: an entry that passes the bar does so by the calls that were under way, each
of which counts once. For transactions, `TxTypeCorrect` and
`KeepsPromiseHolds`, a refinement, under the invariant `TxInv`, which adds to the types what each phase tells of verdict, result and
what is durable (`PhaseTells`); without it a commit could be a step of a call whose callback had decided against it. For the
lazy pool, `PoolTypeCorrect`, `LeakBoundedHolds`, `IdleFollowsSettingHolds` rest on `PoolInv`: a goroutine between two steps has a pool that
was opened (`GetterSane`); before a pool is stored each opened one is in the hands of its own goroutine, and afterwards only those that
had already missed it may open another (`OpenedCounted`, an argument about cardinalities); and, `overtaken` aside, the limit of the pool in
use is right or someone is about to set it (`LimitsCurrent`). For queries, `RowsAreReadHolds`: the struct of each row scanned so far is filled from that row, and
before the first row there is none (`RowsInv`). That a field has one column to come from, the last of its name, which is what `FromRow` asks for, rests on the least
element of a set of natural numbers (`LastColumn`), which is taken from the well-foundedness of `<`. For SQL text, `TextReadsBackHolds`,
for any statements and arguments. `ReadBack` and `FlattenSeq` are recursive functions; that they exist, and what they give, is shown for
ever longer parts of their domains, by the least number the claim would fail for (`Upwards`). From there the argument goes outwards: each way of escaping
spells a value (`QuotesSpell`, `BackslashSpell`, `WhereSpell`), a spelling between quotes is read as what it spells when no quote comes right behind it
(`LiteralRead`), each piece stands behind those before it (`PiecesInPlace`), so a text is read piece by piece
(`AllPiecesRead`). `TextInv` adds that what `GetBuiltSQL` has built at its place is the text of the pieces before that place, with the arguments
counted by the placeholders.

**GracefulStopProofs.** `CronJobsKeep` proves the jobs' invariant for `CronJobs` alone,
`EngineRunsCronJobs` that the engine implements that component, and so
`SingletonUnlessRacedHolds` and `FlagIsRightHolds` carry over to it. Two runs outside a race are excluded by the flag: of those that
have passed the check, one that is at work has it set, so the next finds it. `CleanEndIsDrainedHolds` follows
from what each goroutine has seen when it is done (`Drained`). `TypeCorrect` includes that the
scheduler fires no more once the jobs are waited for; for that the engine is needed (`Scheduled`): it
starts the jobs before it can be stopped, which `CronJobs` alone does not say.

**AddrCacheProofs.** `TypeCorrect`, `IndexInBoundsHolds`, `IndexSettlesHolds`, `FillsOnlyMissingHolds`,
`WatchedListIsCurrentHolds`. The inductive invariant adds who holds which lock (`LocksHeld`), that a list
in use is not empty (`ListNotEmpty`), and that what has been read, skipped and is still to be read is the
children there are while the watch has not fired (`FillIsCurrent`).

**RabbitProofs.** For the consumer, `TypeCorrect` needs that a handler under way has a message in its hands
(`HoldsMessage`) and that a receiver is open only while it is used (`ReceiverUsed`). `AckedIsHandledHolds`
and `NothingStuckHolds` rest on two facts about `deliveryAsync` off: at most one handler is under way,
while the listener waits, so the variable of the loop is its own (`OneAtATime`), and a delivery is in the receiver or
with a live handler once (`EachOnce`). For the producer, `NothingLeaksHolds`, for any publishers, channels and
connections, is inductive together with its type: whoever closes, closes what is kept.

**HttpProofs.** For the gate, `HttpTypeCorrect`, `GatedHolds`, for any registrations, exclusions and messages. The invariant
adds that a request that waits has been answered nothing yet and has met the present value of `ServiceDisabled` (`Waiting`). A lemma shows that of
several entries a RESTful URL may find, all have one URL, so that the gate says the same of each (`OneUrl`).
For JSON, `FieldsAreGivenHolds`, for any structs, objects and widths. A turn of the loop reads a map that the turns before it have
rewritten, so the invariant says what they have left of it: every key of another name, with its value, and no indexed key that was not
there (`MapKept`); then that the fields so far have theirs (`JsonInv`). For the client, `SentAsMeantHolds`: a map that has not gone out
with a signed POST has no signature in it (`SignatureFromPost`), and between the resolution of a name and the choice of the source address the
helper remembers the network of the address it has found (`NetworkRemembered`); what is checked where a request goes out is what
it went out with (`SentWell`).

**FileLogProofs.** `FileInvHolds`, `WrittenStaysHolds`, `KeepsWritingHolds`, for any limits and any number of records, days, files and
troubles. Two properties of lines and losses need to know how the two that rotate stand to each other. While they have not met
(`~met`), at most one rotates, the writer's file is the newest one, which the log's name leads to unless the cleaner has come, and files
that have the name of a day are of days before the current one's, so that a rename finds that name free (`Apart`). `InOrder` says that records leave
the channel in their order and that all that is written came before the record at hand, which makes the lines ascend. `Reopens` counts
losses: a lost record is an error, or the errors have been reset by a reopening that is done or under way. `ChecksCounted` does the same for checks that find
the file gone. `met` cannot be left out: the check closes a file that the writer takes for open.

The models were changed where they could not be reasoned about: alternatives of a `CASE` that overlapped, which TLC takes in order and the
definition of `CASE` does not, are now disjoint (`RabbitConsumer`, `TxRows`, `JsonDecode`), and the constants of `HttpClient`, `TxRows` and
`JsonDecode` have the assumptions that Go's types give them. `Clear` of `JsonDecode` says that no two fields have one name, which it
needs where a `gw_array` field takes its keys away from a field of the same name. The arguments of `SqlText` are what `MCDatabase` had them
to be all along, now as `ArgumentAssumption`, and `Reading` is the function inside `ReadBack`, so that it can be named.

Only model-checked: the liveness properties `RotationFair`, `MovedAddressSettles`, `StaleIsDropped`,
`GoneIsForgotten`, `Recovers`, `CallsEnd`, `StopEnds`, `JobsComeRound`, `HandledInTheEnd`, as liveness is out of the
prover's reach. Every other property of a passing run has a theorem. The violated properties are shown by counterexamples.

## 6. Not modelled

- *Formats, settings, output:* parsers of log lines, xml and json settings, sockets and terminals, disk usage,
  cookies, version, running programs. Pure I/O and formatting.
- *Other stores:* Redis, MongoDB, Elasticsearch, gRPC connections, Prometheus. Calls into client libraries.
  `GetMgoSession` loads, dials and stores as `GetDB` does.
- *Pure helpers:* bitmap, integer conversions, IP lookup: functions of one argument.
- *Parts of modelled components* are named in `PROJECT.json` under each component. Among them: JSONP, headers and
  metrics of the HTTP API, `CleanDailyMode` of the log, one `Exchange` shared by producer and consumer, nested structs
  and floats of `JSONUnmarshal`, and that `Call` of the HTTP helper never closes the body of an answer.

Hazards that were read in the code and that no property covers are those of `PROJECT.json` that name none, and these. The
models of the first seven show them; the properties are stated with them as exceptions, or the code promises nothing there:

- a reply of `MonitorServiceAddrChange2` between a handler's two critical sections takes away the pair it has just
  learnt, and the sender is filed under its secondary address (`data/service_keepalive.go:151`);
- a ping that was sent before a reset and later errors deletes the entry those errors made
  (`data/db_conn_optimize.go:167`): calls go to a database that is down until it has been counted again;
- the setting of idle connections may change under a call of `GetDB` and be remembered without having been applied
  (`data/db_base.go:237`);
- a child whose `GetNode` fails is left out of the list until the children change
  (`protocol/service_addr_helper.go:161`);
- a publisher that meets an error closes whatever channel the producer has by then, perhaps one that another has just
  opened (`data/uamqp/producer.go:71`);
- keys of JSON objects that can be taken for one another leave the outcome to the order of a map (`data/json.go:71`);
- a map of parameters that goes out with a signed POST keeps the signature, and a retry signs over it
  (`data/http_helper.go:462`);
- rows that break off are taken for all of them, and `Get` counts one row where there is none
  (`data/db_base.go:825`, 781);
- `Close` of a log file does not wait for the goroutine that drains the channel, so the last records are written only
  if the process lives long enough, and a check may reopen the file afterwards (`log/log4go/filelog.go:33`);

- several callbacks of one name may start at once (`data/service_keepalive.go:354`), and a nil map from
  `MonitorServiceAddrChange2` makes the next write panic under a lock (327);
- a watch and a goroutine are left behind for each `GetAddr` while no child can be read
  (`protocol/service_addr_helper.go:171`), and `GetConn` waits for a session under the write lock
  (`zookeeper/zookeeper.go:74`);
- block and resume events each come by a goroutine of their own and may be seen out of order
  (`data/db_conn_optimize.go:170`);
- a SIGTERM that arrives while a reload is handled is lost: the channel has no buffer (`entry/engine.go:352`);
- `GetRedisClient` returns the client it has made also when Ping fails (`data/redis_base.go:133`), and its callers
  then leave it open;
- `Upload` does not look at `serviceName` and posts to an empty URL where only that is set
  (`data/http_helper.go:596`).

## 7. Plan

Done: the mesh from both sides and across processes, the breaker, the jobs and the engine, the address cache,
RabbitMQ, transactions and their queries, the lazy pool, SQL text, JSON, the log file, the HTTP API and client.
What would come next:

1. Producers and consumers that share an `Exchange`, composing `RabbitConsumer` and `RabbitProducer`.
2. The callbacks of the keep-alive mesh and the listeners of breaker events, with the order they are seen in.
3. Nested structs of `JSONUnmarshal`, and the bitmap against a set of integers.
