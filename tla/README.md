# A verification of ramune's concurrent core

Ramune embeds a JavaScript engine in Go. One `Runtime` owns one engine (JavaScriptCore through purego, QuickJS in
wasm, or goja); Go code, HTTP handlers and the runtime's own goroutines all want it at the same time. What is hard in
it is not the JavaScript but the meeting of goroutines around it: functions sent to one pinned goroutine, an event loop
that polls managers which other goroutines fill, a shutdown that may come at any moment, and memory shared between
runtimes. That is what these modules specify. They are written from the source; a path such as `eventloop.go:103` is
relative to `src/`.

## Inventory

| Component | State it keeps | Operations | What is hard | What makes it correct |
|---|---|---|---|---|
| Engine goroutine (`engine_jsc.go`, `engine_goja.go`, `engine_qjswasm.go`) | `callCh`, `closed`, `stopCh`, `doneCh`, `closeOnce` | dispatch, Eval, Exec, EvalWithContext, Close, the select loop | Close against calls in flight, full channel, re-entrance | each function sent is executed once; Close joins; the context is released once |
| Event loop (`eventloop*.go`, `onready.go`) | `wakeCh`, timers, `__asyncDone`, `nativePromiseCount`, `waitAsyncCount` | RunEventLoop[For], ...WithContext, EvalAsync, Tick, Wake, OnReady | events between drain, check and sleep; several drivers; Close | never idle while an outcome is owed; no lost wake-up; no double delivery |
| fs promises (`asyncfs.go`) | counter, event queue | readFile, writeFile, stat, readdir, deliver | counter before event | pending until queued |
| fetch (`fetch.go`) | request map, event queue | start, fail, respond, abort, closeAll | hand-over to streams | seen by a manager until its headers are queued |
| Stream bridge (`streambridge.go`; `webstreams.go` is the JavaScript on top) | stream map, chunks, drain | read, write, close, cancel, deliver | backpressure, cancel, close races | every body ends once |
| Child processes (`asyncspawn.go`) | process map, events per process | spawn, output, exit, deliver | exit after output | entry lives until its exit is delivered |
| Promise bridge (`convert_*.go`) | counter | await, settle | counted until settled | never idle before settled |
| SharedArrayBuffer (`sharedbuf.go`) | bytes, queue of waiters per cell | atomic operations, wait, waitAsync, notify | notify against timeout, load against swap | updates atomic, notify counts right |
| JavaScript timers (`eventloop.go:544-625`) | timer table, immediates | setTimeout, setInterval, clear, tick | timers cleared or added while firing | fire once, not after clear |
| Workers (`worker.go`) | mailboxes of 100, worker map | create, post, drain, terminate | terminate against start-up, full mailbox | order, no crash |
| Pool and its HTTP server (`pool*.go`) | channels per worker | Broadcast, ListenAndServe, StopHTTP, Close | requests against StopHTTP | a request gets its own response, or was cut by a stop of its server |
| TCP, sockets, UDP, HTTP/2, file watching (`tcpserver.go`, `asyncnet.go`, `dgram.go`, `http2.go`, `fswatch.go`) | maps of connections, events | listen, connect, write, destroy | connection and data events | data after connection, close last |
| Ramune.serve, WebSockets (`buncompat*.go`, `websocket*.go`) | pending responses, upgrades | serve, respond, upgrade, stop | stop and upgrade against respond | every request ends |
| Cron, SQLite, webview, vm contexts, conversions, Node and Web layers, permissions, transpiler, CLI, TUI, vendored code | | | mostly sequential or I/O | |

How they interact: JavaScript runs only on the engine goroutine. A manager's operation is started there, its goroutine
works on its own, puts a result in the manager's queue and calls `Wake`; a driver of the loop, in some Go caller's
goroutine, dispatches a closure to the engine goroutine that drains every manager and calls back into JavaScript. The
promise bridges and `Atomics.waitAsync` dispatch functions of their own instead of queueing events. `Close` sets
`closed`, shuts the managers and stops the engine goroutine.

## Modules

| Module | Models | In the code |
|---|---|---|
| `Dispatcher` | abstract: what a Runtime promises the goroutines that call it | |
| `Engine` | the engine goroutine | one action for each stretch of code between two things another goroutine can see |
| `EngineProps`, `EngineProofs` | its properties, refinement of `Dispatcher`; their proofs | |
| `AsyncOps` | abstract: what an event loop promises JavaScript | |
| `EventLoop` | drivers, closures stage by stage, the managers' goroutines, Wake, Close | |
| `EventLoopProps`, `EventLoopProofs`, `EventLoopAloneProofs`, `MCEventLoop` | properties, refinement of `AsyncOps`, proofs, symmetry for TLC | |
| `WaitLine` | abstract: what wait and notify promise each other | |
| `Atomics` | atomic operations, wait, waitAsync, notify | |
| `AtomicsProps`, `AtomicsProofs`, `MCAtomics` | properties, refinement of `WaitLine`, proofs, values for TLC | |
| `Pipe` | abstract: what a stream promises, in either direction | |
| `Streams` | readers and writers of streams, JavaScript's controllers and pump, HTTP handlers, closeAll | a lock's critical section, or what lies between two channel operations |
| `StreamsProps`, `StreamsProofs` | properties, refinement of `Pipe`; their proofs | |
| `Mailboxes` | abstract: what a mailbox between two threads promises | |
| `Workers` | a parent's script, its delivery of messages, the goroutine and script of each worker, terminate | |
| `WorkersProps`, `WorkersProofs`, `MCWorkers` | properties, refinement of `Mailboxes` in both directions, proofs, values for TLC | |
| `HttpServer` | abstract: what a server that is started and stopped promises its clients | |
| `Pool` | ListenAndServe, StopHTTP and Close, request handlers, worker loops | each read or write of a field that another goroutine writes is a step |
| `PoolProps`, `PoolProofs`, `MCPool` | properties, refinement of `HttpServer`, proofs, symmetry for TLC | |
| `ChannelLemmas` | what sending to, receiving from and splitting a channel do to what it holds | |

`map` in `PROJECT.json` gives the lines of every definition. A definition whose comment begins with "Variant" is not
part of a specification: it is the definition after it with a plausible mistake, and the property named beside it in
`PROJECT.json` fails with it.

### Engine

A *call* is one use of `dispatch`: by an API function that looked at `closed` (`Eval`), by a goroutine of the runtime
that did not (`Bridge`), or by goja's `EvalWithContext`, which sends by itself. A function is named by its call;
`callCh` is a bounded sequence. The backend is a variable that never changes, because the three differ: JSC's dispatch
selects between the send and `doneCh` and its `Close` sends a cleanup function through `callCh`; goja and qjswasm look
at `closed` and then send without a way out. The `select` of the loop is a free choice, as Go's is. A function that
calls back into Go may dispatch again and is executed in place (`LoopCallback`, `LoopReentrant`). A refused dispatch
yields the result "nothing": `Eval` returns `nil, nil`.

### EventLoop

A driver's closure runs in stages: four drains (`DrainOrder`, in the order of `tickManagers`), the look at
`__asyncDone`, the JavaScript timers, the second look, then one stage for each question of `hasPendingLocked`
(`CheckOrder`, in its order; fsManager's answer is two stages because it reads a counter and then a queue). Every
goroutine may step between two stages. Only one closure executes at a time, which is what `Engine` shows of dispatch;
the model keeps of it `engine`, `closed` (dispatch may do nothing) and `down` (nothing is executed any more).

An operation goes through the steps of its goroutine (`gor`): for a file operation counter, event, Wake; for a request
stream, headers event, Wake, removal; for a process event and Wake, its entry going only when the exit is delivered;
for a bridged promise dispatch, Wake, counter; for `Atomics.waitAsync` Wake and then dispatch, so that nothing wakes the driver
after the promise has settled (`sharedbuf.go:399`; `AsyncAnswers` excludes it). `settled` is what JavaScript has been told, `tracked` what managers
count. A callback may start another operation, and so may another goroutine's script. `EvalAsync` has the globals it
polls, and which driver's promise an operation settles is in `awaits`.

Time is abstract: a timer, a deadline and a context end at any moment or never. Sleeping for timers that are not due is
a sleep that only a token, a deadline or a context ends; the 10ms poll (`pendingPollDefault`, used when there is no
timer ahead) ends by itself.

### Atomics

Memory is a function from cells to integers of `Width` bits; add and sub wrap. A wait is the sequence load, addWaiter,
select, removeWaiter, last look; each is an action, since only addWaiter, removeWaiter and notify hold `waitMu`. and, or and
xor are the loop of `sabAtomicCAS`; compareExchange is a load followed by a swap, as in the code. `waitAsync` runs its wait in
a goroutine and settles through the engine goroutine, which is busy until the script has filed the promise.
`cast` says which waits, agents and kinds of operations take part in a behaviour; TLC takes three such settings
rather than their product.

### Streams

A stream between Go and JavaScript is a sequence of numbered chunks; the last item of an inbound one is `End`, which
stands both for the final chunk (`done`) and for one that carries an error. An inbound stream has the goroutine that reads
the body (`reader`: at the top of its loop, reading, waiting for room, ending), the chunks in Go (`chunks`), the token of
`drain`, and in JavaScript a controller or a buffer; the headers event of its response travels separately, through
`fetchManager`, so that chunks may reach JavaScript before there is a controller. An outbound stream has the pump in
JavaScript, `dataCh`, `doneCh` and the HTTP handler's goroutine that empties them. A write that finds `dataCh` full
holds the engine goroutine (`engine.op = "write"`), and with it everything else that JavaScript or a delivery could do.
The critical sections of cancelStream and closeStream are actions of their own, and closeAll looks at a `doneCh` and closes
it in two steps, because it does not take `s.mu`; it holds `sm.mu`, so nobody looks a stream up meanwhile (`Unlocked`).

Facts that writing the model showed, and that are not disagreements with a promise of the code:

- A pump that writes more than 16 chunks before its Response has been handed over waits for a reader that does not
  exist yet, on the goroutine that would hand it over (`buncompat.go:769-770`, `streambridge.go:178`). A pump whose
  response was handed over after stop had answered its request has no reader either (`buncompat.go:419-431`). Both wait
  until the runtime is closed, and everything else that needs the engine goroutine with them: `Stuck`.
- The server has no `WriteTimeout` (`buncompat.go:391-395`): a client that neither reads nor hangs up keeps its handler in
  `w.Write`, and a pump that has filled `dataCh` behind it keeps the engine goroutine: `Stalled`.
- A stream cancelled while its reader waits for room never gets its final chunk and stays in `streamManager`
  (`streambridge.go:109-111`), where `hasActive` counts it: the loop does not end by itself. The same goes for a response that came
  too late for its request, which nobody will read or remove. `OnlyCancelledLinger` says that these are the only two ways.
- closeAll closes `doneCh` under `sm.mu`, closeStream and cancelStream close it under `s.mu`: with a Close of the runtime
  any of the three can panic. `OnlyCloseCrashes` says that nothing else makes them. closeAll also makes the HTTP handler end a
  response as if it were complete, which is why a response counts as told of its end only if its own pump closed it.

### Workers

`msgToWorker` and `msgToParent` are bounded sequences; messages are numbered as they enter, so a message dropped for want
of room is no step at all, and a reader can ask which numbers arrived. The parent's script, deliveries and `terminate` are
steps of one engine goroutine (`Js`), and so are the worker's; delivery takes a batch for all workers and hands it
out message by message, during which handlers may create, post and terminate. What was delivered, who threw, and
which message of a worker was the last to be reported (`reported`) or to be lost in a batch that ended early (`cut`) are history
variables. `hasRt` is the unsynchronised field `rt`: terminate may see it unset until a message of the worker has been
received (`LooksUnset`). A message is plain, a failure (`errors`) or one that `JSON.parse` rejects (`garbled`): the code quotes
the text of a failure with Go's `%q` (`worker.go:96`, `157`), whose escapes `\a`, `\v` and `\x..` are not JSON, and
`postMessage(undefined)` sends an empty string. `Strands` is finding 1 as it meets the goroutine of a worker: its dispatch races with
the Close that terminate calls, and waits for ever.

Facts the model showed: `__workerDeliverEvents` returns at the first failure (`worker.go:360`), and leaves with an exception at a
handler that throws and at a message `JSON.parse` rejects (`worker.go:355`), so the messages and failures behind it, of
whatever worker, are lost, although `worker.go:248` says that "processEvents drains messages from all workers and delivers
them to JS"; a failure whose own text is not JSON never is reported. `FailureReported` therefore excepts just the failures that
were taken by such a batch. terminate of a worker whose start-up failed meets a nil Runtime and panics; the entry
of a worker that ended stays in `workerManager` until it is terminated, and keeps the loop alive. terminate waits for the
worker's script (`worker_test.go:96-98` says that it "would deadlock" with an active loop: the model lets Close wait for ever,
and asks nothing of a run in which it does, `Hung`). Close of the parent never looks at `workerManager`, although
`worker_test.go:99` says "The worker is cleaned up when the parent runtime closes". The goroutine of a terminated worker waits for
ever with a failure it cannot put into a full channel.

### Pool

One ListenAndServe after the other, each with its *generation* of channels and loops `<<generation, i>>`, so that a
handler that read the channels of one generation is told from one that read those of the next. The fields `httpServer` and
`workerChs`, which StopHTTP empties and ListenAndServe reads again, are variables, and each access is a step. `raced` records
that ListenAndServe, StopHTTP or Close was called while one of them was at work; the code has no lock against that, and the
properties say what holds as long as it does not happen.

A request remembers the server it came in through (`via`), since a stop closes the connections of that server:
`http.Server.Close` (`pool.go:217`) ends those with a request in flight too and does not wait for handlers. The worker loop leaves the
response with the handler (`Reply`), and the handler writes it (`Respond`): to the client, or, if the server has been stopped meanwhile, to a
connection that is closed. Only the first counts as answered. `HttpServer` says what that leaves to clients: a request is answered
with its own response, or still in flight, or cut by a stop of its own server; after a stop nothing is in flight that has not been cut.

Facts the model showed: "StopHTTP stops the HTTP server and drains in-flight requests" (`pool.go:208`) is true of the work on
requests already in a channel, which is finished before StopHTTP returns (`AcceptedInHand`, `JoinLoops`), and of nothing a client
sees: the connections were closed before the drain, and handlers that have not sent their request yet panic on the closed channel. `Addr` answers
before the channels exist, so that a Close right after it races with ListenAndServe and either makes it panic or misses the
server; a batch that is answered while another goroutine's Close shuts the Runtimes is answered with what an earlier batch left in
`resps`. The last two need calls that race, which the properties leave out (`raced`, `calm`).

## Runs

| Run | Module, cfg | Shows |
|---|---|---|
| `engine` | `EngineProps`, `MCEngine.cfg` | two calls and two Closes on each backend, `callCh` of one: nothing lost; callers see a `Dispatcher` (`ImplementsDispatcher`); Close joins, releases the context once and never waits for what cannot come (`CleanShutdown`); calls and Close return |
| `engine_stranded` | `MCEngineStranded.cfg` | violation, see Findings |
| `loop` | `MCEventLoop`, `MCEventLoop.cfg` | two operations of any of the six kinds with a Close at any time: managers that keep an operation until it is delivered implement `AsyncOps`, no lost wake-up, no double delivery, pending work keeps each driver going, EvalAsync answers with its own value |
| `loop_live` | `MCEventLoopLive.cfg` | outcomes are delivered and EvalAsync returns, even if a timer lies ahead for ever |
| `loop_unfinished`, `loop_own` | `MCEventLoopUnfinished.cfg`, `MCEventLoopOwn.cfg` | violations, see Findings |
| `atomics` | `MCAtomics`, `MCAtomics.cfg` | each waiter ends one way, notify takes the first of the line (`WaitLine`) and counts right, promises are not lost, updates are atomic, waits end |
| `atomics_exchange`, `atomics_sleep` | `MCAtomicsExchange.cfg`, `MCAtomicsSleep.cfg` | violations |
| `streams` | `StreamsProps`, `MCStreams.cfg` | a body and a response on one runtime, with cancellation, a broken connection and Close at any time: both are pipes, buffers are bounded, only cancelled streams and late responses linger, only Close can close `doneCh` twice, waits can end (`WaitsCanEnd`) and do, except those called `Stuck` and `Stalled`, the end reaches the script |
| `workers` | `MCWorkers`, `MCWorkers.cfg` | two workers that start, fail, talk, throw and are terminated: the channels are `Mailboxes` in both directions, failures reported, terminated goroutines end, terminate panics only early |
| `pool` | `MCPool`, `MCPool.cfg` | three requests on two Runtimes, a server started twice, two calls of StopHTTP or Close: an accepted request stays in hand, a stop is complete, a panic needs a race or a stop of the server in question, and clients see an `HttpServer` (answered with its own response, or cut by a stop) |

Deadlock is not checked (`CHECK_DEADLOCK FALSE`): every one of these systems stops when its callers have
been served and nobody calls again. What must not stop is stated as liveness.

### Bounds

- Engine: two calls and two Closes. The interesting meetings are of one call with one other call (for a place in a full
  `callCh`) and with Close; two Closes are needed for `closeOnce`. A capacity of one makes the channel full at once; 64
  in the code. One callback for each function.
- EventLoop: two operations, so that one can start the other, or be ahead while the other needs a token; one driver,
  two in `loop_own`. Operations are interchangeable and a symmetry set in the runs without liveness. In `loop` the two
  operations are both of kinds that keep their entry, with a Close and every mode, or both timers, files or requests,
  without (`OneFamily`).
- Atomics: one cell of two bits (wrapping takes two bits at most, sign is a matter of reading), two waits or two agents,
  two operations altogether: `OpsBound`. Notify wakes any number of those that wait.
- Streams: one stream in each direction, so that a full `dataCh` also holds up the body; two chunks each (`Bound`), buffers
  of one, so that the buffer is full before the source ends. Streams of one direction meet only in deliveries,
  which treat each for itself.
- Workers: two workers, channels of two. One sends two messages, the other gets one (`Posts`, `Sends`), and either
  may fail: enough for a message behind another, a failure behind or before a message of another worker, and a full channel.
  The channel to a worker carries one message only, so that its order rests on the proof of `Refinement`, which is for any number.
- Pool: three requests, two of them in flight at once (`Clients`), two Runtimes, channels of one: two requests meet in one
  channel, and one finds it full. Two generations and two stops, since a race needs two. Batches hold one request; larger ones are left to the proofs,
  which hold for any `BatchSize`.

### Fairness

- The engine goroutine always goes on (weak fairness of its step: it is a Go goroutine with nothing to wait for but
  its channels). A call that has begun goes on. A send that waits for room is strongly fair, because Go's channels
  queue blocked senders in order of arrival.
- A closure or a function sent to the engine goroutine is reached (strong fairness of `ClosureBegin`, `Setup` and
  `Resolve`), for the reason `Engine` gives. A goroutine that has its answer goes on.
- Nothing outside is fair: nobody has to call or to close, an operation need not end, a timer, a deadline or a context need
  not come. In Atomics a finite timer fires.
- In Streams somebody drives the loop, and a read of a body returns (a request has a timeout). A write to a connection need not
  end, nor do cancellation and Close come; a closeAll that has begun goes on.
- In Workers the parent's loop is driven, a failure is sent once there is room, and the script and the loop of a worker whose
  engine goroutine has gone return, since a dispatch is refused then (or strand, which is a step of its own). Nothing else
  ends by itself: neither a start-up, nor a script, nor the Close that waits for one.
- Pool has no fairness: its properties are about what may happen. That the work on an accepted request will be done is stated as
  what keeps it possible (`AcceptedInHand`: it is in one place, and the loop of that place has not ended).

## Findings

1. `engine_stranded`: `engine_jsc.go:852` says "dispatch sends fn to the dedicated JSC goroutine and blocks until it
   completes". Only the send is guarded by `doneCh`. A function that was sent after the cleanup function of `Close` may
   be left in `callCh` when the loop takes `stopCh`; its caller waits at line 868 for ever. goja and qjswasm share this.
2. `loop_unfinished`: `eventloop.go:103` says "RunEventLoop processes the event loop until all pending operations
   complete". A request that fails takes itself out of the map as it queues its event (`fetch.go:207-211`), and
   `hasActive` does not look at events: between drain and check, the loop finds nothing pending and returns. File
   operations have the same gap between counter and event (`asyncfs.go:49`); the run has both. A third way, which takes more steps:
   `streamManager` is asked before `fetchManager` (`eventloop.go:529`), and a request that is registered with the one
   and forgotten by the other between the two questions (`fetch.go:220-247`) is seen by neither.
3. `loop_own`: `engine_jsc.go:93` says "The Runtime is safe for concurrent use from multiple goroutines". Two
   `EvalAsync` share the globals they poll (`eventloop.go:177-182`); one can return the other's value.
4. `atomics_exchange`: `sharedbuf.go:123` speaks of "Atomic operations". `compareExchange` returns a value it loaded before a
   separate swap (156-161), so that a script may see the expected value although nothing was swapped.
5. `atomics_sleep`: `sharedbuf.go:163` says that `sabAtomicWait` "blocks until the int32 at byteOffset changes from value".
   It compares at 166 and joins the queue at 176 under another lock: a store and notify in between are missed.

Not a run of its own, because `ImplementsHttpServer` shows it in the positive: "drains in-flight requests" (`pool.go:208`) does not
hold for the clients of those requests, whose connections `srv.Close` (217) closes before the drain; see Pool above.

## Proofs

All proofs are for any sets of calls, closers, operations, drivers, cells, waits, agents, streams, workers, requests and
stoppers, and any capacity, width, batch size and number of Runtimes. They assume only the named assumptions on constants
of the modules they are about. Every safety property of a passing run, every action property and every refinement is a theorem;
the table says which.

| Module | Proved of every instance |
|---|---|
| `EngineProofs` | `TypeOK`, `NoLostCall`, `CleanShutdown` (and its parts `CloseJoins`, `CleanupOnce`), `HonestAnswers`, `ImplementsDispatcher` |
| `EventLoopProofs` | `TypeOK`, `ToldOnce`, `PendingKeepsAlive`, `ImplementsAsyncOps` |
| `EventLoopAloneProofs` | `OwnResultAlone`; `NoLostWake` for one driver |
| `AtomicsProofs` | `TypeOK`, `OneWayOut`, `WokenAreOk`, `PromiseKept`, `UpdatesAtomic`, `ImplementsWaitLine`; what and, or, xor make of each bit |
| `StreamsProofs` | `TypeOK`, `Backpressure`, `WaitsCanEnd`, `OnlyCancelledLinger`, `OnlyCloseCrashes`, `ImplementsPipe` |
| `WorkersProofs` | `TypeOK`, `MessagesAccounted`, `OnlyEarlyTerminatePanics`, `ImplementsMailboxes` |
| `PoolProofs` | `TypeOK`, `AcceptedInHand`, `OwnAnswer`, `StopIsComplete`, `OnlyStopPanics`, `ImplementsHttpServer` |

`EngineProofs`: the inductive invariant says where the function of each call is (`CallInv`: not sent, in the channel,
running, or executed once), where the loop is (`LoopInv`: no function twice in `callCh`), how far Close has come
(`CloseInv`: one goroutine inside `closeOnce`) and where the cleanup function is (`CleanupInv`). None of the properties is
inductive alone: that a waiting caller's function is somewhere needs that no function is in the channel twice, and that
the context is released once needs that one goroutine only is in Close. Lemmas on sequences (`ChannelLemmas`)
say what sending and receiving do to a channel. In the refinement of `Dispatcher` receiving a call's function is `Begin`, its end is
`Finish`, the return of a caller is `Answer`, setting `closed` is `Close`, the exit of the engine goroutine `GoDown` and the return of the
Close that joins `Join`; everything else, the cleanup function included, is a stutter. That a refused call is never
executed later is the step `Begin` with `CallInv`: what is in `callCh` has a caller that waits or has given up.

`EventLoopProofs`: the heart is `CheckInv`. While a closure asks the managers one after the other, operations move on; it
says that a live operation is not of a kind that has already been asked. It holds because a live operation is tracked
(`TrackedInv`), because nothing can be started while the closure is asking (the engine goroutine is busy), and because
an operation stays with the manager of its kind as long as its goroutine works. `OpInv` says that an outcome is on its way in one
place at a time. The refinement of `AsyncOps` is for kinds whose manager keeps its entry until the outcome is delivered
(`Keepers`: timers, processes, promises, waitAsync). For files and requests it is false: finding 2. What remains true of them
is `PendingKeepsAlive`: a request is seen until its goroutine has queued the headers, and, by `BodyInv`, so is every body whose
headers JavaScript had when streamManager was asked, because what is registered later has not been delivered.

`EventLoopAloneProofs`: `OwnerInv` and `LookInv` follow the value of a promise from the operation through `__asyncResult` to the
driver: with one EvalAsync all of it is its own, and its closure, which has seen `__asyncDone` false before it asks the managers, can find
them idle only if no operation is left to settle its promise (`CheckInv` again). `WakeInv` says that whatever is queued at a manager
the driver has already drained in this round, or will not drain before it sleeps, has a token in `wakeCh` or a goroutine about to
send one. `OwnResultAlone` holds for any number of drivers beside the one that calls EvalAsync, `NoLostWake` for one driver.
With two drivers the latter is false: one whose context has ended may take the token and return, and the other sleeps on.

`AtomicsProofs`: `QueueInv` says that a queue holds only waits of its own cell that still wait, each once and none that has a token;
`WaitInv` and `PromiseInv` say where a wait, its answer and its promise are. `CountInv` ties what the notifies have counted to
the tokens and the "ok" answers, and `waitAsyncCount` to the promises not yet settled: a wait that is woken as its timer
ends gets its token in the last look, so the count stays right. Lemmas (`CutHolds`, `WithoutHolds`) say what a queue holds when a
waiter is cut out of it. `ValueInv` says that what the cells and agents hold are values of `Width` bits. It needs that and, or
and xor of two values are values: their result is a sum over the bits, a recursive function. The library's theorems on
induction take a predicate as a parameter and cannot be cited here, so the module proves induction over a set of numbers
(`SetInduction`) from the library's fact that the order of the naturals is well-founded, then that a recursive function exists (`RecursionExists`), and with both that each bit of the
result is what the operation makes of the two bits at its place (`Bitwise`). `ReturnsOld` is the arithmetic of sabAtomicAdd and
sabAtomicSub: the old value worked out of a sum that may have wrapped is the old value. `UpdatesAtomic` follows, with the compare-and-swap
of the loop seeing to it that the value loaded is the value replaced. In the refinement of `WaitLine` the fate of a wait is read off
its answer, its token and its place (`Fate`); addWaiter is `Enter`, a removeWaiter that still finds its waiter is `GiveUp`, one
that comes after a notify a stutter, and the steps that answer are `Refuse` and `Return`. That only a wait with a timeout gives up needs
`TimedInv`, and that no fate is turned by the step of another wait is `Moves`. `WokenAreOk` is proved only: `WaitLine` makes the same count.

`StreamsProofs`: `InInv` puts what a controller has been given, or what is buffered for one still to come, before what is in Go's buffer
(`Chain`): together they are the first items of the body, and all that has been read until the reader returns. So a delivery never meets
the end before the last chunk, and takes all there is (`CutSlice`). `FlowInv` says the same of the connection and `dataCh`; `EndInv`
says who may close a stream and when it is listed, `DoneInv` that `doneCh` is closed once while nobody closes the runtime,
`CloserInv` that closeAll has cancelled the stream whose `doneCh` it is about to close.
In the refinement of `Pipe` a read or a write maps to `Send`, any other step to a `Receive`, which may be of nothing.
`WaitsCanEnd` is the safety half of `RoomEndsWait` and `WriteFreed`, and needs an invariant of its own (`WayInv`): a reader that has
looked at the buffer and found it full is not overtaken by the delivery that empties it, because that delivery leaves a token
(`ReaderWay`); a write to a full stream has a handler in its loop, or none (`WriterWay`); and a cancelStream in progress has
marked its stream as cancelled before it takes it off the map (`CancelMarks`).

`WorkersProofs`: `ToWorkerInv` and `ToParentInv` say of what has been delivered, is in the batch and is in the channel, put together, that
it ascends and that it is everything sent unless something was thrown, reported or terminated; a message can then neither
be delivered twice nor overtake another. `FlowInv` ties the fields of the goroutine to that: who has no Runtime has sent nothing
but failures, legible or not (`Mute`). Lemmas proved from the indices say what is left of an order when a part is dropped (`SubAscends`). The refinement of
`Mailboxes` is two instances of it, one for each direction: entering a channel is `Write`, a handler is `Read`, the end of a batch
and everything else is `Lose`, which of a sound box is of nothing. A box that the model takes apart, into channel and batch, is one box there, so that
`TakeMessages` is a step of nothing too.

`PoolProofs`: `HandInv` says where a request that waits for its response is: in the channel its handler read or in the
batch taken from it, never in both or twice, and that a loop ends only with an empty, closed channel. `ServeInv` and
`LoopInv` say what the fields hold as long as calls have not raced: which loops are active, that somebody who will wait for
them knows them (`mine`), and that no loop is active when Runtimes are shut. From that `AnswerInv` follows, which is `OwnAnswer` with the
responses not yet sent. `CutInv` ties a request to its server: whatever server a request came in through is open or has been stopped, and
without a race the channels its handler finds are those of that server, and open, until it is stopped. That gives the second half of
`OnlyStopPanics`. Without `~raced` `OwnAnswer`, `StopIsComplete` and `OnlyStopPanics` are false, which is why the properties carry the condition, and
`HttpServer` has `calm`. In the refinement of `HttpServer` the work is in `Manage` and `Drop`: when starting and stopping are through, no
accepted request may be left and all others are through or cut (`RestDrained`, from `AcceptedInHand`, by which a waiting request has a loop
that has not ended, from `StopIsComplete`, by which all loops have, and from `CutInv`, by which no open server is left to belong
to); and whoever is dropped has been cut, again by `CutInv`.

Only model-checked: liveness, which is out of the prover's reach (`CallsReturn`, `CloseReturns`, `EventuallyTold`, `AsyncAnswers`,
`WaitEnds`, `CancelEndsReader`, `RoomEndsWait`, `EndReachesScript`, `WriteFreed`, `FailureReported`, `TerminatedEnds`). Safety
halves of them, that what is waited for can still come, are proved: `NoLostCall` and `CleanShutdown` for the first two, `NoLostWake` (checked and
proved for one driver) for the next two, `OneWayOut` for `WaitEnds`, `WaitsCanEnd` for `RoomEndsWait` and `WriteFreed`.

## Not modelled, and why

- What a function does when it is executed on a context that Close has already released (JSC): it is undefined
  behaviour of a C library; the model lets it finish.
- Microtasks: reactions run as part of the step that settles a promise. Exceptions of timer callbacks are swallowed by
  the code; a delivery whose callback throws loses the rest of its batch (`asyncfs.go:217-232`), and the model assumes callbacks
  do not throw.
- `Tick()`, immediates, intervals, `clearTimeout`; custom tick managers; output of processes.
- Wake-ups of the loop by streams and workers: their modules take a driven loop for granted; `EventLoop` is about whether it is.
- Of the pool: `Eval`, `Exec`, `Broadcast` (calls of `Engine` on each Runtime), `NewPool`, the conversion of requests and responses. A dispatch
  to a Runtime that is being closed may also wait for ever (finding 1); in `Pool` it does nothing. Accept errors of `Serve`.
- Of `Ramune.serve`: batches of requests, upgrade, WebSockets and stop; a response with a stream is in `Streams`.
- SharedArrayBuffers inside messages to workers; `__go_worker_drain`, which nobody calls.
- A timer that another goroutine's script starts does not wake a loop that sleeps for a later one. The model has
  this (`ExecStart`), but without time nothing can be said about lateness.
- Memory order of a plain element assignment to a shared array (`sharedbuf.go:457-487`): it counts as a store. What `int32` makes of a number
  out of range (`sharedbuf.go:277`) is up to the processor; the value an operation is given may be any.
- The parts listed as `not_modelled` in `PROJECT.json`. More than four fifths of the Go files under `src/` are the vendored TypeScript compiler
  and its linter (`internal/tsgo`, `internal/rslint`), and much of the rest is a transpiler, polyfills and bindings of libraries: they
  have no protocol to check, and the share of lines that is modelled stays small whatever is added.

## Plan

Done: `Engine` with `Dispatcher`, `EventLoop` with `AsyncOps`, `Atomics` with `WaitLine`, `Streams` with `Pipe`, `Workers` with `Mailboxes`, `Pool` with `HttpServer`,
and the proofs named above. Left, in this order:

1. `Timers`: the JavaScript timer table, intervals, clearing while firing; against a reference "fires once unless cleared".
2. `Sockets` and `Serve`: the order of connection and data events, upgrade and stop.
