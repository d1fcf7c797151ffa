# asionet: a TLA+ development

asionet is a C++ library over boost::asio: asynchronous UDP and TCP operations
with timeouts, typed messages, request/response services, and helpers to wait
for handlers and to sequence them. This directory holds specifications of its
concurrent core, TLC instances that check them, and TLAPS proofs of the theorems
that hold for every instance. Everything is translated from `src/include/asionet`
and `src/src/Wait.cpp`; paths below are relative to those.

## 1. The system

### Components, their state and what makes them correct

| Component | State | Operations | Correct when |
|---|---|---|---|
| `AsyncOperationManager` | `running`, `canceled`, pending container (queue or replacer), recursive mutex | `startOperation`, `finishOperation` (through a `FinishedOperationNotifier`), `cancelOperation`, `isCanceled` | one operation executes at a time, none starves, a cancellation reaches its target and no other |
| `Timer` | boost timer, manager (replacer), one `AsyncState` per timeout | `startTimeout`, `startPeriodicTimeout`, `cancel`, wait handlers, `nextPeriod` | the latest timeout wins, a canceled one stays silent |
| `Closeable` | the object, one `Timer` and one `WorkSerializer` per operation | `timedAsyncOperation`, `Closer::close` | every operation ends within its timeout with the right error; a timeout hits its own operation only |
| `DatagramSender` | UDP socket, manager (queue) | `asyncSend`, `cancel` | sends one after another, each reported for its own reasons |
| `DatagramReceiver` | UDP socket and buffer, manager (replacer) | `asyncReceive`, `cancel` | the latest receive wins, each reports its own error, or nothing if canceled |
| `ServiceServer` | acceptor, `running`, manager (replacer), one session per connection | `advertiseService`, `cancel`, accept loop | accepted connections are served; a stopped advertisement ends and frees the port |
| `ServiceClient` | TCP socket, manager (queue), the call's `timeout` and `startTime` | `asyncCall`, `cancel`: resolve, connect, write, read header and data | one call at a time uses the socket, every part is due when the call is, a call fails for its own reasons only, each call ends |
| `Resolver` | closeable resolver (a flag and a boost resolver), manager (queue) | `asyncResolve`, `stop` | one at a time in order, each reported for its own reasons, none starves |
| `Stream` | a `streambuf` per connection, the frame being written | `asyncWrite`, `asyncRead` (two timed reads, a late `consume`) | messages arrive whole, once, in order; the next read begins at a header |
| `Frame`, `Utils`, `ConstBuffer` | header of 4 bytes, views | encode and decode the header, views on the data, check of a datagram | what is framed is what is read; nothing is read beyond what was received |
| `Socket`, `Message` | none of their own | timed connect, send, receive; encode, decode | the first error is the one reported |
| `Wait` (`Waiter`, `Waitable`) | `ready` flags, mutex, condition variable | `await`, `setReady`, `setWaiting`, wait expressions | whoever waits for a condition that holds returns |
| `Worker`, `WorkerPool` | threads in `context.run()`, work guards | construct, `stop`, `join` | handlers run while it lives, all threads end |
| `WorkSerializer`, `Monitor` | a strand, a mutex | wrap a handler, lock a value | wrapped handlers exclude each other |

### How they interact

A component that must not run two operations at once gives an
`AsyncOperationManager` a *canceling operation* and starts everything through it.
The state of a running operation is an `AsyncState`, shared by the handler
closures; it contains the notifier whose destruction, at the latest, ends the
operation and launches the next one *inside the same call*, under the manager's
mutex. I/O goes through `timedAsyncOperation`: it starts a `Timer` that closes
the object, initiates the operation, and wraps the handler to cancel the timer
and to derive the error from the object's being open. Handlers run on whichever
worker is in `context.run()`; users call from any thread, handlers included.

### What is hard

* **Interleaving.** Flags (`canceled`, `ServiceServer::running`, `is_open()`) are
  read outside the mutex and acted upon later.
* **Handlers already queued.** A timer that expired or an I/O operation that
  completed cannot be taken back; each handler must find out by itself that it is late.
* **One object, many operations.** The next operation uses the socket that the
  timeout of the last one may be about to close.
* **One timeout, many operations.** A call is a chain of up to five timed operations,
  each given what is left of the timeout of the whole.
* **Buffers that outlive a read.** The frame is consumed after the user's handler returned,
  and the next read may be begun inside it.
* **Partial failure.** Opening, binding and accepting may throw half way through a launch.
* **Liveness without help.** A peer may never answer; replaced, canceled and timed
  out operations must end all the same.
* **Waiting inside handlers.** `await` in a handler runs other handlers, nested.

`PROJECT.json` lists every such hazard at its line with the properties about it.

## 2. The modules

```
Operations                       identities of operations
SequentialOperations             abstract: one at a time, in order
AsyncOperationManager            implements SequentialOperations
  +- Timer                       a manager + one boost timer
  +- ServiceServer               a manager + one acceptor
  +- ManagedOperation            a manager + TimedOperation on one object
  |    +- DatagramSender         ... on a socket, with the queue
  |    +- DatagramReceiver       ... on a socket, with the replacer
  |    +- Resolver               ... on a resolver, with the queue
  +- ServiceClient               a manager + an INSTANCE of TimedOperation whose
                                 operations are the parts of the calls
TimedOperation                   timedAsyncOperation on a closeable object
Frame                            headers, frames, views: pure operators
Channel                          abstract: whole messages, once, in order
  Stream, MCStream               asyncWrite and asyncRead over Frame; implements Channel
Waiter, MCWaiter                 await / setReady
<Module>Proofs                   theorems about <Module>; those about TimedOperation,
                                 DatagramSender and Resolver are in ManagedOperationProofs
```

**`AsyncOperationManager`.** Every method holds the mutex from first to last
statement, so each is one action: `StartOperation(o)`, `FinishOperation` inside
`Notify(o)` and `DestroyState(o)`, `CancelOperation`. `pending` is the container;
`notifier[o]` is the notifier of `o`'s `AsyncState` (`enabled` until it has
finished the operation). A launched operation gets its notifier in the step that
launches it. Three history variables follow which live operations were asked to
stop (`asked`), at which a `cancelOperation` was aimed (`struck`), and which it may still
hit because it found none live and left `canceled` set (`doomed`): all until one is
launched, then that one. No guard reads them. An identity is `Fresh` again when its
state is gone.

**`SequentialOperations`** states what the users rely on: a set `current` of at
most one operation and a sequence `waiting`. The refinement maps `current` to
the operations with an enabled notifier and `waiting` to `pending`.

**`Timer`** extends the manager: `phase[o]` is where the wait and the wait
handler of timeout `o` are. The boost timer is abstract: an armed wait may expire
at any time, a cancellation turns an outstanding wait into a queued handler with
an error and does nothing to an expired one. Each read of `canceled` in the
handler and in `nextPeriod`, the calls, and the re-arming are separate steps,
because they run without the mutex.

**`TimedOperation`** models `timedAsyncOperation` for a succession of operations on
one object: begin (timer started), `Initiate`, `SystemDone`, the timeout
(`ExpireTimer`, `EnterTimeout` past the timer's check, `CloseOnTimeout`), and the
completion handler (`Complete` cancels the timer, `Decide` makes up the error,
then the user's handler). `Workers` bounds the handlers that have begun and not
returned. The `Timer` inside is replaced by what module `Timer` shows of it:
`cancel()` silences a timeout that has not gone past its check
(`CanceledIsSilent`), and no other. That the close lambda runs on any worker
follows from `Timer::TimeoutHandler` being a `std::function<void()>`: the executor that
`WorkSerializer` bound to the lambda is not seen by the timer.

**`ManagedOperation`** puts the two together for the objects whose timed operations are
run by a manager. A launch happens under the manager's mutex and is two steps (timer
started; operation initiated) since a timeout needs no mutex; `MutexFree` keeps the
steps of the other methods out meanwhile. `Launched` is what a manager launches when it
finishes an operation. The module also has the properties its users share:
`SocketHasOneUser`, `StoppedIsNoSuccess` and `CanceledNotOutstanding`.

**`DatagramSender`, `DatagramReceiver`** are such objects. The receiver adds the check of `isCanceled()`, the frame check and the
decoding of `asyncReceiveFrom` and `asyncReceiveDatagram`, and `bind()` throwing.

**`ServiceServer`** extends the manager: `accept[o]` is the accept loop of an
advertisement step by step, `session[c]` the life of a connection. Its launch
ends with `async_accept`, so it is one step. A connection that the accept handler gives to
no session is `undelivered` until that handler returns (`DropConnection`), which may be
after the next handler has run.

**`Resolver`** is another, a queue of timed operations on the `CloseableResolver`, whose
`close()` does nothing when the flag says closed and whose `async_resolve` does not look
at the flag. A timeout that passes between the timer's start and the initiation
therefore cancels nothing, and leaves a flag that makes `stop()` cancel nothing either.

**`ServiceClient`** extends the manager with the queue. A *part* is a pair of a call
and one of `resolve`, `connect`, `write`, `header`, `data`; the timed operations of all
parts are one instance of `TimedOperation`, named `Socket`, with one worker. `Continue(p)` is
the handler of a part that succeeded: it begins and initiates the part that
follows, with a deadline computed as the code computes it (`UpdateTimeout` where the
`AsyncState` is written, `PassRemaining` where `asyncConnect` and `asyncRead` subtract
their own time). `FinishCall(p)` closes the socket, notifies the manager, which launches
the next call in the same step, and enters the user's handler; `Return(p)` destroys the state.
`IsOpen(p)` is the flag of the call's resolver or of the socket; `async_connect` opens
the socket. The clock is `age`, counted from the launch of the running call.
`interrupted` is a history of the calls that lost an open object.

**`Frame`** has the conversions by what they compute: shifts and masks are
division and remainder by `ByteRange`, 256 in the code. **`Stream`** moves the bytes of
one direction of a connection: `AsyncWrite`, `HandOver` (the system takes a byte),
`WriteHandler`; `AsyncRead`, `ReadSome` (a byte arrives and `async_read` looks for room in
the streambuf again), the two completions, `ReadInvalid` (a full streambuf ends
`async_read` without an error), `ReadFails`, and `Consume`, which runs when the user's
handler has returned. `late` is what is still to be consumed. Either end may be closed at any
time, which is all that a timeout, a `cancel()` or a lost peer mean here.

**`Waiter`** is independent of the others: workers with a *stack* of handlers
(each may be in `await`, running another one), a posted-handler queue, external
threads on the condition variable, `context.stop()`. `Needs` gives the wait
expressions in disjunctive form. The mutex is never held across a step.

Definitions under the comment "Defect:" are not part of any specification. Each
is a variant with a plausible bug that a property is known to reject
(`mutants` in `PROJECT.json`).

## 3. What is checked

Deadlock is checked but in `stream`, where both ends may be closed for good, and in the two
runs on `await`, where a stopped context ends everything. All `Op` sets are model
values and reusable, so n identities allow histories of any length with n operations
alive at once. No state constraint and no symmetry is used.

| Run | Instance | Distinct states | Shows |
|---|---|---|---|
| `resolver` | 3 resolutions, queue, 2 workers | 22104 | the manager in a real user: `OneAtATime`, `CancelSticks`, refinement `Sequential`, `StoredOperationLeaves`; `StoppedIsReported` |
| `timer` | 2 one-shot, 2 periodic timeouts, replacer | 502 | one wait at a time; replaced timeouts do not wait; `CanceledIsSilent`, `CanceledEnds`, `LostOnlyIfAsked`, `ReplacementStarts` |
| `sender` | 3 sends, 2 workers | 27030 | `SocketHasOneUser`, `CanceledNotOutstanding`, `StoppedIsNoSuccess`, queued sends start |
| `receiver` | 3 receives, 1 worker, port may be taken | 2712 | `ReplacedNotOutstanding`, `InterruptedOnlyIfStopped`, `StoppedIsNoSuccess`, `CanceledIsSilent`, `SilentOnlyIfCanceled`, launched receives end and replacements start |
| `server` | 3 advertisements, 2 clients, any threads | 7435 | `AcceptHasOneUser`, `CanceledServesNoMore`, `DroppedOnlyIfStopped`, `StoppedEnds` |
| `client` | 2 calls by name, 1 by endpoint, timeout of 1 tick | 43208 | `SocketHasOneUser`, `TimeoutKept`, `AbortedOnlyIfInterrupted`, `InterruptedCallFails`, `EveryCallEnds` |
| `stream` | 3 messages of 4 sizes, both ends may close | 174075 | refinement `InOrder` of `Channel`, `Aligned`, `InvalidOnlyIfTooLarge`, `MessagesArrive`; the streambuf keeps its maximum |
| `waiter` | 1 worker, 4 handlers, 2 external threads | 41806 | `AwaitReturns`, `StopUnwinds`, `NoLostWakeup`, `SleeperReturns` |

The other four runs are those of section 4. Some properties are narrower than one
would like, because the code does less: `ReplacementStarts` of `Timer` speaks of
one-shot timeouts, that of the receiver of receives that were launched,
`StoppedEnds` of an advertisement whose accept completes, and `EveryCallEnds` relies on
the operating system for a resolution whose timeout came too early. The type
invariants of the other modules (`TimerTypeOK`, `SenderTypeOK`, ...) hold in the
instances above; most are also proved, or conjuncts of a proved invariant.

**Bounds.** Three operations are one that ends, one that runs and one that waits
to replace it or is queued behind it; the fourth of the timer's run gives two of each
kind. Two workers give every pair of concurrent handlers; users'
threads are unbounded since every public call may happen between any two steps.
Two clients are one in service and one being accepted.

In `client`, a call with a host name has all five parts, one with endpoints starts
with the connect, and either may follow the other. A timeout of 1 and ages to
`MaxAge` = 2 tell apart a part that begins with all, none and less than none of the
timeout left. In `stream`, a byte is a bit (`ByteRange` = 2), so that headers
stay four bytes and announce up to 15; messages are empty, of less than, of exactly and
of more than the maximum size of 2, and the three of them are one read, one being read
and one in the connection. `MaxSent` bounds the history. In `waiter`, `a` and `b`
wait for plain handlers and may be nested either way round, one external thread
waits for a handler that waits itself, the other for a plain handler and a
waitable set outside the context.

**Fairness.** Actions of the library are weakly fair: a worker in `run()` executes
what is queued, a call that has begun returns, a user's handler returns, a timer
expires. The system owes nothing: `SystemDone`, `Connect` and `AcceptFails` have no
fairness, nor have user calls. `EnterTimeout` and `Complete` are strongly fair:
they need a free worker, of which others may take advantage again and again, and
asio's FIFO handler queue gives each its turn. `Return` of the two datagram
modules is strongly fair because its guard `MutexFree` speaks of all threads while
the thread it stands for has already initiated what it launched. In `ServiceClient` the
one worker is never idle while a handler is queued (`WF` on the disjunction of what it may do
next), time passes while a call runs, and resolving and connecting are given up by the
operating system; writing and reading are not. In `Resolver` resolving is, for the
same reason. In `Stream` the system moves the bytes of an open connection and the reader
reads on; the writer need not write and nobody has to close anything. In `Waiter`
the handlers others wait for are posted (`WF` on `Post`): a wait for something
nobody posts proves nothing.

## 4. Where the code departs from what is said of it

Four runs exhibit a counterexample to a statement in the repository; `findings` in
`PROJECT.json` quotes the statements.

* `timer_replaced`: `nextPeriod` does not know about replacement. If a periodic
  timeout is in its handler when it is replaced, it re-arms for ever and the
  replacement never starts.
* `timed_serialized`: the strand is lost, so with two workers the close lambda
  runs beside the completion handler (`HandlersInSequence`).
* `client_canceled_resolving`: `cancel()` closes the socket, which is not open while the
  host is resolved; `async_connect` opens it, and the canceled call goes on, although
  `AsyncOperationManager.h:43` says that the canceling operation "cancels the currently
  executing operation".
* `waiter_inside_pool`: `run_one()` is not woken by `setReady()` of another worker.

More behaviours show when a constant of a passing run is changed, or another
property of the module is named in its cfg:

* `Workers = 2` and `InterruptedOnlyIfStopped` (`timed_serialized` with two operations): the
  late close lambda closes the socket of the next operation. With one worker it holds.
* `StoredOperationLeaves` in the instance of `receiver`: `bind()` throws after `running` was
  set and before there is a notifier; the receiver never starts a receive again.
* `StoredOperationLeaves` in the instance of `server`: an accept handler past its check
  reopens the acceptor another thread has just closed. The old advertisement then lasts
  until one more client connects and keeps the port bound.
* `LostOnlyIfAsked` (run `timer`), `SilentOnlyIfCanceled` (`receiver`) and
  `DroppedOnlyIfStopped` (`server`) fail without `\cup doomed`: `cancel()` on an idle
  object leaves `canceled` set for the next operation. Users cannot avoid it, since
  timeouts and receives end by themselves. The one-shot timeout or receive that is
  started next loses its handler, the advertisement that is started next drops every
  connection it accepts. The three properties hold as they stand: one operation may pay
  for an idle `cancel()`, the next, and no other. `timedAsyncOperation` itself cancels
  timers that may be idle (`Closeable.h:118`), but starts none of them again.
* `StoppedIsReported` is about the error that `timedAsyncOperation` makes up, which the
  resolver passes on. The sender does not: `asyncSendTo` (`Socket.h:159-163`) tells the
  user of an interrupted send, timed out or canceled, that it failed
  (`failedOperation`), never that it was aborted. What holds for its user is
  `StoppedIsNoSuccess`.
* `Nested = TRUE` (run `stream`): two workers, or an `await` in the handler, let the next read
  complete before the frame of the last is consumed. It then takes the old header for
  the new one: with `MaxMessageSize = 6`, which leaves room for a second header,
  `InOrder` and `Aligned` fail; with 2 the read finds the streambuf full and
  `InvalidOnlyIfTooLarge` fails.
* `Needs` with `b` waiting for `a` and `a` for `w` (run `waiter`): awaits nest in LIFO
  order only, and a handler waiting for one that is suspended beneath it blocks the
  worker (`AwaitReturns`).

One constant describes the user's part without a property about it: with `StrictDecoder = TRUE` (receiver and client) the message is decoded before the error is
looked at, so a decoder that throws on an empty buffer, as the one in the
repository's README does, turns every error into a decoding error.

## 5. What is proved

All theorems are checked by TLAPS for arbitrary constants under the named
assumptions of the modules. Assumptions in theorem statements are given here.

**`AsyncOperationManagerProofs`.** `OneAtATime` is not inductive: it needs that
`running` is set exactly while an operation is live, that stored operations are
neither live nor stored twice (else a hand-over would launch a live one), and that
nothing is stored while idle. `ManagerInv` is the conjunction, with `CancelSticks`,
`ReplacementIsAnnounced` and `CancelHasCause`, which says whose `cancelOperation` has set
`canceled` when it is found set. `FinishPreservesInv` does the hand-over once
for `Notify` and `DestroyState`; lemmas `PushedFacts` and `PoppedFacts` say
what the containers do. Results: `ManagerInvariant`, `ManagerOneAtATime`,
`ManagerCancelSticks`, and `ManagerImplementsSequential` (initial states map to
initial states, each step to a step or a stutter).

**`TimerProofs`.** `TimerUsesManager`: every step of the timer is one of its manager or
leaves it alone, so the manager's theorems carry over. `TimerInv` adds that the phase of
a timeout and its notifier tell the same story, from which follow `TimerOneWait` and
`TimerCanceledIsSilent` (a struck timeout finds `canceled` set at its check because
cancellation sticks). `TimerLostOnlyIfAsked` is the converse: a timeout whose wait was
aborted, or that finds `canceled` set, was asked to stop while it ran, or is the one
that an earlier `cancel()` without a target hit. `AskedInv` adds the first half to
`TimerInv`, where the second is `CancelHasCause`. `TimerReplacedDoesNotWait` is about one-shot timeouts,
beside any periodic ones; of periodic ones it is false (`timer_replaced`).

**`WaiterProofs`.** `WaiterNoLostWakeup`, for any threads and expressions: a thread
goes to sleep only when its expression is false, in the critical section in which it
looked, and `ready` grows only in steps that leave a notification to be made.

**`ServiceServerProofs`.** `ServerInv` adds to the manager's invariant that exactly the
live advertisement has an accept loop, and that a connection is in hand only while an
accept handler is queued or runs. The server is not a plain user of the manager, because
an `advertiseService` that throws clears `canceled` on the idle manager, but it
preserves the manager's invariant (`ServerKeepsManagerInv`). `ServerAcceptHasOneUser`
follows directly and `ServerCanceledServesNoMore` as for the timer.
`ServerImplementsSequential` needs the same detour: the advertisement that throws is a
stutter of the abstract execution. For `ServerDroppedOnlyIfStopped`, `StopInv` adds that
`running` is cleared only when the advertisement was asked to stop, and that a handler which
has a connection in hand gets past the service only then or when the advertisement is the
first after a `cancel()` that found none.

**`ServiceClientProofs`.** Three inductive invariants, each containing the one before.
`TimeInv`: `startTime + timeout` is the timeout of the call while a part is under way,
which is why every handler computes the same deadline (`ClientTimeoutKept`, for any set
of calls). `OwnInv`: with the manager's invariant, the live call and no other has one
part under way, a timer belongs to a part whose completion handler has not begun, and
the worker is in one handler; that gives `ClientSocketHasOneUser`. `OutcomeInv`: a part
that was initiated finds its socket or resolver closed exactly when its call was
interrupted. It needs three facts about the order of the parts: the socket is closed
while the host is resolved and before a first part is initiated, so that what comes then
takes nothing (`SocketComesLater`, `NothingToLose`), and a resolver found open stays so
(`ResolvedIsOpen`). From it follow `ClientAbortedOnlyIfInterrupted` and, with the fact
that a part comes by its error in its own handler only, `ClientInterruptedCallFails`.
The last two invariants assume finitely many calls, to count the handlers of the one
worker.

**`StreamProofs`.** For bytes of any range: a header holds every size below
`HeaderLimit` (`HeaderRoundTrip`), a frame tells its reader exactly its message
(`FrameRoundTrip`), and a datagram that was cut short is not accepted
(`ShortDatagramInvalid`). They assume that the message fits the header, which Frame's
constructor does not look at. On them rest the theorems about a connection, for any
messages, any bound on what is sent and any size of the buffer. `Aligned` is no
invariant by itself: `StreamInv` adds where in its frame the reader is (`ReaderAt`),
that what the running handler will consume is the frame of the last message
(`LateIsLast`), that what was delivered is what was sent first, and when the streambuf
may be full (`FullIsTooLarge`). With it follow `StreamStaysAligned`,
`StreamInvalidOnlyIfTooLarge`, `StreamTypeCorrect` and the refinement
`StreamImplementsChannel`. They assume `~Nested`, that a read begun in the handler of
the last completes after that handler has returned; section 4 has the counterexamples
without it. `FlattenSeq` is defined by a recursive function that some induction has to
show to exist; since the library's induction theorems cannot be instantiated here,
`NatSetInduction` proves the principle for sets of numbers from the theorems on finite
sets.

**`ManagedOperationProofs`.** First the timed operation alone. `TimedStoppedIsReported`
holds for any number of workers: whoever stops an operation leaves the object closed
until the operation has ended. `TimedInterruptedOnlyIfStopped`
assumes one worker and finitely many identities: a handler that
begins finds no other handler begun, so a timeout past its check still belongs to an
operation whose completion handler has not begun, and `cancel()` in the completion
handler comes in time.

Then its users. Sender and resolver are instances in the module, with the operators of
manager and timed operation shared, so that what is proved of the two is cited and not
repeated; lemmas `...Operators` and `...Methods` say that an instance's operators are the
shared ones. Both are queues: `QueueInv` is the manager's invariant, one timed operation
at a time, `StageFollowsNotifier` (the stage of an operation and its notifier tell the
same story) and that the object is closed while what runs on it was stopped. From it
follow `SenderSocketHasOneUser`, `SenderStoppedIsNoSuccess` (whatever the callers make
of the error, no success) and `ResolverStoppedIsReported`, the last although closing the
resolver may find nothing to cancel: nobody opens it before the next launch. `SenderInv`
adds that a send `cancel()` was aimed at has completed (`SenderCanceledNotOutstanding`).
`SenderUsesManager`, `ResolverUsesManager` and the two `...ImplementsSequential` hold
without an assumption on workers or calling threads.

**`DatagramReceiverProofs`.** The receiver is harder, because `bind()` may throw and
leaves `running` set without a notifier: `RunningMeansLive` is then false for good.
`KeptInv` is what is left of `ManagerInv`, with `Live # {} => running` in its place, and
suffices for all but the refinement; its `CancelHasCause` gives
`ReceiverSilentOnlyIfCanceled`. `ReceiverInv` (any number of workers) gives
`ReceiverReplacedNotOutstanding` and `ReceiverCanceledIsSilent`. `FailedInv` adds that a
receive which was stopped runs on a closed socket and has made up an error, for
`ReceiverStoppedIsNoSuccess`. `OwnReceiverInv`, for one
worker and finitely many identities, carries the argument of
`TimedInterruptedOnlyIfStopped` over to receives that are replaced and destroyed, for
`ReceiverInterruptedOnlyIfStopped`.
`ReceiverUsesManager` and `ReceiverImplementsSequential` assume `~BindMayFail`; section 4
shows what is lost without it.

**Refinement.** The six users of the manager implement `SequentialOperations`
(`TimerImplementsSequential`, `Server...`, `Client...`, `Sender...`, `Resolver...`,
`Receiver...`), because their steps are steps of the manager, and the server's steps are
steps of the abstract execution besides.

**Model-checked only.** Every safety invariant and action property that a passing run
checks is proved. What stays with TLC is liveness: `StoredOperationLeaves`, `CanceledEnds`,
`ReplacementStarts`, `EveryOperationEnds`, `StoppedEnds`, `EveryCallEnds`, `MessagesArrive`,
`AwaitReturns`, `StopUnwinds`, `SleeperReturns`, and the fairness part of `Sequential`: they
rest on `ENABLED`, which the prover does not handle.

## 6. What is not modelled

* Exceptions of asio calls other than `bind()` and the acceptor's constructor.
  `bind()` throwing in a launch from a worker ends the process, as does any
  exception that leaves a handler.
* Destruction: the context with handlers queued, an object with operations running,
  `Waitable`s that go out of scope, captured references.
* `ServiceClient` with more than one worker: the close lambda of a resolution refers to a
  resolver that the completion handler owns, and may outlive it. With one worker
  it cannot.
* The gap between two endpoints inside the composed `async_connect`, in which the socket
  is closed and opened again: a connect is one operation here.
* Data races on the boost objects themselves (timer, socket, acceptor): their calls
  are atomic here. `ServiceServer::handleService`, which returns no value, is
  taken to return.
* Contents of messages outside `Stream` and `Frame`, sizes beyond 32 bits, real time.
* A user of `Stream` who reads on after an error: what is left of a broken frame would
  be taken for a header. `ServiceClient` and `ServiceServer` close the socket.
* `Monitor`, build files, tests.

## 7. Plan

1. Done: manager, timer, timed operation, waiter, datagram sender and receiver,
   server, framing and streams, resolver, client; theorems about all of them.
2. Server sessions as two timed operations; client and server composed over two streams.
3. `Worker`, `WorkerPool` and the context's life cycle: stop, join, destruction with
   handlers queued.
4. Theorems: the type invariants of server, client and waiter; in `Waiter`, that a
   handler is in one place only (posted, or in one stack once) and runs once for each
   post; in `ServiceClient`, that a call reports once.
