# A verification of rxcppuniq

`rxcppuniq` is a C++ library of reactive streams with unique ownership: a thread
pool with serial workers (`base/scheduler.*`) and flow-controlled streams built
from composable operators (`reactive/*`). This directory holds TLA+ modules of
it, configurations that model-check them with TLC, and proofs that TLAPS
checks. Paths below are relative to `src/rxcppuniq/`; lines of operators are
those of `reactive/reactive_impl.inc`.

## 1. The system

### Components, their state and what makes them correct

| Component | State | Operations | Correct when | Module |
|---|---|---|---|---|
| `ThreadPoolScheduler` (`base/scheduler.cc:95`) | queue `todo_`, `active_count_`, `threads_should_join_`, one mutex, one condition variable, threads | constructor, `Schedule`, `WaitUntilIdle`, `PerThreadActivity`, destructor | no task or wakeup is lost; idle means that nothing runs or is pending; an orderly shutdown neither aborts nor hangs | `ThreadPool`, `Scheduler` |
| `WorkerImpl` (`base/scheduler.cc:49`) | `steps_`, `running_`, `busy_`, the lifetime marker | `Schedule`, `MaybeRunNext`, the closure it submits, destructor | tasks of a worker run one at a time, in order, and all of them | `Worker`, `SerialExecutor` |
| `RequestBalance` (`reactive/reactive.h:594`) | one `size_t` | `Add`, `Remove`, `HasRequests` | it counts requests exactly until it is "infinite" | `RequestBalance` |
| `Subscription`, `Subscriber` (`reactive/reactive.h:114-279`) | a pointer to the stream, null after its end | `Request`, `Cancel`, `has_ended`; `OnSubscribe`, `OnNext` | the contract of streams, below | `StreamContract` |
| `GeneratingStream` (`:130`) | `state_`, `requested_`, `generating_`, the subscriber | constructor, `Request`, `Cancel`, `Generate` | the contract, without recursion, under any re-entrant call | `GeneratingStream` |
| `ChainingStream` (`:304`): `Map`, `StaticCast`, `Buffer` | the base subscription; the buffer | `Request`, `Cancel`, `OnSubscribe`, `OnNext` | the contract; no element is lost | `ChainingStream` |
| `MergeStream`, `MergeUpstreamSubscriber` (`:706-988`) | `next_` of each upstream, `current_index_`, two balances, `delivering_`, `self_lock_` | `Request`, `Cancel`, `MaybeDeliver`, `OnNext`, `ConsumeNext` | the contract; fair; nothing is lost | `MergeStream` |
| `PrefetchingStream` (`:503`) | buffer, two balances, `delivering`, `self_lock_` | as above, `MaybeDeliver`, `MaybeFill` | the contract; the buffer is not overrun; every event passes through it once | `Pipeline`, `PrefetchingStream`, `Operators` |
| `ConcatStream` (`:1044`) | current upstream, continuation, balance, `self_lock_` | as above, `SubscribeNext` | the contract; open requests reach the second stream exactly once | `Pipeline`, `ConcatStream`, `Operators` |
| `FlatMapStream` (`:1172`) | base and continuation subscriptions, two balances | as above, `OnNextCont`, `Terminate`, destructor | the contract; one continuation at a time, owned by the stream | `Pipeline`, `FlatMapStream`, `Operators` |
| `Single` (`reactive/single.h`) | a publisher | `Subscribe`, `ContinueWith` | the listener is called exactly once | `Operators` |
| `AsyncStream` (`:1398`) | two workers, the upstream subscription, the subscriber | as above, each as a task on a worker | the contract, between two threads; nothing deleted is used | `AsyncStream` |
| `Activity` (`example/examples.cc:457`) | a base worker, the thread-local `current_` | `Create`, `Schedule`, `current`, `Provide` | `current_` is the activity whose task runs; nothing leaks | `Activity` |
| `PolyValue` (`reactive/poly_value.*`), `SharedMsg`, `UniqueMsg` | an `absl::any`: a value, boxed or with a serializer | `Pack`, `Serialize`, `Unpack` | what is unpacked is what was packed, as the type it was packed as; the same over a network as in memory | `PolyValue` |
| `Status`, `StatusOr` (`base/monitoring.h`) | a code, a value | conversions, `RX_RETURN_IF_ERROR` | a value if and only if the code is OK | `Status` |
| `MoveToLambda`, `UniqueValue`, `UniqueObject`, `SharedObject` | owned pointers | moves and copies | one owner at a time | partly: `AsyncStream.holder`, `Activity.life` |
| logging and `StatusBuilder`, platform, test support, other examples | | | formatting, I/O | not modelled |

### How they interact

- A worker submits closures to its scheduler (`scheduler_->Schedule`, line 73)
  with its own mutex held; the pool's `Schedule` only takes the pool's mutex and
  never calls back, so this nested critical section is one step.
- The pool runs closures outside its mutex. Tasks may schedule tasks, on the
  pool and on workers.
- Streams talk by nested calls on one thread: `Subscription::Request` goes
  upstream and may, before it returns, come back as `OnNext`, which may request
  or cancel again. This re-entrancy is the hard part of every operator, so the
  stream modules have the call stack as state.
- A stream owns its subscriber and deletes itself after the end or at `Cancel`;
  a chain of operators is deleted as a whole. `Merge`, `Prefetch` and `Concat`
  decouple the lifetimes with `self_lock_`.
- Only `Async` moves a stream between threads, over workers. Activities are
  workers over workers.

### What is hard here

Lost wakeups with one `Signal` per task; the idle count that decides about
shutdown; a worker's `Schedule` against the end of its running task; the
closure that looks at its worker after the last task; re-entrant requests and
cancellation in the middle of a delivery loop; counters that saturate; ends and
errors that meet elements still buffered; requests carried over from one
upstream to the next; partial cancellation of several upstreams; a stream that
one worker deletes while another one calls it; objects destroyed by their own
tasks. `PROJECT.json` lists each hazard at its line with the properties that are
about it; one that the runs keep out, because the code does not handle it, has a
note that says so in place of properties.

## 2. Modules

| Module | Role |
|---|---|
| `Scheduler` | abstract: a set of tasks, started and finished in any order; `WaitUntilIdle` returns only when nothing is pending or running |
| `ThreadPool` | `ThreadPoolScheduler`; refines `Scheduler` |
| `SerialExecutor` | abstract: one queue and at most one running task per worker |
| `Worker` | `WorkerImpl` over what `Scheduler` promises; refines `SerialExecutor` |
| `RequestBalance` | the counter, as operators |
| `StreamContract` | abstract: what every stream owes to its subscriber, events requested and nothing behind the end, and that it is deleted by its end and by `Cancel`; a stream that was cancelled and is still there is `"cancelled"` |
| `GeneratingStream` | the sources; refines `StreamContract` |
| `ChainingStream` | `Map` and `Buffer` over an instance of `GeneratingStream` |
| `MergeStream` | `Merge` over an instance of `GeneratingStream` for all upstreams; refines `StreamContract` |
| `Pipeline` | what the next three have in common: sources that answer at once (an instance of `GeneratingStream`) or late, the call stack, the subscriber's side |
| `PrefetchingStream`, `ConcatStream`, `FlatMapStream` | one operator each, over `Pipeline` |
| `Operators` | composes them with a subscriber, free or that of `Single`; refines `StreamContract` |
| `AsyncStream` | `Async` over `SerialExecutor`; refines `StreamContract` |
| `Activity` | activities over `SerialExecutor` and the threads of a pool |
| `Status`, `PolyValue` | `StatusOr`; a type-erased value from its sender to its receiver |
| `ThreadPoolProofs`, `WorkerProofs`, `GeneratingProofs`, `ChainingProofs`, `MergeProofs`, `AsyncProofs`, `ObjectProofs`, `OperatorsProofs` | theorems, checked by TLAPS |
| `MC...` | instances for TLC |

The refinements compose: `ThreadPool` implements `Scheduler`; `Worker` assumes
what `Scheduler` promises and implements `SerialExecutor`; `AsyncStream` and
`Activity` run on `SerialExecutor`; every stream implements `StreamContract`.

### ThreadPool

One action is one critical section of `busy_`. A thread holds the mutex from
its acquisition to its release, or to `Wait`, which releases it; so `Enter` is
lines 146-161 from the decrement up to `return`, `Wait` or the release, and
`Rewake` is the same from the return of `Wait`. Both end in one of `LoopTake`,
`LoopWait`, `LoopExit`. `pc` says where a thread is between two critical
sections. `SpuriousWakeup` is there because a condition variable may return
without a signal. Running a task is `TaskReturns`, and whatever it schedules
meanwhile is `TaskSchedules`. The external thread (`owner`) schedules, waits
and destroys; `Destroy` is the locked part of the destructor, `Joined` its
loop of `join()`. A failed `RX_CHECK` sets `aborted` and nothing happens after
that. `Needs` gives tasks that block until others are done, as in the test
`ThreadsAreUtilized`; the assumption that blocking tasks are fewer than threads
excludes programs that deadlock by themselves. `EagerDestroy` selects the
usage: destruction after `WaitUntilIdle`, or as soon as no work is left.

### Worker

The scheduler is what `Scheduler` promises: any submitted closure may start at
any time, with any number at once. A closure goes through the stages
`pending`, `body`, `check`, `relock`: between them other threads schedule on
the worker. A worker may be destroyed at any moment at which its tasks have
returned (`MayDestroy`): that is the rule of `scheduler.h:44`, and what its owner
can learn from the tasks. The closure of the last task may have lines 78 to 84
before it then, and what comes of that is `fault`: the `RX_CHECK` of line 78
aborts with "Worker destroyed before all tasks finished", or line 81 locks the
mutex of the destroyed worker; the program does not go on. `started`, `scheduled`
and `returned` are history for the properties.

### The stream modules

A frame of `stack` is a call that has not returned; an action is the code from
one call or return to the next. Everything is nondeterministic that the library
leaves to the user: what a generator function yields, what the function of
`Map` returns, and what the subscriber does in `OnSubscribe`, in `OnNext` and
outside: request any count on any stream, cancel any stream, return. The
subscriber built by `MakeWithFlowControl` is one of these behaviours. A call on
a `Subscription` whose stream has ended is a programming error of the user
(`reactive.h:182`) and not taken; the same call made by the library itself is a
`fault`, as is any use of a deleted object and any failed `RX_CHECK`.

`ChainingStream` models both operators at once: `operator`, chosen initially,
says which one the stream is. A request is mapped with the width of `size_t`
(`SizeT`, modulo `KMax + 1`): `KMax` stands for the greatest `size_t` and is
small. In `MergeStream` an upstream in `Deferred` takes a request only when no
other code executes, and then serves it like any source.

`Operators` chooses one of the three operators initially (`kind`) and, of the
sources that may (`AnswersLate`, `SubscribesLate`), those that answer late: they
call `OnNext`, and `OnSubscribe`, when no other code executes. Source 1 is the
base; source 2 is the second stream of `Concat` or the first continuation of
`FlatMap`, source 3 its second continuation, and so on. Each operator adds its
own frames for the code after a nested call (`Fill`, `Deliver`, `Delivered`;
`Release`; `Terminate`). A stream that is shared through
`SharedSubscriberWrapper` lives while its lock is set or a source keeps the
wrapper (`SharedAlive`); `FlatMap` lives as long as its base, and takes its
active continuation along. The subscriber of `Single` is in `Operators` itself
(`SingleOnSubscribe`, `SingleOnNext`).

### AsyncStream

Tasks of the two workers interleave at each access to what they share, so `pc`
says where in its task a worker is: in upstream's loop, between the check of
`has_ended()` and the call behind it, in user code. `produceOn` and `consumeOn`
may be the same worker. `holder` is the owner of the subscriber: the stream, then
the task that delivers the end, which is what `MoveToLambda` expresses.
Upstream is a generating stream; no handler of `Async` calls back into it, so
its loop needs no call stack.

### Activity

A closure on a thread goes through `enter`, `body`, `leave`, `check`, `destroy`:
the activity's own task sets and resets `current_` around the user's task, then
the base worker checks its marker, and last the closure goes out of scope,
which may drop the last reference. `Collect` destroys what nothing refers to
any more: activities keep the closures in their base workers, and those keep
activities. A task may create activities, schedule on those it knows (`locals`)
and tell them who it is (`Provide`).

### PolyValue

A value is packed once and goes to its receiver in memory or over a network,
where it is serialized, and packed again on arrival as a `SerializedValue`. A
`SharedMsg` and a `shared_ptr` are shared with their sender, who may go on
writing. What tells types apart in memory is the C++ type of the object in the
`absl::any` (`Stored`): that of `T`, or `shared_ptr<T>` (`PointerTo[T]`, a type
like others) if `T` can be moved only. Bytes do not say which message they are
of: parsing them as another message fails or gives `Garbage`; a sender may pack
bytes, too (`SenderPacksBytes`).

## 3. Runs

Bounds: every task is scheduled at most once; `MaxElems` bounds the values of
a generator function, `MaxGrant` the events a user requests from one stream in
total, `MaxTasks` the tasks of activities, `MaxWrites` and `MaxTrips` what
happens to a `PolyValue`; all are constants of the modules and appear in guards.
`KMax` is the greatest `size_t`.

| Run | Instance | Shows |
|---|---|---|
| `thread_pool` | 3 threads, 4 tasks, one blocks on another | the count is exact (`ActiveCountExact`); no task is stranded, lost or duplicated (`NoStrandedTask`, `TasksConserved`); idle means done (`IdleMeansDone`); no abort (`NoAbort`); a task runs even though another one blocks (`NonblockingTaskRuns`); `WaitUntilIdle` and the destructor return (`WaitsEnd`); refinement of `Scheduler`, fairness included |
| `worker` | 2 workers, 4 tasks | a worker with tasks has one closure that comes back for them, and an idle scheduler has drained its workers (`IdleMeansDrained`); a worker destroyed when its tasks have returned leaves at most the rest of one closure behind, so what fails at `:78` or `:81` fails with all tasks finished (`OnlyTheRestIsLate`); refinement of `SerialExecutor`: every task begins in order, and gets its turn as long as nothing failed |
| `generating` | 2 streams that call each other, `KMax` = 3 reached | no recursion (`NoDeepRecursion`), nothing deleted is used (`NoFault`), refinement of `StreamContract`, fairness included |
| `chaining` | `Map` with a function that may fail and `Buffer(2)`, cancelled from everywhere, up to 5 elements, `KMax` = 15 reached and passed by the multiplication | overrun only after a flush (`OverrunOnlyByFlush`), elements conserved (`ElementsConserved`), end last but for a failure of `Map`'s function (`EndIsLast`), requests served (`RequestServed`) |
| `merge` | 3 synchronous upstreams, no error, no cancellation | `ValuesConserved`, `RoundRobin`, refinement of `StreamContract`, fairness included |
| `merge_faulty` | 3 upstreams, two of them deferred; errors; cancellation outside `OnNext` | whenever the loop goes on, an upstream has an element, or all that are merged are late and the counter is infinite since -1 was added to it (`LoopConditionTruthful`); the only check that fails is that of cancelling an ended upstream, in `Cancel` (`FaultCause`); nothing is left running (`NoUpstreamLeft`) |
| `operators` | `Prefetch` (buffer of 2, refilled at 1), `Concat` and `FlatMap` over up to 4 sources, at once or late; errors; a free subscriber and that of `Single` | no check fails (`NoFault`); every event passes through the buffer once and fits (`PrefetchConserves`); requests are carried from source to source exactly (`OwedIsRequested`); one continuation, owned by the stream (`ContinuationOwned`); nothing is left running when the stream is over, and the stream is gone, but for a cancelled `Concat` (`NoSourceLeft`); a `Single` over `Concat` or `FlatMap` is answered, once (`SingleAnsweredOnce`); refinement of `StreamContract`, fairness included, with the leak of `Concat` as its exception |
| `async` | two workers or one, 2 to 4 values, 6 requests | no check fails on either worker (`NoFault`); no method of the subscriber runs while it is destroyed (`SubscriberOutlives`); nothing is left (`NothingLeft`); refinement of `StreamContract`, fairness included |
| `activity` | 3 activities, 2 threads, 4 tasks | no check fails (`NoFault`); `current_` is right and an activity runs on one thread (`OneThreadEach`); everything is destroyed in the end (`NothingLeaks`) |
| `poly_value` | 9 types, 2 writes, 2 trips | what a receiver gets is what was sent, as the type it was packed as, with two exceptions (`TypeSafe`); who asks for the right type gets it, and only what cannot be serialized is lost (`RoundTrip`) |
| `merge_error` | 2 synchronous upstreams | **violated**: `NoFault` |
| `async_two` | one request for two events | **violated**: `NoFault` |

Why the bounds are enough. Two threads are needed for a task to race with
another, a third one for a signal to reach the wrong one of two waiters; four
tasks leave one queued while all threads are busy. A worker's behaviour depends
on its queue being empty, having one or several tasks. Sources interact by
nesting, and two sources with a value and an end each give every nesting of
request, delivery, cancellation and end; the balance passes through zero, one,
several, and saturation. Five elements fill `Buffer(2)` twice and leave a rest;
three events refill the buffer of `Prefetch` and wrap around it. Three upstreams
give `Merge` one that is ahead, one that lags and one that has ended. `FlatMap`
has a base and three continuations, so one follows another, the last being
cut off by the end or by an error. Three activities are a caller, a callee and
one that has neither; two threads let one destroy what the other one schedules
on. The run `activity` uses symmetry of threads and of activities, which only
occur as parameters (it checks no liveness); no other run does. The proofs of
section 4 do not depend on bounds.

What the runs leave to the user. These runs keep to a usage that the section
"what the violated runs say" shows to be necessary: in `merge` the upstreams
answer at once, and in `merge_faulty` nobody cancels within `OnNext`
(`UserCancel`); in `operators` the subscriber of `Prefetch` does not cancel
(`Cancels`), that of `FlatMap` does not cancel within the delivery of the end
(`CancelsInEnd`), has one request open if the base is late (`Patient`), and
never requests zero events (`Counts`); the second stream of `Concat` confirms its subscription at
once (`SubscribesLate`). In `async` the user has not requested the end behind a
value (`MinElems`, `MaxOpen`) and cancels when nothing is requested and no other
worker is inside the stream (`CancelsFreely = FALSE`).

Fairness. Threads are fair: each thread that can step steps eventually (the
mutex does not starve a waiter), a condition of `LockWhen` that holds is
noticed, tasks return when what they block on is done. User code returns from
callbacks. Nobody is obliged to schedule, request, cancel, wait or destroy.
`Worker` takes weak fairness of closures from what `Scheduler` guarantees
(`ThreadPool` implements `Scheduler` with its fairness). A single-threaded
stream has weak fairness of its next step: the thread executes. In `operators`
each late source has it for its own answers: a publisher delivers what was
requested of it. In `async` each worker begins and ends its tasks, and the code
in them executes; user calls are not part of it.

Deadlock is checked in every run; a system that is over stutters in
`Terminated`.

### What the violated runs say

1. *Merge with an error* (`:764`, run `merge_error`) aborts if another upstream
   has ended already: it cancels that one, too.
2. *Async with the end behind a value* (`:1390`, run `async_two`): upstream
   deletes the stream when it has sent the end, and the value that still waits
   on the consuming worker finds it gone and aborts. The subscriber of
   `MakeWithFlowControl`, one request at a time, never gets there.

The same modules show relatives and further corner cases by a change of
constants, or by a property on its own:

| Change | What happens |
|---|---|
| `fault = "none"` as an invariant of `Worker.cfg` | violated: a task tells its owner that all is done, the owner destroys the worker as `scheduler.h:44` allows, and the closure then aborts (`scheduler.cc:78`) or locks a destroyed mutex (`:81`). Only an idle scheduler tells that no closure is left |
| `EagerDestroy = TRUE` in `ThreadPool.cfg` | `NoAbort` is violated: threads count as active until they park, so a pool that is new, or whose task functions have all returned, aborts at destruction (`scheduler.cc:111`), though `scheduler.h:66` asks for "no active or pending work" only |
| none: `EndIsLast` has the exception | `Map` delivers the error of its function and goes on with the next element (`:424`; `reactive.h:247` says "only send once to terminate the stream") |
| none: `OverrunOnlyByFlush` has the exception | `Buffer`'s flush delivers two events for one request (`:475`; `reactive.h:190` says "never more"), also over `Prefetch` |
| `~fault` as an invariant of `Chaining.cfg` | violated: `Buffer` uses its deleted buffer and subscriber after a cancellation within `OnNext` (`:470`, `:477`); by `FaultOnlyByCancelWithinOnNext` it is the only way |
| `Counts` of half of the range of `size_t` in `Chaining.cfg` | `Buffer(2)` maps the request to zero, and it is lost (`:461`) |
| `UserCancel = "anywhere"` in `Merge.cfg` | the loop of `Merge` continues in a deleted object (`:875`) |
| `UserCancel = "outside"` in `Merge.cfg` | `Merge` aborts as in 1 when an ended upstream has its end in `next_` |
| none: `LoopConditionTruthful` has the exception `OnlyLateOnes` | adding -1 as a `size_t` to a saturating counter makes it infinite (`:858`), and the loop spins while only upstreams that answer later are merged, against the comment at `:871` ("One of the upstream subscribers will still have a value if the loop condition is true") |
| `Deferred = {1, 2}`, `N = 2` in `Merge.cfg`, `KeepsContract` alone | violated: the spin never ends, for the loop occupies the thread on which the late upstreams would answer. With late upstreams `RoundRobin` is violated too, as is intended: who has nothing is skipped |
| `"prefetch"` in `Cancels` of `Operators.cfg` | `Prefetch::Cancel` fails the check of `has_ended()` when the base has ended, and leaves `self_lock_` set (`:549`) |
| none: `NoSourceLeft` and `KeepsContract` have the exception `Leaks` | `Concat::Cancel` cancels the current upstream and leaves `self_lock_` set (`:1067`): the stream and its subscriber are never deleted and `has_ended()` stays false, against `reactive.h:176` ("The stream will be deleted, including the subscriber it holds") and `:154`. Every `Single` over a `Concat` that has a value leaks so. `Contract!Spec` in place of `KeepsContract` in `Operators.cfg` is violated for it |
| `"concat"` late in `SubscribesLate` for source 2 | between its two streams `Concat` has no upstream, and `Request` or `Cancel` fails (`:1068`) |
| `Patient = {}` | two requests before the base answers ask it for two elements; `FlatMap` ends with a flow control error and abandons a continuation (`:1203`, `:1218`) |
| `0` in `Counts` of `Operators.cfg` | `KeepsContract` is violated: without a continuation `FlatMap` asks the base for one element whatever was requested (`:1203`), and passes the end of the base on to a subscriber that has requested nothing, against `reactive.h:188` ("never more than the requested number are produced"). The first attempt to prove `OperatorsAreStreams` led here; its second assumption excludes such requests |
| `"flatmap"` in `CancelsInEnd` | cancelling within the delivery of an error deletes the stream that continues with `Terminate` (`:1280`) |
| none: `TypeSafe` has the exceptions | `Unpack<shared_ptr<U>>` succeeds on a packed `U` that can be moved only, and `Unpack<U>` on a packed `shared_ptr<U>`: both are stored as `shared_ptr<U>` (`poly_value.h:247`), against `poly_value.h:175` ("errors like trying to unpack a value which was packed using T' with T != T'"). It works in memory only; bytes have the same trouble with messages (`:271`). A packed `shared_ptr<SerializedValue>` is taken for bytes |
| none: `RoundTrip` has the exception `resent` | a value that arrived as bytes cannot be serialized again: it has no serializer (`poly_value.cc:23`) |
| `CancelsFreely = TRUE` in `Async.cfg` | the check of `has_ended()` and the call behind it race with the deletion on the other worker; so does the scheduled `Cancel` (`:1425`) |

Seen in the code beside the models: an `Activity` whose base worker is another
`Activity` aborts ("stale current Activity"), so bases in the model are plain
workers; `Unpack<U>` of a packed `shared_ptr<U>` moves the object out from under
the pointers that the sender has kept.

## 4. Proofs

Eight modules with theorems; each holds for every value of the constants that
satisfies the named assumptions of the module, and what the table gives in
parentheses.

| Module | Theorem | States | Inductive invariant |
|---|---|---|---|
| `ThreadPoolProofs` | `TypeCorrect` | `TypeOK` | itself |
| | `ActiveCountIsExact` | `ActiveCountExact` | `TypeOK /\ Counts` |
| | `NoTaskIsStranded` | `NoStrandedTask` | `TypeOK /\ Counts` |
| | `TasksAreConserved` | `TasksConserved` | `TypeOK /\ TasksConserved` |
| | `IdleIsDone` (with `EagerDestroy = FALSE`) | `IdleMeansDone` | all of these and `Quiet` |
| | `NeverAborts` (with `EagerDestroy = FALSE`) | `NoAbort` | `TypeOK /\ Counts /\ Quiet` |
| | `PoolImplementsScheduler` (with `EagerDestroy = FALSE`) | the safety part of `ImplementsScheduler` | `TypeOK /\ Counts /\ TasksConserved` |
| `WorkerProofs` | `WorkersAreDrained` | `IdleMeansDrained` | `IInv` |
| | `OnlyTheRestOfAClosureIsLate` | `OnlyTheRestIsLate` | `IOnce` |
| | `WorkersAreSerialExecutors` | the safety part of `ImplementsSerialExecutor` | `IInv` |
| `GeneratingProofs` | `StreamsAreNotUsedAfterDeletion` | `NoFault` | `IInv` |
| | `GenerateDoesNotRecurse` | `NoDeepRecursion` | `IInv` |
| | `StreamsKeepTheContract` | the safety part of `KeepsContract` | `IInv` |
| `ChainingProofs` | `TypeCorrect` | `TypeOK` | `IInv` |
| | `NoEventTooMany` | `OverrunOnlyByFlush` | `IInv` |
| | `NothingBehindTheEnd` | `EndIsLast` | `IInv` |
| | `EveryElementOnce` | `ElementsConserved` | `IInv` |
| | `FaultOnlyByCancelWithinOnNext` | `OnlyUnderCancel`: `fault` only in a `Buffer` cancelled within `OnNext` | `IInv` |
| `MergeProofs` | `TypeCorrect` (with `UserIsCareful`, as all of the module) | `TypeOK` | `IInv` |
| | `OverForAll` | `NoUpstreamLeft` | `IInv` |
| | `OnlyCancelFails` | `FaultCause` | `IInv` |
| | `TheLoopFindsOne` | `LoopConditionTruthful` | `IInv` |
| | `TheyTakeTurns` (with `Deferred = {}`) | `RoundRobin` | `IInv` |
| | `EveryValueOnce` | `ValuesConserved` | `IInv` |
| | `MergeIsAStream` | the safety part of `KeepsContract` | `IInv` |
| `AsyncProofs` | `AsyncNeverFails` (with `CarefulConsumer`, as all of the module) | `NoFault` | `IInv` |
| | `SubscriberIsThere` | `SubscriberOutlives` | `IInv` |
| | `AsyncLeavesNothing` | `NothingLeft` | `IInv` |
| | `AsyncIsAStream` | the safety part of `KeepsContract` | `IInv` |
| `OperatorsProofs` | `NothingFails` (with `CarefulUse`, as all of the module) | `NoFault` | `IInv` |
| | `NothingIsLeft` | `NoSourceLeft` | `IInv` |
| | `NoRequestIsLost` | `OwedIsRequested` | `IInv` |
| | `NoContinuationOutlives` | `ContinuationOwned` | `IInv` |
| | `TheBufferHoldsAll` | `PrefetchConserves` | `IInv` |
| | `AtMostOneAnswer` | the safety part of `SingleAnsweredOnce` | `IInv` |
| | `OperatorsAreStreams` (with no request of zero events of `FlatMap`) | the safety part of `KeepsContract` | `IInv` |
| `ObjectProofs` | `NoCheckFails` | `NoFault` | `IInv` |
| | `ActivitiesAreLockFree` | `OneThreadEach` | `IInv` |
| | `ActivitiesDoNotLeak` | `NothingLeaks` | `IInv` |
| | `ValuesAreTypeSafe` | `TypeSafe` | `PolyIInv` |
| | `ValuesMakeTheRoundTrip` | `RoundTrip` | `PolyIInv` |

*The pool.* For every finite non-empty set of threads and every set of tasks
(`BlockingAssumption` is needed for liveness only). `Counts` is the pair of
counting facts: the count is the number of threads that are not parked, and
sleeping threads imply at least as many woken threads as queued tasks. Each step
moves one thread between the sets of threads in a state (`MovesTo`, with the
lemmas `Joins`, `Leaves` and `Stays`), which changes their cardinalities by one
(`OneMoreOrLess`), in step with the count and the length of the queue: a
`Schedule` adds a task and a woken thread, a `Rewake` takes both away. A
thread that comes from the top of the loop may take a task too, and then the
queue is shorter than the woken threads, never longer; it goes to sleep only on
an empty queue. `TasksConserved` is inductive by itself: a task moves from the
queue to one hand to the done ones. `IdleMeansDone` is not: that nobody
schedules while the owner knows the pool to be idle follows from the count,
which is zero then (`Quiet`), so that no thread is running (`NobodyBusy`, from
exactness). Hence a task cannot spawn another, a queue that is empty remains
empty, and destruction finds the idle condition true.

*The pool implements `Scheduler`.* One lemma per action says which abstract step
it is: taking a task is `Start`, because tasks are distinct in the queue and the
hands (`TasksConserved`); the return of `WaitUntilIdle` is allowed to the abstract
scheduler, because the exact count leaves no task in a hand. With `EagerDestroy`
the statement would be false: the owner then learns of idleness otherwise.

*Workers.* For every set of workers and of tasks. `IInv` says of each worker:
it has at most one closure with the scheduler, and one exactly when `running_` is
set (`OneClosure`); what is in `steps_` implies `running_`; and every task it was
given has returned, waits in `steps_`, or is that of the closure (`NothingLost`). `Past` ties the stages of a
closure behind the task to the tasks that have returned: without it the end of a
closure could lose its task. A `Schedule` in the middle of a closure only
appends; `RunNext` exchanges the closure for the next task of the queue under
the mutex, so there is no state in which a task waits and nobody comes back. The
refinement reads the abstract queue off as the task of the pending closure
followed by `steps_` (`QueueOf`, with the lemmas `View` and `ViewAfter`): `Schedule`
appends to it, `Begin` takes its head, `RunNext` leaves it as it is. `IOnce` adds
where a task can be: with one worker, in its queue or with its closure, in one of
them, and not among those that have returned until its function returns
(`EachOnce`). A worker all of whose tasks have returned therefore has an empty
queue, and no closure but one that is past its task.

*Generating streams.* For every set of streams, whatever their subscribers call
on one another, to any depth of the stack. `IInv` has two facts about the stack.
`LoopOnTop`: `Generate` is at its loop condition only in the innermost call, and
then its stream exists, because it gets there from `Request` of a stream that
exists or after line 180 has looked. `FlagTruthful`: a stream has one execution
of `Generate` on the stack at most, and `generating_` says whether it has one as
long as the stream exists; a stream that was deleted in the middle of `OnNext`
has one with nobody to reset the flag, which is why the invariant asks nothing of
it. A call adds a frame and a return removes one (`CallAdds`, `ReturnLeaves`);
everything else follows from what the frame is. For the contract the status of a
stream is read off its phase and the frames that wait for the end to be taken
(`StatusIs`, `SameStatus`), with one lemma per action again.

*Map and Buffer.* For every size of the buffer, every request, a function that may
fail, and a subscriber that calls back and cancels from everywhere. One upstream bounds the stack, so `IInv` names
each stack that occurs (`Form`): a place `p`, the event `e` of the base that is
being handled, the event `d` that the subscriber was sent for it (`"failed"` for a
value that the function of `Map` refused), and what is below, `b`. Over these,
`Conserved` counts the elements (generated = delivered + failed + buffered + on
their way), and `Counted` the requests: `Size` events of the base
for each vector. The second is not linear in the constants, so the facts about
products that it takes are lemmas of their own (`Mapping` is one), and a multiplication that wraps
around only ever makes less of a request. Within `OnNext` the stream is there or
`cancelled` says that the subscriber cancelled it there (`Control`), which leaves
the two places of `Buffer` as the only ones that use what is deleted (`Safe`).

*Merge.* For any number of upstreams, each of which answers at once or, if it is
in `Deferred`, late. The stack is at most: an upstream that runs by itself,
`MaybeDeliver` called by its `OnNext`, and the upstream that this asks for its
next event. A context `c` says which of these are there and for which upstreams;
that no call nests deeper is `delivering_`, in `Control`. The rest is said of one
upstream at a time:

- `OneAhead`: there is exactly one token for each upstream that is merged: a
  request it has not answered, an event on its way, or one in `next_`. This is why
  `next_` is never overwritten.
- `Over`: an upstream that has ended has its end in `next_`, on its way, or taken;
  so an upstream is only cancelled when it has ended if its end is still in
  `next_`, which is the failure of run `merge_error`. `OnlyCancelFails` goes
  through the other actions: a step that fails ends with the lock dropped
  (`EndLeft`), which no other action does but `Finish`, and that finds the stream
  alive.
- `Conserved`: values are delivered, in `next_` or on their way.
- `Rounds`: if nobody is late, all upstreams are consumed once in each round,
  those before `current_index_` once more. `TheyTakeTurns` needs it and
  `Deferred = {}`: with late upstreams it is false, as the code intends (who has
  nothing is skipped).
- `Control` says of `available_balance_` that it is infinite from the first element
  consumed on (`StateChangedType`), and that before it counts something only if an
  upstream has an element. `TheLoopFindsOne` follows with `MergedIsThere`: an
  upstream that is merged and not late has its next element whenever the loop is at
  its condition.

`UserIsCareful` excludes a cancellation within `OnNext`, after which the loop
continues in a deleted stream (`:875`), and a `size_t` with two values, where the
request for one event would be an unlimited one. In the refinement the end is
paid for by a request that the balance of the code keeps; a later request may
saturate it, and `Paid` finds the request that has the same effect on the balance
of the contract.

*Prefetch, Concat and FlatMap.* For every size of the buffer, of `size_t` and of
the streams, each source answering at once or late. `CarefulUse` says of the
constants what section 3 lists for the run `operators`, with which sources may
confirm their subscription late, and that a full buffer is not the unlimited
request. As for `Merge` the nesting of calls is bounded, and a context `c` says
which calls there are: `c.p` is the place of the innermost one, the other fields
say what waits below, as the first source of `Concat` in whose `OnNext` the
switch was made (`sw`), or a continuation that has asked the base for its
successor (`h`). `IInv` has one part for each operator (`ConcatInv`,
`PrefetchInv`, `FlatInv`), which for the current context says

- what has begun (`Begins`): before `OnSubscribe` nothing was delivered; sources
  come in their order and only one by one;
- which source may execute there (`Current`, `Runs`, `Nests`): the current one, or
  one that is on its way out after its end;
- how the stream goes away (`Over`): once the end was delivered, nobody but the
  source whose handler delivers it is left, and the lock or the base keeps the
  stream until then;
- what is owed (`Owes`): the balance of the stream is what its current source
  still owes, less the event that is being handled. For `FlatMap` this is an
  equation of three counters, of which `Delta` keeps two equal though they
  saturate (`FlatDelta`); `AsksOnce` says that the base owes at most one element,
  and none while there is a continuation. With a late base this takes a patient
  subscriber, hence `Patient`;
- what the flags `generating_`, `delivering` say about the stack (`Flags`, `Runs`).

`PrefetchKeeps` counts the values: generated = delivered + buffered + on their
way; an end can only be last in the buffer. A step leads from one context to
another, with one lemma for each action and operator, so a failed check would
need a context in which it fails, and none has one (`NothingFails`). That a
continuation is owned is read off the contexts by `WhoRuns`: whoever runs is the
current continuation, or one that is about to be. In the refinement the same
lemmas as for `Merge` apply; `Over` there is what the subscriber can see of the
stream, and it can only grow (`Fading`).

*Async.* For any workers, producing and consuming on the same one or on two, and
every interleaving. `IInv` says for each kind of task how many there are and
where (`Beginning`, `Ending`, `Cancelling`); that values wait in order
(`ValuesIn`); and that the requests in the queue lead from what was served to
what was asked for (`Owing`, by the partial sums as a function, which `Append` and
`Tail` extend and cut). `CarefulConsumer` is what the run `async` assumes, as a
condition on the constants: one event is requested at a time where the end may be
among them, which run `async_two` shows to be needed; no cancellation while
events are under way (`:1425`); no unlimited request. The subscriber that
`MakeWithFlowControl` makes is careful in this sense as long as it does not
cancel. Then the end is not generated before the values were taken, so the
stream that is deleted behind the end has nobody left to call it.

*Activities.* For any number of activities, threads and tasks. An activity is
alive if and only if somebody has a pointer to it (`Owned`): the lemma
`CollectOwns` shows that `Collect` keeps this up whatever pointers a step drops,
if it makes none out of nothing. A thread in the middle of a closure has its
activity's base worker to itself (`Alone`), so `current_` is what its own closure
set. That nothing leaks is then the emptiness of queues and threads.

*Values.* `PolyIInv` follows the value: in memory (`InMemory`), under way (`OnWire`),
with the receiver (`AtReceiver`), nowhere yet (`Unpacked`), and says in which of
the forms plain, boxed, with serializer and bytes it is there. That bytes are told
from everything else rests on `shared_ptr<T>` being another type for every `T`
(`PolyValueAssumption`, lemma `NotBytes`).

Only model-checked: in every module liveness under fairness, which is outside of
the prover's reach, as are `ENABLED` and the fairness parts of the refinements
(`RequestServed` of `ChainingStream`, `NonblockingTaskRuns` and `WaitsEnd` of
`ThreadPool`, `SingleAnsweredOnce` where it says that the answer comes). Every
safety invariant that a passing run checks is the statement of a theorem, and so
is the safety part of every refinement.

## 5. Not modelled

- Platform, file I/O and test support: pure I/O. Logging and `StatusBuilder`:
  formatting; a failed `RX_CHECK` is `aborted` or `fault` in the models.
- `UniqueValue` is a checked pointer that no other part of the library uses.
  Comparison and casts of `UniqueObject` and `SharedObject` change no state.
- The example sieve and state machines: programs that use the library from one
  thread; the free subscribers of the stream modules contain what they do.
- Messages and source locations of a `Status`.
- Compositions of several operators in a row, other than an operator over
  sources that keep `StreamContract` at once or late, which is what every stream
  looks like from downstream.

## 6. What could follow

1. `AsyncStream` over `Worker` and `ThreadPool` themselves, without the abstract
   executors; `Async` upstreams of `Merge`.
2. Proofs about `Prefetch` under cancellation, should `Cancel` come to look
   whether the base has ended (`:549`).
