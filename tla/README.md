# ActivityFramework: models, model checking and proofs

TLA+ models of ActivityFramework, a C++20 library of *activities* (callable objects) that a
work-stealing thread pool runs, of *pipelines* that chain them, of signals and slots between
objects that belong to threads of the pool, and of versioned serialization. Paths below are
relative to `src/ActivityFramework/Src/Components/`; `src/README.md` is the library's own
README.

Contents: 1 the system, 2 the modules, 3 the runs, 4 bounds and fairness, 5 the proofs,
6 where the code departs from what it says, 7 what is not modelled, 8 plan.

## 1. The system

| part | state | operations | talks to |
|---|---|---|---|
| Activity queue (`TA_ActivityQueue.h`) | ring of N atomic slots, front and rear index | `push`, `pop`, `top`, `isFull`, `isEmpty`, `size` | every thread of the program, no lock |
| Thread pool (`TA_ThreadPool.{h,cpp}`) | per thread: a queue, a counting semaphore, a busy flag, a stop token, the index `trySteal` starts at | `postActivity`, `topPriorityThread`, the worker loop, `trySteal`, `shutDown` | queues, proxies |
| Activity, proxy, fetcher (`TA_Activity.h`, `TA_ActivityProxy.h`, `TA_ActivityComponents.h`) | affinity thread, creating thread, `stolenEnabled`, id; promise, shared future, `m_isExecuted` | `moveToThread`, `setStolenEnabled`, `operator()`, `result` | run by workers, waited for by callers |
| Basic pipeline (`TA_BasicPipeline.{h,cpp}`) | state Waiting/Busy/Ready, activities, results, start index | `add`, `remove`, `clear`, `reset`, `setStartIndex`, `execute`, `result` | posts its run to the pool, emits `stateChanged` |
| Auto, manual, steps, key chains (`TA_AutoChainPipeline.*`, `TA_Manual*Pipeline.*`) | the generator's position, step count, key index | `run`, `setSteps`, `setKeyActivity`, `skipKeyActivity` | generator coroutines |
| Concurrent pipeline (`TA_ConcurrentPipeline.*`) | the fetchers of the round | `run`, `clear`, `reset` | posts every activity to the pool from inside the pool |
| Holder and creator (`TA_PipelineHolder.h`, `TA_PipelineCreator.*`) | a pointer, the list of holders | forwards, `receivePipelineState` | owns a pipeline, connected to its signals over the threads of both |
| Objects and connections (`TA_MetaObject.h`, `TA_Connection.h`) | affinity, two multimaps of connections, pending counter; per connection the receiver, type, last arguments | `registerConnection`, `unregisterConnection`, `emitSignal`, `callSlot`, `destroyConnections`, `moveToThread`, `deleteLater` | posts to the threads of sender and receiver, waits with coroutines |
| Coroutines (`TA_Coroutine.h`, awaitables in `TA_Activity.h`, `TA_SignalAwaitable`) | frame, result, completion flag | `co_await`, `get`, generators' `next` | pool |
| Serialization (`TA_Serialization.h`, `TA_Buffer.h`, `TA_EndianConversion.h`) | buffer, offset, valid size, stream, version | `<<`, `>>`, `flush`, `close`, destructor | a file |
| Reflection and type lists (`TA_MetaReflex.h`, `TA_TypeList.h`, `TA_TypeFilter.h`) | none | the properties of a class and of its bases, look-up by name and by member | the serializer asks for an object's properties |
| Variant and tools (`TA_Variant.h`, `TA_CommonTools.h`) | a stored value; none | copy, move, `get` | |

What is hard, and what makes each part correct:

* **Queue.** `push` and `pop` move an index with a compare-and-swap and touch the slot before or
  after it in a step of its own. The ring must never wrap onto itself, an element must stay until
  it is claimed, and `false` must mean that the queue was empty at some moment of the call.
* **Pool.** A worker takes one permit and then drains its queue, a thief takes an element and no
  permit, so permits and elements do not match; still no queue may be left to sleep on. `top`,
  the flag and `pop` of a theft are three calls; a slot can be read a lap too early or twice.
  `shutDown` races with sleeping and stealing workers. Exceptions leave a worker's thread.
* **Pipelines.** A suspended generator outlives the call that made it: it has to be replaced
  together with the list, the results and the indices. Exceptions end it silently. `setSteps`
  mixes signed and unsigned. Nothing but the state keeps the caller and the run apart.
* **Holder.** A pipeline's state is stored and announced in two steps, and the announcement crosses
  up to two queues; announcements of the caller and of the run must not overtake each other.
* **Concurrent pipeline.** A run blocks a thread of the pool that its own activities may be
  queued on.
* **Connections.** One connection is in two maps of two objects on two threads, changed by two
  activities of one operation. Disconnects, emissions, destructions and other connects come
  between. Arguments live in the connection, not in the call.
* **Coroutines.** Every hop posts the activity and a helper that blocks a second thread until the
  first has answered, and resumes a frame its owner may have destroyed. A lazy task runs for the
  one who starts it.
* **Serialization.** Numbers straddle two buffers; `close` and the destructor end differently; a
  reader may look at a file that is still written; versions skip fields on both sides; what an
  object's fields are is computed from its bases.

`PROJECT.json` lists the hazards at their lines, with the properties that cover them or the
reason why none does.

## 2. The modules

| module | models | its state and actions in the code |
|---|---|---|
| `ActivityQueue` | `TA_ActivityQueue.h` | one action per atomic access: `PushBegin` loads the rear index, `PushCheck` compares it with the front index, `PushClaim`/`PushRetry` are the two outcomes of the exchange, `PushStore` is the store; likewise for `pop` and `top`. `log`, `head`, `tail`, `ticket`, `witness` are history |
| `BoundedFifo` | what the queue promises | abstract FIFO of N-1 elements |
| `ThreadPool` | pool, proxy | `PostActivity` (`Route`, `Reject`, `PushClaim`, `PushRetry`, `PushStore`, `Release`), `Worker` (`CheckStop`, `Acquire`, `Drain`, `Scan`, `StealPop`, `Read`, `Run`, `Body`), `ShutStep` |
| `ActivityService` | what the pool promises | new → accepted or rejected → running → done, nothing after the end |
| `Pipeline` | basic pipeline and the four chains | `Caller` is the program's thread, `Run` the thread of the pool; the generator coroutine is the record `gen` |
| `PipelineHolder` | holder and creator, over `Pipeline` | `HolderTurn` is an operation with the emission of `setState` it posts, `HolderRunEnd` and `Tell` the store and the announcement at a run's end, `Emission` and `SlotRuns` the queues of the pipeline's and the holder's thread |
| `ConcurrentPipeline` | concurrent pipeline on a pool | `RunStep` is the run with the `topPriorityThread` scan step by step, `Worker` the pool's threads |
| `Connections` | `TA_MetaObject` and `TA_Connection` | one action per activity an operation posts (`ConnectSender`, `ConnectReceiver`, …), the emission's loop, slot calls, `Drop` and `Destroy` of objects; the threads take from their queues (`Take`), and a thief looks at a head and pops afterwards (`Look`, `Rob`); `PostOther` posts what may be stolen, the helper of `invokeActivity` among it |
| `Coroutines` | eager and lazy tasks and `TA_ActivityFetcherAwaitable` | `Create` makes a task, eager or lazy, `Start` resumes a lazy one; `Call` posts the activity, `PostHelper` the helper, `Fetch`, `Resume`, `Store`, `Notify` are the helper's steps, `Get`, `Wait`, `Take`, `Drop`, `Discard` the caller's |
| `Reflection` | fields, bases and properties of the reflected classes | pure operators: aggregation, look-up, the list of properties of `PropertyInfos` |
| `Serialization` | serializer, buffers, byte order, over `Reflection` | `Writer` and `Reader`, one number at a time, over the properties of an object of a class |
| `ActivityQueue_proofs`, `ThreadPool_proofs`, `Pipeline_proofs`, `ConcurrentPipeline_proofs`, `Connections_proofs`, `Coroutines_proofs`, `Serialization_proofs` | | theorems about the module of that name; those of `Pipeline_proofs` are about `PipelineHolder`, too, those of `Serialization_proofs` rest on lemmas about `Reflection` |
| `RingArithmetic` | | lemmas about remainders, for the proofs about the queue and the pool |
| `MC*` | | values of constants for TLC |

How they compose. `ActivityQueue` justifies the step size of `ThreadPool`: the pool's rings keep
the claim of a slot apart from the access to it, and take the two loads and the exchange of a
claim as one step, since `Occupancy`, `FalseMeansEmpty` and `ClaimsAreFifo` say that a claim acts
on the queue as it is at the exchange. `ThreadPool` justifies the pool in `ConcurrentPipeline`
and `Coroutines` (queue operations in one step, semaphores and thieves kept) and the queues in
`Connections`. There the operations post only what is pinned (`setStolenEnabled(false)`), but a pinned
activity is not safe in its queue: `StolenOnlyIfEnabled` of `ThreadPool` fails, since a thief tests the
head and pops what is the head by then. So `Connections` keeps the two calls of a theft apart (`Look`,
`Rob`), and has activities that may be stolen for the thief to look at (`PostOther`): other work of the
program, and the helper that `invokeActivity` itself posts behind each part. Of the helper only the
delay is left out, that an operation returns when its helper has run; whether it returns at all is what
`Coroutines` is about.

`PipelineHolder` extends `Pipeline`: every step of the one is a step or a stutter of the other
(`HolderTheorem`), so that what is shown of a pipeline holds for one in a holder. Its two queues
are those of `Connections`, whose `InOrder` and `OnReceiversThread` say that they are queues for
whatever no thief has taken. `Pipeline` and `PipelineHolder` speak of such pipelines only: the run and
the announcements are pinned, and the two modules hold while no thread that looked at stealable work
ahead of one of them pops it instead. In `Coroutines` looking and popping are one step, so that what is
pinned there is not stolen. What these larger modules take over from `ThreadPool` holds under its
`StallFree`, with the theft of pinned activities as just said, and apart from the lost activity of
section 6.

Definitions called `<Action>_<Fault>` with the comment "Mutant" are the faulty variants that show
that a property can fail: each property of a passing run is violated when one definition is
replaced by such a variant (`PROJECT.json`, `mutants`).

## 3. The runs

| run | instance | states | shows |
|---|---|---|---|
| `queue_ring` | 3 slots, 2 pushers, 2 poppers, 1 thread that calls `top`, 2 calls each | 2.0 M | `Occupancy`: pops never pass pushes, at most N-1 elements. `StoredUntilClaimed`: no store lands on a slot in use. `ReadBack`: exactly what a claim can read — its element, or that of the lap before. `FalseMeansEmpty`. `ClaimsAreFifo`: implements `BoundedFifo` |
| `pool_steal` | 3 threads, 2 slots, 3 activities on thread 0 and one that was created there and is routed; one throws, two may be stolen | 0.4 M | `NoLostWakeup`, `BodyExclusive` (one body, one worker, even if the ring hands out a pointer twice), `StoredIsSafe` (between store and claim an activity stays, and its claimer reads it), `NeighbourNeverRobbed`, `ImplementsService` |
| `pool_live` | 3 threads, 2 activities, `shutDown` at any moment | 0.2 M | `StoppedHasPermit`; liveness: `StoredIsRun`, `ShutDownReturns` |
| `pool_lost` | 2 threads, 2 activities | violated | `NeverLost` fails, section 6 |
| `pipeline_chains` | 4 kinds, 3 activities of which one throws, index 1 beside the initial ones, step counts 0, 2 and 15 = UINT_MAX of 4 bits, the holder on the pipeline's thread or on another | 1.7 M | `ResultsAreOwn`, `InOrder`, `CallAdvances` (what one `execute` runs), `ReadyIsComplete`, `LastHeard` (what the holder has passed on last is the state the pipeline is in), `ReadyOnce` (on one thread, no Ready is announced twice); liveness: `BusyEnds` |
| `concurrent_pool` | 3 threads, rounds of up to 2, Async and Sync, start index 0 and 1 | 0.3 M | `NoStragglers`, `RoundComplete`, `OthersAreServed` (nobody sleeps on a queue the run waits for, but the thread it blocks); liveness: `RunEnds` up to that case |
| `concurrent_deadlock` | 2 threads | violated | `RunReturns` fails, section 6 |
| `connections` | 2 objects on 2 of 3 threads, a caller on the thread of each, 3 operations, 1 activity that may be stolen, Auto and Queued | 1.2 M | `GoneIsCut`, `NoDuplicates`, `ReceiverKnows`, `InOrder`, `OnReceiversThread` (the last two but for the calls a thief took) |
| `connections_argument` | the same | violated | `ArgumentsOwn` fails, section 6 |
| `coroutines` | 3 threads, one caller outside the pool, one on a thread of it, one of the tasks eager or lazy | 0.4 M | `AwaitIsSafe`; liveness: `GetReturns` unless threads wait in a circle or somebody waits for a task nobody started |
| `coroutines_theft` | 3 threads, both callers outside | violated | `HelpersAreServed` fails, section 6 |
| `serialization` | up to 2 objects, of 3 of 4 classes: one without bases, one with one base, one with two ancestors that hides a member of each; buffers of 8 and 13 bytes, versions 1 and 2 | 0.9 M | `NothingLost`, `ReadsAreOwn`, `ObjectsRestored` (an object whose reads all succeed gets back every property of its class that the version includes), `CompleteWhenWhole` |

The comment over each property says which exceptions it states and why. The exceptions are
behaviour of the code, not of the model: a pipeline that stays Busy after an exception, a task
that was discarded while a helper holds its handle, a Queued connection within one thread.

## 4. Bounds, fairness and other assumptions

**Bounds.** Every bound is a constant or the size of a constant set.

* `N`: two slots are the smallest ring that distinguishes full from empty, three hold two
  elements at once; with two calls for each of two pushers the indices go round and a slot is used
  in two laps, which is what `ReadBack` is about. The code's 10240 differs only in how long a
  stall it takes.
* Threads: a thief may rob every thread but itself and its right neighbour, so two threads never
  steal and three is the least number with theft; each of three robs exactly one other.
* Activities: four make three contend for a ring of one element (one is rejected), with one thief
  and one throwing body. The runs whose verdict is a violation need no more than they have.
* `MaxCalls` in `Connections`: three operations are a connect, a second one that races with it,
  and an emission, a disconnect or a destruction. `MaxOthers`: one activity that may be stolen is
  enough for a thief to pop any pinned one behind it; which one that is, and where the thief has
  looked, is open. `Victims` is the ring of `trySteal` for three threads, the least number with
  theft. The constraint `Placed` has the sender on T1 and the receiver on T2, so that T2 robs the
  sender's queue, T3 the receiver's, and T1 is robbed by the receiver's thread; the callers are on T1
  and T2, so that every part and emission occurs inline and posted. Callers outside the pool, other
  placements, objects on one thread and other rings are left to the theorems, which hold for all.
* `MaxObjects`: with two objects the second one shows what a first that is read short does to it,
  and every number meets a border of a buffer. `BufferSizes`: 8 is the size of the largest number,
  13 is no multiple of 2, 4 or 8, so that numbers straddle its end. `Pieces`: the file grows by so many
  bytes at a time, or by all there are.
* `MaxQueue` stops the caller while that many announcements
  are on their way; two are needed for one to meet the next. `MayBeLazy` names the tasks that may
  be lazy. `Width` 4 keeps the reading of an unsigned as an int and the wrap-around of `i + step`
  within reach of short lists.
* `MaxPermits` in `ConcurrentPipeline` stops the caller from executing again while the thread of
  the run still has that many permits; permits beyond one only make a worker look again.

**StallFree.** TRUE means that no call sleeps between its load of an index and its access to the
slot while pushes go once round the ring to that slot. Without it
`FalseMeansEmpty`, for one, fails: indices repeat after N, so a comparison can succeed a lap late.
With 10240 slots that takes a thread to be suspended for 10239 pushes to its queue; the constant
names what is assumed.

**Fairness.** Safety needs none. `ThreadPool`: weak fairness of each worker (a thread of the pool
that can go on does), of each `postActivity` that has begun, and of a `shutDown` that has begun;
nobody has to post or shut down. Weak fairness suffices for the semaphore: once a worker sleeps
nobody else takes its permits. `PipelineHolder`: of the run, which is `StoredIsRun` of the pool,
and of the two queues, each of which has a thread that drains it. `ConcurrentPipeline`: of the
workers and of the run. `Coroutines`: of the workers and of callers inside an operation; nobody has
to start a lazy task or to create one. The schedulers of the C++ implementations give that much;
nothing relies on strong fairness or on time. `pool_live` has no activity that throws: an exception
ends the process (`terminated`), which both of its liveness properties except; `pool_steal` has one.
`pool_steal` in turn never shuts down, so that of what `ImplementsService` says the part about the end,
that nothing runs after it, rests on `ServiceTheorem`.

**Deadlock** is not reported by TLC in these runs: every instance posts or calls a bounded number
of operations and then rests. That nothing rests too early is what the liveness properties, and
`OthersAreServed`, `HelpersAreServed`, `NoLostWakeup` say.

**Memory.** Atomic accesses are sequentially consistent. The code uses acquire and release (and
`consume`); reorderings these permit are not modelled. `isBusy` only steers the choice of a
thread.

## 5. The proofs

The theorems hold for every value of the constants that satisfies the named `ASSUME`s of the
module: any number of threads, ring sizes from two slots on, any sets of activities, objects,
callers and tasks, any bound on the calls. TLC has checked each property, and the invariants that
were guessed for it, on the instance of section 3 first.

| module | theorem | property | under |
|---|---|---|---|
| `ActivityQueue_proofs` | `TypeCorrect` | `TypeOK` | |
| | `OccupancyTheorem` | `Occupancy` | `StallFree` |
| | `StoredTheorem` | `StoredUntilClaimed` | `StallFree` |
| | `ReadBackTheorem` | `ReadBack` | `StallFree` |
| | `FalseTheorem` | `FalseMeansEmpty` | `StallFree` |
| | `FifoTheorem` | `ClaimsAreFifo`: implements `BoundedFifo` | `StallFree` |
| `ThreadPool_proofs` | `TypeCorrect` | `TypeOK` | |
| | `WakeupTheorem` | `NoLostWakeup` | |
| | `BodyExclusiveTheorem` | `BodyExclusive` | |
| | `NeighbourTheorem` | `NeighbourNeverRobbed` | |
| | `StoppedTheorem` | `StoppedHasPermit` | |
| | `ServiceTheorem` | `ImplementsService`: implements `ActivityService` | |
| | `StoredTheorem` | `StoredIsSafe` | `StallFree` |
| `Pipeline_proofs` | `TypeCorrect` | `TypeOK` | |
| | `ResultsTheorem` | `ResultsAreOwn` | |
| | `OrderTheorem` | `InOrder` | |
| | `CallTheorem` | `CallAdvances` | |
| | `ReadyTheorem` | `ReadyIsComplete` | |
| | `HolderTheorem` | `HolderSpec => Spec`: a pipeline in a holder is one | |
| | `HeardTheorem` | `LastHeard` | |
| | `OnceTheorem` | `ReadyOnce` | |
| `ConcurrentPipeline_proofs` | `TypeCorrect` | `TypeOK` | |
| | `StragglersTheorem` | `NoStragglers` | |
| | `RoundTheorem` | `RoundComplete` | |
| | `ServedTheorem` | `OthersAreServed` | |
| `Connections_proofs` | `DuplicatesTheorem` | `NoDuplicates` | |
| | `ReceiverTheorem` | `ReceiverKnows` | |
| | `GoneTheorem` | `GoneIsCut` | |
| | `ThreadTheorem` | `OnReceiversThread` | |
| | `OrderTheorem` | `InOrder` | |
| `Coroutines_proofs` | `AwaitTheorem` | `AwaitIsSafe` | |
| `Serialization_proofs` | `WriterTheorem` | `NothingLost` | |
| | `OwnTheorem` | `ReadsAreOwn` | |
| | `RestoredTheorem` | `ObjectsRestored` | |
| | `CompleteTheorem` | `CompleteWhenWhole` | |

`StallFree` is an assumption of these five and of `StoredTheorem` of the pool, and of no other.

The inductive invariants, and why the properties alone are not inductive:

* **`ActivityQueue`.** The code sees counts modulo N. `RingInv` says that both indices are those of
  the counts (`Indices`), and of every call in flight (`Near`) that it loaded the index of its
  ticket, is less than a lap behind, and that a test it has passed stays true while the index it
  was made for is the present one. Then an exchange that finds its index finds its count
  (`SameSlot` of `RingArithmetic`), so a claim acts on the queue as it is. `SlotsInv` adds what the
  last N pushes left in the slots (`Contents`) and that no two pushes hold one place; without the
  latter one late store could undo another. `WitnessInv` carries what a call has seen.
* **`ThreadPool`.** `TypeInv` = `TypeOK` and `Defined`: a post beyond the choice of a queue has one,
  and a worker about to run something holds an activity; `tail[where[a]]` has a type only then.
  `WakeInv` adds `NoLostWakeup` and `OwnQueue`, that a worker which drains or is about to sleep looks
  at its own queue; else one that returns from a theft would count as draining the queue it robbed.
  `ProvInv` says where things come from: what a ring holds was stored there by its own post, what a
  worker holds comes from the queue it took it from, and that queue is its own or one it may rob.
  `RunInv` adds the correspondence of `m_isExecuted` and bodies, from which `BodyExclusive` and
  `NeighbourNeverRobbed` follow, and that after `join` every worker has left. `StopInv`: once
  `shutDown` has released the permit of a thread that thread's stop request is set, and if it is
  about to sleep it has a permit. `StoredInv` is the ring argument again, per queue: no store and no
  read is a lap behind, places are claimed once, what was stored is in its slot.
* **`ServiceTheorem`** maps `status` and `closed` to expressions over the pool's state: each step is
  a stutter or changes the status of one activity, and `Close` is the join. **`FifoTheorem`** maps
  the abstract queue to the part of the log between the counts.
* **`Pipeline`.** `ChainInv` relates the suspended generator to the list and the results: it is
  fresh exactly when the results are (`FreshIsEmpty`), its loop is inside the list (`InLoop`), and
  everything it has passed is executed (`Behind`). `RoundInv` adds what one call has counted.
* **`PipelineHolder`.** `HolderInv`: a queued run is the last thing in the queue, and either the
  last emission under way, or the connection's argument, or what the run has yet to tell, is the
  state. `OwedInv` adds a count: on one thread, the announcements of Ready in the queue and the
  one that the run has yet to make are no more than the times the pipeline has become Ready and the
  holder has not been told; and that the bound of this count (`MaxQueue`) is never what limits it.
* **`ConcurrentPipeline`.** `PlacesInv` says where each activity is, in the list, one queue, one pair
  of hands, or executed; `RoundInv` that what is out was posted by this run and what it has
  collected is executed; `ResultsInv` and `AwakeInv` the results and the wake-ups.
* **`Connections`.** `Base` is `Typed` and five parts. `Waited`: a part that is posted, or in a
  thread's hand, is an operation's that waits for it, once. `GoneInv`: connections have ids of their
  own, every half of a disconnect or connect that is still to come is posted, and what is gone is
  referred to by nothing. `Threaded`: what is posted to a thread concerns objects of that thread.
  `OrderInv`: for each caller, the places an emission passes through, queue and hand of the sender's
  thread, loop, queue and hand of the receiver's, and log, are ordered by its numbers; what a thread
  has taken from its own queue is the place before the first of the queue (place 0), so that `Take`
  moves every place by one (`Shifts`) and a theft closes the gap it leaves. What a thief took is
  *stray* from then on, with the slots its emission posts, and outside this order. `Strays`: while
  nothing that may be stolen was posted no thread has robbed another and nothing is stray; this is
  what `OnReceiversThread` says of stray calls, and without it `Threaded` would not be inductive.
* **`Coroutines`.** `AwaitInv`: every task is in one place, has one helper, its result is stored
  before its flag is set, and its frame lives as long as somebody may use it, but for a task that
  was discarded.

* **`Serialization`.** `WriterInv`: file, stream, buffer and the numbers still to be written, one
  after the other, are what the objects encode to, until the writer is closed. For the reader,
  `WindowInv` says that its buffer is the part of the file before the stream's position, so that
  what it has consumed is a place in the file, and `ReaderInv` (`Awaits`) what follows that place:
  the bytes of the numbers that the object at hand still wants, then those of the objects that have
  not been begun. The properties speak of what has been read; only with what is still to be read
  are they inductive, since a number is right because the bytes before it were. `Awaits` says also
  of the object at hand that every property behind the present one has its value (`Restoring`),
  and of the value at hand that its first numbers are read and the others wanted (`Inside`).
  `CompleteWhenWhole` needs in addition that a stream which has ended has ended at the end of the
  file (`StageInv`): it is what a reader that is opened too early loses.

**Induction over data.** The proofs about `Serialization` need to know what its operators compute
for every input, and these are recursive: the layout of lists (`FlattenSeq`), the fields a class
inherits, the look-up of a name. The induction theorems of the library take an operator as their
parameter, which the installed provers cannot instantiate, so `Serialization_proofs` states
induction with a set in its place: `Induction` over the numbers from the least counterexample,
`SequenceInduction` over sequences from that, and `ClassInduction` over the order of the classes.
Each is used with the set of those elements for which the claim holds. The recursive functions are
unfolded once (`FlatUnfolds`, `AggregateUnfolds`, `ContainsUnfolds`, `FindUnfolds`): a function
that satisfies the recursion exists up to every number or rank, by the same induction. Of the
library's theorems only `WFMin` is used, that a set of numbers has a least element.
From these follow `FindTypeFinds` (a name that is found is a member of the class),
`MemberIsListed` (a property that is neither hidden nor a base's base's is in the list under a name
that finds it), `InfosNumbersHas` and `LaidHas` (what an object and a sequence of objects are laid
out as) and `AfterSplits`, on which every read rests.

**What `ASSUME`s say of the classes.** `OrderAssumption`: a class is complete where it is a base, so
the classes are ordered; without it `Aggregate` would not be a function. `ObjectsAssumption`: an
object has a value for each of its members, of the form its type has, and its class has at most one
base, since the list of properties of a class with two does not compile (section 6).

Only model-checked: liveness (`StoredIsRun`, `ShutDownReturns`, `BusyEnds`, `RunEnds`,
`GetReturns`), since TLAPS does not reason about ENABLED, so not about fairness. Every safety
property that a passing run checks is a theorem.

## 6. Where the code departs from what it says

Four runs end in a violation, of a property that states what the repository says.

* **`pool_lost`** (`TA_ActivityQueue.h:98`). `push` publishes the rear index before it stores the
  element. A worker that is already draining claims the slot, reads an empty pointer, ignores it
  (`TA_ThreadPool.cpp:102`) and moves on; the activity stored a moment later is never run, and its
  fetcher never returns.
* **`concurrent_deadlock`** (`TA_ConcurrentPipeline.cpp:30`). The run occupies a thread of the
  pool; when `topPriorityThread` routes one of its activities to that thread and no thread that
  may rob it finishes something later, the run waits for ever. Two threads never rob each other.
* **`connections_argument`** (`TA_MetaObject.h:581`). A connection stores the arguments of the
  last emission; a queued slot reads them when it runs, so the second of two emissions overwrites
  the arguments of the first.
* **`coroutines_theft`** (`TA_Activity.h:320`). The helper that waits for an activity may be
  stolen by the very thread the activity is pinned to, which then waits for itself.

Definitions that fail in the model too, stated next to the others and without a run:

* `ThreadPool!PermitsWithinMax`: permits pile up while a worker drains, beyond the maximum the
  semaphore is declared with (`TA_ThreadPool.h:171`, `:81`); a release beyond it is undefined.
* `ThreadPool!StolenOnlyIfEnabled`: `top`, `stolenEnabled` and `pop` of a theft are three calls
  (`TA_ThreadPool.cpp:122`); between them the tested activity goes and another is taken that does
  not allow it (`src/README.md:136`).
* `Connections!PinnedStays`: the same theft where it matters. Parts, emissions and slots are
  posted pinned, but `invokeActivity` posts with each part a helper whose `stolenEnabled` keeps its
  default, true (`TA_Activity.h:314-320`, `:273`). A thief that tops such a helper, or any other
  stealable activity, may pop the pinned one behind it (`TA_ThreadPool.cpp:122-123`), although `callSlot` has set its flag
  to false (`TA_MetaObject.h:588`) and `src/README.md:136` promises "a `stolenEnabled` flag for work
  stealing". Then a slot runs on the thief's thread, beside and ahead of its neighbours; an
  emission's slots overtake those of the one before; and a stolen part changes a map on the
  wrong thread. `InOrder` and `OnReceiversThread` except the slot calls it happened to, and hold for all
  others.
* `ConcurrentPipeline!ResultsKept`: the stored result is forwarded as an rvalue
  (`TA_ConcurrentPipeline.cpp:32`), so that `result(index)` may find it moved out
  (`src/README.md:153`). `RoundComplete` allows the move.

Behaviour that the models show and their properties except, so that no run ends in it:

* **Holder.** `setState` stores a state and announces the one it loads (`TA_BasicPipeline.cpp:76`):
  a Ready that a reset overwrites at once is announced as Waiting. With the holder on another thread
  the next emission overwrites the argument of a slot that has not run (`TA_MetaObject.h:581`), so
  `pipelineReady` may not come or come twice; `ReadyOnce` speaks of one thread.
* **Reflection.** `PropertyInfos` appends the bases' own lists and not theirs
  (`TA_MetaReflex.h:357`): what a class inherits from a grandparent is neither written nor read,
  though `src/README.md:113` serializes an object as a whole. A member that hides another is found
  by name instead of it. `ObjectsRestored` says what is kept: it excepts what is lost in this
  way and bounds the loss, no more.
* **Key chain.** A call may run nothing where the key activity is to be repeated
  (`TA_ManualKeyActivityChainPipeline.cpp:33`, `src/README.md:151`); `CallAdvances` allows it.
* **Coroutines.** `get()` of a lazy task that nobody started waits for ever (`TA_Coroutine.h:98`).

Seen while reading, without a model:

* The holder's signal `activityCompleted` is connected to a slot that only prints
  (`TA_PipelineHolder.h:92`) and is emitted by nothing, while `src/README.md:153` promises a signal
  for each completed activity.
* A holder may be destroyed, with its pipeline, while announcements for it are on their way
  (`TA_PipelineHolder.h:37`, `:98`, `TA_PipelineCreator.cpp:27`).
* A null pointer property writes nothing (`TA_Serialization.h:232`), but its reader reads
  (`:305-313`). A class with two registered bases or more has no list of properties that compiles.
* The example `src/README.md:108-112` opens the reader while the writer still has everything in its
  buffer; in `Serialization` that reader fails its first read.
* A disconnect by holder hands a raw sender pointer to `invokeActivity`, which touches it after the
  sender may be gone.
* `size()` of a queue reads the rear index first and the front index afterwards
  (`TA_ActivityQueue.h:59-60`); a pop in between can make it return N - 1 for an empty queue. It only
  steers the choice of a thread.
* An activity's id is loaded and then incremented in two steps (`TA_ActivityComponents.h:67`): two
  threads that create activities at once can get one id. Nothing in the library looks one up.

## 7. What is not modelled

* **Pool**: `setThreadDetached`, the singleton holder, the Android build (the same loops over raw
  handles), a pool of one thread, for which `topPriorityThread` returns SIZE_MAX to a caller on
  that thread (`TA_ThreadPool.h:105`). In `ThreadPool` and `Coroutines` the choice of a thread is
  any thread but the creating one, since `size()` and `isBusy` are read while they change;
  `ConcurrentPipeline` has the scan. `top` of a theft is one step there. A worker keeps its last
  `pActivity` until it takes the next, which delays destructors only.
* **Pipelines**: the destructor during a run, two threads that call one pipeline at once (the
  class has no protection against it), the concurrent pipeline in a holder, the destruction of
  holders. In `ConcurrentPipeline`: throwing or pinned activities and other work in the pool; a
  synchronous `execute` returns when its run has, and the caller goes on then.
* **Connections**: `moveToThread`, `deleteLater`, objects without a `shared_ptr`, copying and
  moving objects, slots that call operations. With moves the order of one caller's slots and the
  thread they run on depend on when the mover ran, and are no promise of the connection any more:
  what `Connections` says of an object holds while it stays where it is. Two threads in one map at
  once, by a disconnect that is posted anywhere (`TA_MetaObject.h:801`) or by a part that a thief
  took, are undefined behaviour: the model changes a map in one step; where an iterator may dangle it
  lets it skip, call or end, and does not model a broken container. Destruction is one step per object.
  An operation may return before its helper has run.
  `updateAffinityThread` finds the object's own operation pending, and leaves the affinity as it is.
* **Coroutines**: the auto task (it has no handle and nobody waits for it), tasks that are moved,
  exceptions of bodies, two callers of one generator.
* **Serialization**: containers of containers and strings of several fields (the same reads in
  sequence), pointers, a stream that fails, a start position; reads after a failed one are steps of
  the model of which no property speaks. The containers are those that the reading chain
  `TA_Serialization.h:142-181` has a branch for. It has no final `else`: of a map with a comparator of
  its own, or an `unordered_map` with a hash of its own, only the count is read and the elements stay
  in the stream, so that what follows is read from them. A `std::set` gets as far as
  `T::mapped_type` (`:161`), which it does not have, and should not compile.
* **Reflection**: the invocation of methods by name at run time (a table of closures), the concepts
  and traits of `TA_TypeFilter.h`, and type-list operations that nothing in the library's state
  depends on; they are computed by the compiler.
* **Variant**: one object's storage, copied and moved by one thread; there is nothing to interleave,
  and a unit test reaches each of its states. **Tools**: `remove` is modelled where the pipelines
  use it. `TA_MethodActivity.h` and `TA_ReceiverObject.h` are not included by what the library
  builds.

## 8. Plan

Done, in this order: `ActivityQueue` and `BoundedFifo`; `ThreadPool`, `ActivityService` and their
proofs; `Pipeline`; `ConcurrentPipeline`; `Connections`; `Coroutines`; `Serialization`; then
`PipelineHolder`, `Reflection` with the objects of classes in `Serialization`, lazy tasks in
`Coroutines`, and the proofs of the safety properties of every module. For the proofs about
`Serialization`, `Reflection` was rewritten so that its operators can be reasoned about, with the
same meaning: filters name the places they keep (`At`) instead of folding, and the look-ups are
functions over the classes, with the null pointer that the code's recursion ends in (`NoMember`).

Left, in the order of what they are worth:

1. `moveToThread` of objects, as a module of its own over one object and its queues: what remains of
   the order of slots, and which operations work with a stale affinity.
2. A concurrent pipeline in a holder, and the destruction of holders during a run.
3. The scan of `topPriorityThread` for every sequence of changing sizes.
