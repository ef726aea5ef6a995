----------------------------- MODULE Coroutines -----------------------------
(***************************************************************************)
(* TA_ManualCoroutineTask whose body awaits one activity of the thread     *)
(* pool with TA_ActivityFetcherAwaitable, as TA_MetaObject::invokeActivity *)
(* does for every operation that hops to another thread: the activity is   *)
(* posted, a second activity, the helper, waits for its result on some     *)
(* thread of the pool and resumes the coroutine there, and the caller      *)
(* waits in get().  The body of an eager task begins with the call, that   *)
(* of a lazy one with start(), which a program calls once or not at all.   *)
(*                                                                         *)
(* The pool is that of module ThreadPool with its queue operations as      *)
(* single steps.  The activities are pinned to a thread and may not be     *)
(* stolen, their bodies call nothing; helpers may be stolen.  A caller is  *)
(* a thread outside the pool, or an activity pinned to a thread of it.     *)
(***************************************************************************)
EXTENDS Integers, Sequences

CONSTANTS
  NumThreads,    \* threads of the pool
  Tasks,         \* each with a caller of its own
  MayBeLazy,     \* the tasks the program may make Lazy ones
  Home,          \* task -> the thread its caller is posted to, or Outside
  Outside,
  None

Threads == 0 .. NumThreads - 1

ASSUME NumThreadsAssumption == NumThreads \in Nat /\ NumThreads >= 2
ASSUME HomeAssumption == Home \in [Tasks -> Threads \union {Outside}]
ASSUME LazyAssumption == MayBeLazy \subseteq Tasks
ASSUME NamesAssumption == Outside \notin Threads /\ None \notin Tasks

VARIABLES
  pc,            \* task -> where its caller is
  frame,         \* task -> its coroutine: "none", "created", "suspended",
                 \* "returned" or "destroyed"
  result,        \* task -> m_result, the name of the task
  completed,     \* task -> m_completed
  executed,      \* task -> the activity's promise is set
  taken,         \* task -> what get() returned
  discarded,     \* tasks whose object went without a get()
  stale,         \* tasks whose frame a helper used when it was destroyed
  queue,         \* thread -> what is posted to it
  permits,       \* thread -> its semaphore
  phase,         \* thread -> "asleep", "draining" or "stealing"
  helping        \* thread -> the helper it runs and what that does next

task == << pc, frame, result, completed, executed, taken, discarded, stale >>
pool == << queue, permits, phase, helping >>
vars == << task, pool >>

Init ==
  /\ pc = [c \in Tasks |-> "idle"]
  /\ frame = [c \in Tasks |-> "none"]
  /\ result = [c \in Tasks |-> None]
  /\ completed = [c \in Tasks |-> FALSE]
  /\ executed = [c \in Tasks |-> FALSE]
  /\ taken = [c \in Tasks |-> None]
  /\ discarded = {} /\ stale = {}
  /\ queue = [t \in Threads |-> << >>]
  /\ permits = [t \in Threads |-> 0]
  /\ phase = [t \in Threads |-> "asleep"]
  /\ helping = [t \in Threads |-> None]

Item(what, c) == [run |-> what, task |-> c]

(* Mutant: the semaphore is not released. *)
Posted_NoRelease(t, item) ==
  /\ queue' = [queue EXCEPT ![t] = Append(@, item)]
  /\ UNCHANGED << permits, phase, helping >>

Posted(t, item) ==
  /\ queue' = [queue EXCEPT ![t] = Append(@, item)]
  /\ permits' = [permits EXCEPT ![t] = @ + 1]
  /\ UNCHANGED << phase, helping >>

Goes(c, to) == pc' = [pc EXCEPT ![c] = to]

(* The threads an activity created by the caller can be posted to:         *)
(* moveToThread and topPriorityThread leave out the caller's own.          *)
Others(c) == Threads \ {Home[c]}

-----------------------------------------------------------------------------
(* The caller                                                              *)

(* A caller inside the pool is posted to its thread.                       *)
PostCaller(c) ==
  /\ pc[c] = "idle" /\ Home[c] # Outside
  /\ Posted(Home[c], Item("caller", c))
  /\ Goes(c, "posted")
  /\ UNCHANGED << frame, result, completed, executed, taken, discarded, stale >>

Begins(c) == pc[c] = IF Home[c] = Outside THEN "idle" ELSE "calling"

(* The body of a lazy task waits for start().                              *)
Create(c) ==
  /\ Begins(c) /\ c \in MayBeLazy
  /\ frame' = [frame EXCEPT ![c] = "created"]
  /\ Goes(c, "created")
  /\ UNCHANGED << result, completed, executed, taken, discarded, stale, pool >>

(* The body begins, suspends, and await_suspend posts the activity ...     *)
Body(c) ==
  /\ frame' = [frame EXCEPT ![c] = "suspended"]
  /\ \E t \in Others(c) : Posted(t, Item("activity", c))
  /\ Goes(c, "suspending")
  /\ UNCHANGED << result, completed, executed, taken, discarded, stale >>

Call(c) == Begins(c) /\ Body(c)

Start(c) == pc[c] = "created" /\ Body(c)

(* ... and then the helper.  The caller has its task object now.           *)
PostHelper(c) ==
  /\ pc[c] = "suspending"
  /\ \E t \in Others(c) : Posted(t, Item("helper", c))
  /\ Goes(c, "called")
  /\ UNCHANGED << frame, result, completed, executed, taken, discarded, stale >>

(* The task object is destroyed, and the frame with it, started or not.    *)
Discard(c) ==
  /\ pc[c] \in {"created", "called"}
  /\ frame' = [frame EXCEPT ![c] = "destroyed"]
  /\ discarded' = discarded \union {c}
  /\ Goes(c, "done")
  /\ UNCHANGED << result, completed, executed, taken, stale, pool >>

Get(c) ==
  /\ pc[c] \in {"created", "called"}
  /\ Goes(c, "waiting")
  /\ UNCHANGED << frame, result, completed, executed, taken, discarded, stale, pool >>

(* Mutant: get() does not wait. *)
Wait_Never(c) ==
  /\ pc[c] = "waiting"
  /\ Goes(c, "taking")
  /\ UNCHANGED << frame, result, completed, executed, taken, discarded, stale, pool >>

(* m_completed.wait(false)                                                 *)
Wait(c) ==
  /\ pc[c] = "waiting"
  /\ Goes(c, IF completed[c] THEN "taking" ELSE "blocked")
  /\ UNCHANGED << frame, result, completed, executed, taken, discarded, stale, pool >>

Take(c) ==
  /\ pc[c] = "taking"
  /\ taken' = [taken EXCEPT ![c] = result[c]]
  /\ Goes(c, "dropping")
  /\ UNCHANGED << frame, result, completed, executed, discarded, stale, pool >>

(* The task object goes out of scope.                                      *)
Drop(c) ==
  /\ pc[c] = "dropping"
  /\ frame' = [frame EXCEPT ![c] = "destroyed"]
  /\ Goes(c, "done")
  /\ UNCHANGED << result, completed, executed, taken, discarded, stale, pool >>

Caller(c) ==
  Start(c) \/ PostHelper(c) \/ Discard(c) \/ Get(c) \/ Wait(c) \/ Take(c) \/ Drop(c)

-----------------------------------------------------------------------------
(* The threads of the pool                                                 *)

(* Neither a helper nor a caller occupies the thread.                      *)
Free(t) ==
  /\ helping[t] = None
  /\ \A c \in Tasks : Home[c] = t => pc[c] \in {"idle", "posted", "done"}

Acquire(t) ==
  /\ phase[t] = "asleep" /\ permits[t] > 0 /\ Free(t)
  /\ permits' = [permits EXCEPT ![t] = @ - 1]
  /\ phase' = [phase EXCEPT ![t] = "draining"]
  /\ UNCHANGED << queue, helping, task >>

Takes(t, what) ==
  /\ phase[t] = "draining" /\ Free(t)
  /\ queue[t] # << >> /\ Head(queue[t]).run = what
  /\ queue' = [queue EXCEPT ![t] = Tail(@)]
  /\ UNCHANGED << permits, phase >>

RunCaller(t) ==
  /\ Takes(t, "caller")
  /\ Goes(Head(queue[t]).task, "calling")
  /\ UNCHANGED << frame, result, completed, executed, taken, discarded, stale, helping >>

RunActivity(t) ==
  /\ Takes(t, "activity")
  /\ executed' = [executed EXCEPT ![Head(queue[t]).task] = TRUE]
  /\ UNCHANGED << pc, frame, result, completed, taken, discarded, stale, helping >>

Doing(t, c, what) == helping' = [helping EXCEPT ![t] = [task |-> c, next |-> what]]

(* A helper locks the awaitable, which goes with the frame.                *)
Locks(t, c) == IF frame[c] = "suspended" THEN Doing(t, c, "fetch") ELSE UNCHANGED helping

RunHelper(t) ==
  /\ Takes(t, "helper")
  /\ Locks(t, Head(queue[t]).task)
  /\ UNCHANGED task

Drained(t) ==
  /\ phase[t] = "draining" /\ Free(t) /\ queue[t] = << >>
  /\ phase' = [phase EXCEPT ![t] = "stealing"]
  /\ UNCHANGED << queue, permits, helping, task >>

(* trySteal passes over the thread's own ring and its right neighbour's.   *)
Victims(t) ==
  {u \in Threads \ {t, (t + 1) % NumThreads} : queue[u] # << >> /\ Head(queue[u]).run = "helper"}

(* Whatever trySteal has found is run before the thread sleeps again.  It  *)
(* may find nothing where it has looked too early.                         *)
Steal(t) ==
  /\ phase[t] = "stealing"
  /\ phase' = [phase EXCEPT ![t] = "asleep"]
  /\ UNCHANGED permits
  /\ \/ UNCHANGED << queue, helping >>
     \/ \E u \in Victims(t) :
          /\ queue' = [queue EXCEPT ![u] = Tail(@)]
          /\ Locks(t, Head(queue[u]).task)
  /\ UNCHANGED task

At(t, what) == helping[t] # None /\ helping[t].next = what

Fetch(t) ==
  /\ At(t, "fetch") /\ executed[helping[t].task]
  /\ Doing(t, helping[t].task, "resume")
  /\ UNCHANGED << task, queue, permits, phase >>

Ends(t) == helping' = [helping EXCEPT ![t] = None]

(* What the helper does to a frame that is gone is a use of freed memory.  *)
Touches(c) == stale' = IF frame[c] = "destroyed" THEN stale \union {c} ELSE stale

(* handle.resume(): the body returns, and its locals go.                   *)
Resume(t) ==
  /\ At(t, "resume")
  /\ LET c == helping[t].task IN
     /\ Touches(c)
     /\ IF frame[c] = "destroyed"
        THEN Ends(t) /\ UNCHANGED << frame, result >>
        ELSE /\ frame' = [frame EXCEPT ![c] = "returned"]
             /\ result' = [result EXCEPT ![c] = c]
             /\ Doing(t, c, "store")
  /\ UNCHANGED << pc, completed, executed, taken, discarded, queue, permits, phase >>

(* FinalAwaiter: m_completed.store(true) ...                               *)
Store(t) ==
  /\ At(t, "store")
  /\ Touches(helping[t].task)
  /\ completed' = [completed EXCEPT ![helping[t].task] = TRUE]
  /\ Doing(t, helping[t].task, "notify")
  /\ UNCHANGED << pc, frame, result, executed, taken, discarded, queue, permits, phase >>

(* ... and notify_all, on a promise that get() may have let go by now.     *)
Notify(t) ==
  /\ At(t, "notify")
  /\ LET c == helping[t].task IN
     pc' = IF pc[c] = "blocked" THEN [pc EXCEPT ![c] = "waiting"] ELSE pc
  /\ Ends(t)
  /\ UNCHANGED << frame, result, completed, executed, taken, discarded, stale,
                  queue, permits, phase >>

Worker(t) ==
  \/ Acquire(t) \/ RunCaller(t) \/ RunActivity(t) \/ RunHelper(t) \/ Drained(t) \/ Steal(t)
  \/ Fetch(t) \/ Resume(t) \/ Store(t) \/ Notify(t)

-----------------------------------------------------------------------------
Next ==
  \/ \E c \in Tasks : PostCaller(c) \/ Create(c) \/ Call(c) \/ Caller(c)
  \/ \E t \in Threads : Worker(t)

Spec == Init /\ [][Next]_vars

(* Whether a program calls, or posts a caller, is its own business; what   *)
(* has begun goes on.                                                      *)
FairSpec ==
  /\ Spec
  /\ \A c \in Tasks : WF_vars(Caller(c))
  /\ \A c \in Tasks : Home[c] # Outside => WF_vars(Create(c) \/ Call(c))
  /\ \A t \in Threads : WF_vars(Worker(t))

-----------------------------------------------------------------------------
(* What get() returns is there, and is the result of its own activity; and *)
(* a helper never uses the frame of a task somebody waits for after it is  *)
(* gone.  (A discarded task's can be: the helper locks the awaitable, not  *)
(* the frame, and waits for the activity before it resumes.)               *)
AwaitIsSafe ==
  /\ \A c \in Tasks : pc[c] = "dropping" => taken[c] = c
  /\ stale \subseteq discarded

(* Thread t cannot go on before u has run something posted to it: the      *)
(* caller on t waits for its activity and its helper, a helper on t waits  *)
(* for its activity.                                                       *)
Waiting(c) == pc[c] \in {"waiting", "blocked"}

In(u, item) == \E j \in 1 .. Len(queue[u]) : queue[u][j] = item

WaitsFor(t, u) ==
  \/ \E c \in Tasks :
       /\ Home[c] = t /\ Waiting(c)
       /\ \/ In(u, Item("activity", c)) \/ In(u, Item("helper", c))
          \/ helping[u] = [task |-> c, next |-> "fetch"]
  \/ At(t, "fetch") /\ In(u, Item("activity", helping[t].task))

Circle ==
  \E ring \in SUBSET Threads :
    ring # {} /\ \A t \in ring : \E u \in ring : WaitsFor(t, u)

(* A thread in get() of a task that nobody has started waits for ever.     *)
NeverStarted == \E c \in Tasks : Waiting(c) /\ frame[c] = "created"

(* get() returns, however many helpers occupy threads of the pool, unless  *)
(* threads of the pool wait for each other, or one for itself, or somebody *)
(* waits for a lazy task that has not been started.                        *)
GetReturns ==
  \A c \in Tasks : Waiting(c) ~> (pc[c] = "done" \/ Circle \/ NeverStarted)

(* Without callers on threads of the pool nothing waits in a circle: what  *)
(* a helper waits for was posted before it, and will be run.               *)
HelpersAreServed == (\A c \in Tasks : Home[c] = Outside) => ~ Circle
=============================================================================
