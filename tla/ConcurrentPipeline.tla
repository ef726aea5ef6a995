------------------------- MODULE ConcurrentPipeline -------------------------
(***************************************************************************)
(* TA_ConcurrentPipeline on the thread pool: run posts every activity to   *)
(* the pool, one topPriorityThread scan each, and then waits for the       *)
(* results one after the other.  With ExecuteType::Async the run itself    *)
(* occupies a thread of the pool while it waits.                           *)
(*                                                                         *)
(* The pool is that of module ThreadPool with the queue operations as      *)
(* single steps, which keeps what matters here: the semaphores, the busy   *)
(* flags, who may rob whom, and that nobody wakes a thread for work in the *)
(* queue of another.  The activities were created outside the pool, may be *)
(* stolen (the default) and do not throw; the pool has no other work.      *)
(***************************************************************************)
EXTENDS Integers, Sequences

CONSTANTS
  NumThreads,    \* threads of the pool
  Activities,    \* what the caller may add, each once
  Trivial,       \* the activities whose result a move leaves as it is
  Homes,         \* the threads the pipeline may belong to
  Modes,         \* the ExecuteTypes the caller uses
  StartIndices,  \* arguments of setStartIndex
  MaxSize,       \* bound on the activities of a round
  MaxPermits,    \* bound on the permits of the run's thread at execute
  RunActivity,   \* m_pRunningActivity
  None,          \* no thread, and the empty result
  Moved          \* a result that was moved out of the list

Threads == 0 .. NumThreads - 1

ASSUME NumThreadsAssumption == NumThreads \in Nat \ {0}
ASSUME TrivialAssumption == Trivial \subseteq Activities
ASSUME HomesAssumption == Homes \subseteq Threads
ASSUME ModesAssumption == Modes \subseteq {"Async", "Sync"}
ASSUME StartIndicesAssumption == StartIndices \subseteq Nat
ASSUME BoundsAssumption == MaxSize \in Nat /\ MaxPermits \in Nat
ASSUME NamesAssumption ==
  /\ Activities \intersect {RunActivity, None, Moved} = {}
  /\ RunActivity # None /\ None # Moved /\ None \notin Threads

VARIABLES
  (* the pool *)
  queue,       \* thread -> what is in its ring
  permits,     \* thread -> resource
  isBusy,      \* thread -> isBusy
  wpc,         \* thread -> what its worker does: "sleep", "drain", "steal", "body"
  hands,       \* thread -> the activity it runs
  executed,    \* the activities whose promise is set
  (* the pipeline *)
  home,        \* affinityThread()
  state,       \* m_state
  list,        \* m_pActivityList
  results,     \* m_resultList
  startIndex,  \* m_startIndex
  (* the run *)
  at,          \* what it does next: "none", "begin", "scan", "push",
               \* "release", "collect", "end"
  onCaller,    \* it was started with ExecuteType::Sync
  i,           \* its loop index
  idx,         \* topPriorityThread: the loop index
  lowIdx,      \* and the best thread so far,
  lowSize,     \* with the size it had
  crashed      \* it called a fetcher without a proxy

pool == << queue, permits, isBusy, wpc, hands, executed >>
pipeline == << home, state, list, results, startIndex >>
scanning == << idx, lowIdx, lowSize >>
run == << at, onCaller, i, scanning, crashed >>
vars == << pool, pipeline, run >>

Init ==
  /\ queue = [t \in Threads |-> << >>]
  /\ permits = [t \in Threads |-> 0]
  /\ isBusy = [t \in Threads |-> FALSE]
  /\ wpc = [t \in Threads |-> "sleep"]
  /\ hands = [t \in Threads |-> None]
  /\ executed = {}
  /\ home \in Homes
  /\ state = "Waiting"
  /\ list = << >> /\ results = << >> /\ startIndex = 0
  /\ at = "none" /\ onCaller = FALSE /\ i = 0
  /\ idx = 0 /\ lowIdx = None /\ lowSize = 0
  /\ crashed = FALSE

Range(s) == {s[k] : k \in DOMAIN s}

-----------------------------------------------------------------------------
(* The caller's operations                                                 *)

(* Every activity is new when it is added.                                 *)
Unused(x) ==
  /\ x \notin executed \union Range(list)
  /\ \A t \in Threads : x # hands[t] /\ x \notin Range(queue[t])

Add(x) ==
  /\ state = "Waiting"
  /\ Len(list) < MaxSize
  /\ Unused(x)
  /\ list' = Append(list, x)
  /\ results' = [k \in 1 .. Len(list) + 1 |-> IF k <= Len(results) THEN results[k] ELSE None]
  /\ UNCHANGED << home, state, startIndex, run, pool >>

SetStartIndex(n) ==
  /\ state = "Waiting"
  /\ startIndex' = n
  /\ UNCHANGED << home, state, list, results, run, pool >>

(* clear and reset leave the start index as it is.                         *)
Clear ==
  /\ state # "Busy"
  /\ list' = << >> /\ results' = << >>
  /\ state' = "Waiting"
  /\ UNCHANGED << home, startIndex, run, pool >>

Reset ==
  /\ state = "Ready"
  /\ results' = [k \in 1 .. Len(list) |-> None]
  /\ state' = "Waiting"
  /\ UNCHANGED << home, list, startIndex, run, pool >>

(* execute: the run goes to the queue of its thread (the post as one step, *)
(* it is the caller's only one), or begins in the caller, who has waited   *)
(* for the run before.                                                     *)
Execute(mode) ==
  /\ state = "Waiting"
  /\ mode = "Sync" => at = "none"
  /\ permits[home] < MaxPermits
  /\ state' = "Busy"
  /\ onCaller' = (mode = "Sync")
  /\ IF mode = "Sync"
     THEN at' = "begin" /\ UNCHANGED << queue, permits >>
     ELSE /\ queue' = [queue EXCEPT ![home] = Append(@, RunActivity)]
          /\ permits' = [permits EXCEPT ![home] = @ + 1]
          /\ UNCHANGED at
  /\ UNCHANGED << isBusy, wpc, hands, executed, home, list, results, startIndex,
                  i, scanning, crashed >>

Caller ==
  /\ ~ (onCaller /\ at # "none")
  /\ \/ \E x \in Activities : Add(x)
     \/ \E n \in StartIndices : SetStartIndex(n)
     \/ \E mode \in Modes : Execute(mode)
     \/ Clear \/ Reset

-----------------------------------------------------------------------------
(* The run                                                                 *)

(* The head of the posting loop; behind it the results are collected.      *)
Loop(n) ==
  /\ i' = IF n < Len(list) THEN n ELSE 0
  /\ at' = IF n < Len(list) THEN "scan" ELSE "collect"
  /\ idx' = 0 /\ lowIdx' = None /\ lowSize' = 0

Begin ==
  /\ at = "begin"
  /\ Loop(startIndex)
  /\ UNCHANGED << pool, pipeline, onCaller, crashed >>

(* topPriorityThread prefers the shorter queue, and of two of the same     *)
(* length the thread that is not busy, and then the first.                 *)
Better(t) ==
  \/ lowIdx = None
  \/ Len(queue[t]) < lowSize
  \/ Len(queue[t]) = lowSize /\ ~ isBusy[t] /\ isBusy[lowIdx]

(* Mutant: the scan does not stop at the last thread. *)
Scan_OffByOne ==
  /\ at = "scan"
  /\ IF Better(idx)
     THEN lowIdx' = idx /\ lowSize' = Len(queue[idx])
     ELSE UNCHANGED << lowIdx, lowSize >>
  /\ IF idx < NumThreads
     THEN idx' = idx + 1 /\ UNCHANGED at
     ELSE at' = "push" /\ UNCHANGED idx
  /\ UNCHANGED << pool, pipeline, onCaller, i, crashed >>

Scan ==
  /\ at = "scan"
  /\ IF Better(idx)
     THEN lowIdx' = idx /\ lowSize' = Len(queue[idx])
     ELSE UNCHANGED << lowIdx, lowSize >>
  /\ IF idx + 1 < NumThreads
     THEN idx' = idx + 1 /\ UNCHANGED at
     ELSE at' = "push" /\ UNCHANGED idx
  /\ UNCHANGED << pool, pipeline, onCaller, i, crashed >>

Push ==
  /\ at = "push"
  /\ queue' = [queue EXCEPT ![lowIdx] = Append(@, list[i + 1])]
  /\ at' = "release"
  /\ UNCHANGED << permits, isBusy, wpc, hands, executed, pipeline, onCaller, i,
                  scanning, crashed >>

(* Mutant: the thread is not woken. *)
Release_Dropped ==
  /\ at = "release"
  /\ Loop(i + 1)
  /\ UNCHANGED << pool, pipeline, onCaller, crashed >>

Release ==
  /\ at = "release"
  /\ permits' = [permits EXCEPT ![lowIdx] = @ + 1]
  /\ Loop(i + 1)
  /\ UNCHANGED << queue, isBusy, wpc, hands, executed, pipeline, onCaller, crashed >>

(* Mutant: the result is taken without waiting. *)
Collect_NoWait ==
  /\ at = "collect" /\ i >= startIndex /\ i < Len(list)
  /\ i' = i + 1
  /\ UNCHANGED << pool, pipeline, at, onCaller, scanning, crashed >>

(* resultFetchers[idx]() waits for the promise.  The result is stored and  *)
(* at once forwarded as an rvalue into the arguments of activityCompleted, *)
(* which are taken by value: it is moved out of the list again.            *)
Collect ==
  /\ at = "collect" /\ i >= startIndex /\ i < Len(list)
  /\ list[i + 1] \in executed
  /\ results' = [results EXCEPT ![i + 1] = IF list[i + 1] \in Trivial THEN list[i + 1] ELSE Moved]
  /\ i' = i + 1
  /\ UNCHANGED << pool, home, state, list, startIndex, at, onCaller, scanning, crashed >>

(* An activity before the start index has no fetcher: a null pointer.      *)
CollectNull ==
  /\ at = "collect" /\ i < startIndex /\ i < Len(list)
  /\ crashed' = TRUE
  /\ UNCHANGED << pool, pipeline, at, onCaller, i, scanning >>

(* The list is emptied and the pipeline is Ready.                          *)
(* Mutant: the activities stay in the list. *)
End_KeepList ==
  /\ at = "collect" /\ i >= Len(list)
  /\ UNCHANGED list
  /\ state' = "Ready"
  /\ at' = "end"
  /\ UNCHANGED << pool, home, results, startIndex, onCaller, i, scanning, crashed >>

End ==
  /\ at = "collect" /\ i >= Len(list)
  /\ list' = << >>
  /\ state' = "Ready"
  /\ at' = "end"
  /\ UNCHANGED << pool, home, results, startIndex, onCaller, i, scanning, crashed >>

RunStep == Begin \/ Scan \/ Push \/ Release \/ Collect \/ CollectNull \/ End

(* execute(Sync) returns.                                                  *)
SyncReturns ==
  /\ onCaller /\ at = "end"
  /\ at' = "none" /\ onCaller' = FALSE
  /\ UNCHANGED << pool, pipeline, i, scanning, crashed >>

-----------------------------------------------------------------------------
(* The worker threads                                                      *)

Wake(t) ==
  /\ wpc[t] = "sleep"
  /\ permits[t] > 0
  /\ permits' = [permits EXCEPT ![t] = @ - 1]
  /\ isBusy' = [isBusy EXCEPT ![t] = TRUE]
  /\ wpc' = [wpc EXCEPT ![t] = "drain"]
  /\ UNCHANGED << queue, hands, executed, at, onCaller >>

(* The worker takes the front of queue q and runs it: a run of the         *)
(* pipeline goes on in RunStep.                                            *)
Take(t, q) ==
  /\ hands' = [hands EXCEPT ![t] = Head(queue[q])]
  /\ queue' = [queue EXCEPT ![q] = Tail(@)]
  /\ wpc' = [wpc EXCEPT ![t] = IF q = t THEN "body" ELSE "stolen"]
  /\ at' = IF Head(queue[q]) = RunActivity THEN "begin" ELSE at
  /\ UNCHANGED << permits, isBusy, executed, onCaller >>

(* Mutant: the last activity counts as none. *)
Drain_OffByOne(t) ==
  /\ wpc[t] = "drain"
  /\ IF Len(queue[t]) > 1
     THEN Take(t, t)
     ELSE /\ wpc' = [wpc EXCEPT ![t] = "steal"]
          /\ UNCHANGED << queue, permits, isBusy, hands, executed, at, onCaller >>

Drain(t) ==
  /\ wpc[t] = "drain"
  /\ IF queue[t] # << >>
     THEN Take(t, t)
     ELSE /\ wpc' = [wpc EXCEPT ![t] = "steal"]
          /\ UNCHANGED << queue, permits, isBusy, hands, executed, at, onCaller >>

(* The queues trySteal looks at: not the thread's own, not its neighbour's *)
(* behind it; RunActivity may not be stolen.                               *)
Robbable(t) ==
  {q \in Threads \ {t, (t + 1) % NumThreads} :
     queue[q] # << >> /\ Head(queue[q]) # RunActivity}

Sleep(t) ==
  /\ isBusy' = [isBusy EXCEPT ![t] = FALSE]
  /\ wpc' = [wpc EXCEPT ![t] = "sleep"]

Steal(t) ==
  /\ wpc[t] = "steal"
  /\ \/ \E q \in Robbable(t) : Take(t, q)
     \/ /\ Robbable(t) = {}
        /\ Sleep(t)
        /\ UNCHANGED << queue, permits, hands, executed, at, onCaller >>

(* The activity returns and the promise is set; a run of the pipeline      *)
(* returns behind its end.  After a steal the round is over.               *)
Finish(t) ==
  /\ wpc[t] \in {"body", "stolen"}
  /\ hands[t] = RunActivity => at = "end"
  /\ executed' = IF hands[t] = RunActivity THEN executed ELSE executed \union {hands[t]}
  /\ at' = IF hands[t] = RunActivity THEN "none" ELSE at
  /\ hands' = [hands EXCEPT ![t] = None]
  /\ \/ /\ wpc[t] = "body"
        /\ wpc' = [wpc EXCEPT ![t] = "drain"]
        /\ UNCHANGED isBusy
     \/ /\ wpc[t] = "stolen"
        /\ Sleep(t)
  /\ UNCHANGED << queue, permits, onCaller >>

Worker(t) ==
  /\ Wake(t) \/ Drain(t) \/ Steal(t) \/ Finish(t)
  /\ UNCHANGED << pipeline, i, scanning, crashed >>

-----------------------------------------------------------------------------
Next ==
  /\ ~ crashed
  /\ \/ Caller
     \/ RunStep \/ SyncReturns
     \/ \E t \in Threads : Worker(t)

Spec == Init /\ [][Next]_vars

(* The threads of the pool and a run that has begun keep going.            *)
FairSpec ==
  /\ Spec
  /\ WF_vars(~ crashed /\ (RunStep \/ SyncReturns))
  /\ \A t \in Threads : WF_vars(~ crashed /\ Worker(t))

-----------------------------------------------------------------------------
TypeOK ==
  /\ queue \in [Threads -> Seq(Activities \union {RunActivity})]
  /\ permits \in [Threads -> Nat]
  /\ isBusy \in [Threads -> BOOLEAN]
  /\ wpc \in [Threads -> {"sleep", "drain", "steal", "body", "stolen"}]
  /\ hands \in [Threads -> Activities \union {RunActivity, None}]
  /\ executed \subseteq Activities
  /\ home \in Homes
  /\ state \in {"Waiting", "Busy", "Ready"}
  /\ list \in Seq(Activities) /\ Len(list) <= MaxSize
  /\ results \in Seq(Activities \union {None, Moved})
  /\ startIndex \in StartIndices \union {0}
  /\ at \in {"none", "begin", "scan", "push", "release", "collect", "end"}
  /\ onCaller \in BOOLEAN
  /\ i \in 0 .. MaxSize /\ idx \in Threads
  /\ lowIdx \in Threads \union {None} /\ lowSize \in Nat
  /\ crashed \in BOOLEAN

(* A run leaves nothing behind: when the pipeline is not Busy, no activity *)
(* of its rounds is in a queue or in the hands of a worker.                *)
NoStragglers ==
  state # "Busy" =>
    \A t \in Threads : hands[t] \notin Activities /\ Range(queue[t]) \intersect Activities = {}

(* In Ready every result is that of an activity of the round that has      *)
(* finished, or one that was moved on, and the list is empty, so that the  *)
(* next round starts from nothing.                                         *)
RoundComplete ==
  state = "Ready" =>
    /\ list = << >>
    /\ Range(results) \subseteq executed \union {Moved}

(* The run blocks its own worker.                                          *)
Waiting(t) == hands[t] = RunActivity /\ at = "collect"

(* The only activity a run can wait for in vain lies in the queue of the   *)
(* thread the run blocks: behind any other there is a worker that is awake *)
(* or about to be woken.                                                   *)
OthersAreServed ==
  at = "collect" =>
    \A t \in Threads : queue[t] # << >> /\ ~ Waiting(t) =>
      wpc[t] \in {"drain", "body"} \/ permits[t] > 0

(* A run ends, unless an activity was routed to the thread the run blocks. *)
RunEnds ==
  state = "Busy" ~>
    (state # "Busy" \/ crashed \/ \E t \in Threads : Waiting(t) /\ queue[t] # << >>)

-----------------------------------------------------------------------------
(* What the repository says and the code does not keep.                    *)

(* Concurrent: run all activities in parallel (README); the waiter returns *)
(* and the results are there (TA_PipelineTest, parallelPipeline_execute).  *)
RunReturns == state = "Busy" ~> state # "Busy"

(* result(index) returns the result of the activity.                       *)
ResultsKept == state = "Ready" => Moved \notin Range(results)
=============================================================================
