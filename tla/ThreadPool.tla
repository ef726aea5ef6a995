----------------------------- MODULE ThreadPool -----------------------------
(***************************************************************************)
(* TA_ThreadPool (the default platform) and TA_ActivityProxy::operator():  *)
(* threads that post activities, one worker and one ring per pool thread,  *)
(* the semaphore the worker sleeps on, work stealing, and shutDown.        *)
(*                                                                         *)
(* A ring is modelled by its slots and its two counts; module              *)
(* ActivityQueue justifies the step size.  The claim of a slot (the        *)
(* compare-and-swap) and the access to the slot stay separate steps, since *)
(* everything delicate about the pool happens between them.                *)
(***************************************************************************)
EXTENDS Integers

CONSTANTS
  NumThreads,   \* threads of the pool
  N,            \* slots of a ring
  Activities,   \* the activities, each posted once, by a thread of its own
  Affinity,     \* activity -> affinityThread(); None if it is out of range
  Dependency,   \* activity -> the pool thread it was created on; None if
                \* it was created outside the pool
  Stealable,    \* the activities with stolenEnabled()
  Throwing,     \* the activities whose body throws
  None,         \* no thread, and the empty shared_ptr
  StallFree,    \* as in ActivityQueue
  Destroyed     \* whether somebody calls shutDown (or the destructor)

Threads == 0 .. NumThreads - 1
Slots == 0 .. N - 1

ASSUME NumThreadsAssumption == NumThreads \in Nat \ {0}
ASSUME NAssumption == N \in Nat \ {0, 1}
ASSUME ActivityAssumption ==
  /\ Affinity \in [Activities -> Threads \union {None}]
  /\ Dependency \in [Activities -> Threads \union {None}]
  /\ Stealable \subseteq Activities
  /\ Throwing \subseteq Activities
ASSUME NoneAssumption == None \notin Activities /\ None \notin Threads
ASSUME StallFreeAssumption == StallFree \in BOOLEAN /\ Destroyed \in BOOLEAN

VARIABLES
  (* the pool *)
  ring,        \* m_activityQueues: thread -> slot -> activity
  head,        \* thread -> pops that claimed a slot of its ring
  tail,        \* thread -> pushes that claimed a slot of its ring
  permits,     \* thread -> m_states[idx].resource
  isBusy,      \* thread -> m_states[idx].isBusy
  stop,        \* thread -> stop_requested()
  (* the workers *)
  wpc,         \* thread -> what its worker does next
  from,        \* thread -> the queue its worker takes from
  wticket,     \* thread -> the ticket its worker claimed there
  pActivity,   \* thread -> the activity in its worker's hands
  (* the activities and the threads that post them *)
  post,        \* activity -> how far postActivity has come
  where,       \* activity -> the queue chosen for it
  ticket,      \* activity -> the count of the rear index its push loaded
  exec,        \* activity -> "new", "running" (m_isExecuted), "done" (promise set)
  runner,      \* activity -> the worker that ran it
  (* shutDown and std::terminate *)
  shut,        \* what shutDown does next
  shutIdx,     \* its loop index
  terminated   \* an exception left a worker

pool == << ring, head, tail, permits, isBusy, stop >>
workers == << wpc, from, wticket, pActivity >>
posts == << post, where, ticket >>
proxies == << exec, runner >>
shutting == << shut, shutIdx >>
vars == << pool, workers, posts, proxies, shutting, terminated >>

WorkerLabels == {"check", "acquire", "drain", "scan", "stealPop", "read",
                 "run", "body", "exited"}
PostLabels == {"new", "push", "store", "release", "posted", "rejected"}
ShutLabels == {"no", "stop", "release", "join", "joined"}

Init ==
  /\ ring = [i \in Threads |-> [s \in Slots |-> None]]
  /\ head = [i \in Threads |-> 0]
  /\ tail = [i \in Threads |-> 0]
  /\ permits = [i \in Threads |-> 0]
  /\ isBusy = [i \in Threads |-> FALSE]
  /\ stop = [i \in Threads |-> FALSE]
  /\ wpc = [i \in Threads |-> "check"]
  /\ from = [i \in Threads |-> i]
  /\ wticket = [i \in Threads |-> 0]
  /\ pActivity = [i \in Threads |-> None]
  /\ post = [a \in Activities |-> "new"]
  /\ where = [a \in Activities |-> None]
  /\ ticket = [a \in Activities |-> 0]
  /\ exec = [a \in Activities |-> "new"]
  /\ runner = [a \in Activities |-> None]
  /\ shut = "no"
  /\ shutIdx = 0
  /\ terminated = FALSE

-----------------------------------------------------------------------------
(* postActivity                                                            *)

(* topPriorityThread compares loads that change while it reads them; the   *)
(* pool's steps rely on no more than that it skips the creating thread.    *)
(* Module ConcurrentPipeline has the scan itself.                          *)
Candidates(a) ==
  IF Affinity[a] # None THEN {Affinity[a]} ELSE Threads \ {Dependency[a]}

Step(a, to) == post' = [post EXCEPT ![a] = to]

(* The target is chosen, and push loads its rear index.                    *)
Route(a) ==
  /\ post[a] = "new"
  /\ shut # "joined"
  /\ \E i \in Candidates(a) :
       /\ where' = [where EXCEPT ![a] = i]
       /\ ticket' = [ticket EXCEPT ![a] = tail[i]]
  /\ Step(a, "push")
  /\ UNCHANGED << pool, workers, proxies, shutting, terminated >>

(* push's test for a full ring, on the rear index it loaded and the front  *)
(* index of now.                                                           *)
(* Mutant: no full test. *)
SeemsFull_Never(a) == ticket[a] < 0

SeemsFull(a) == (ticket[a] + 1) % N = head[where[a]] % N

(* push returned false: postActivity throws in the calling thread.         *)
Reject(a) ==
  /\ post[a] = "push"
  /\ SeemsFull(a)
  /\ Step(a, "rejected")
  /\ UNCHANGED << pool, workers, where, ticket, proxies, shutting, terminated >>

(* StallFree: no push or pop sleeps on a slot while the pushes go round.   *)
Unlapped(i, k) ==
  StallFree =>
    /\ \A b \in Activities : where[b] = i /\ post[b] = "store" => ticket[b] # k - N
    /\ \A w \in Threads : from[w] = i /\ wpc[w] = "read" => wticket[w] # k - N

PushClaim(a) ==
  LET i == where[a] IN
  /\ post[a] = "push"
  /\ ~ SeemsFull(a)
  /\ ticket[a] = tail[i]
  /\ Unlapped(i, tail[i])
  /\ tail' = [tail EXCEPT ![i] = @ + 1]
  /\ Step(a, "store")
  /\ UNCHANGED << ring, head, permits, isBusy, stop, workers, where, ticket,
                  proxies, shutting, terminated >>

(* The compare-and-swap met another rear index: push loads it again.       *)
PushRetry(a) ==
  /\ post[a] = "push"
  /\ ~ SeemsFull(a)
  /\ ticket[a] # tail[where[a]]
  /\ ticket' = [ticket EXCEPT ![a] = tail[where[a]]]
  /\ UNCHANGED << pool, workers, post, where, proxies, shutting, terminated >>

PushStore(a) ==
  /\ post[a] = "store"
  /\ ring' = [ring EXCEPT ![where[a]][ticket[a] % N] = a]
  /\ Step(a, "release")
  /\ UNCHANGED << head, tail, permits, isBusy, stop, workers, where, ticket,
                  proxies, shutting, terminated >>

(* Mutant: a worker that is busy is not woken. *)
Release_UnlessBusy(a) ==
  /\ post[a] = "release"
  /\ permits' = [permits EXCEPT ![where[a]] = IF isBusy[where[a]] THEN @ ELSE @ + 1]
  /\ Step(a, "posted")
  /\ UNCHANGED << ring, head, tail, isBusy, stop, workers, where, ticket,
                  proxies, shutting, terminated >>

Release(a) ==
  /\ post[a] = "release"
  /\ permits' = [permits EXCEPT ![where[a]] = @ + 1]
  /\ Step(a, "posted")
  /\ UNCHANGED << ring, head, tail, isBusy, stop, workers, where, ticket,
                  proxies, shutting, terminated >>

PostActivity(a) ==
  /\ ~ terminated
  /\ \/ Route(a) \/ Reject(a) \/ PushClaim(a) \/ PushRetry(a) \/ PushStore(a)
     \/ Release(a)

-----------------------------------------------------------------------------
(* The worker threads                                                      *)

Goto(i, to) == wpc' = [wpc EXCEPT ![i] = to]

Nonempty(j) == head[j] # tail[j]

(* pop, up to its compare-and-swap: worker i owns the front slot of j.     *)
PopClaim(i, j) ==
  /\ Nonempty(j)
  /\ wticket' = [wticket EXCEPT ![i] = head[j]]
  /\ head' = [head EXCEPT ![j] = @ + 1]
  /\ Goto(i, "read")
  /\ UNCHANGED << ring, tail, permits, isBusy, stop, from, pActivity >>

(* The outer loop ends a round: not busy, back to the stop test.           *)
EndRound(i) ==
  /\ isBusy' = [isBusy EXCEPT ![i] = FALSE]
  /\ from' = [from EXCEPT ![i] = i]
  /\ Goto(i, "check")
  /\ UNCHANGED << ring, head, tail, permits, stop, wticket >>

(* The worker has dealt with what it took: from its own queue it takes the *)
(* next one, after a steal the round is over.                              *)
Proceed(i) ==
  /\ pActivity' = [pActivity EXCEPT ![i] = None]
  /\ \/ /\ from[i] = i
        /\ Goto(i, "drain")
        /\ UNCHANGED << pool, from, wticket >>
     \/ /\ from[i] # i
        /\ EndRound(i)

CheckStop(i) ==
  /\ wpc[i] = "check"
  /\ Goto(i, IF stop[i] THEN "exited" ELSE "acquire")
  /\ UNCHANGED << pool, from, wticket, pActivity, proxies, terminated >>

Acquire(i) ==
  /\ wpc[i] = "acquire"
  /\ permits[i] > 0
  /\ permits' = [permits EXCEPT ![i] = @ - 1]
  /\ isBusy' = [isBusy EXCEPT ![i] = TRUE]
  /\ Goto(i, "drain")
  /\ UNCHANGED << ring, head, tail, stop, from, wticket, pActivity, proxies,
                  terminated >>

(* m_stealIdxs: the right neighbour, where trySteal's scan ends without    *)
(* looking.                                                                *)
StealIdx(i) == (i + 1) % NumThreads

(* Mutant: the index does not wrap. *)
ScanNext_NoWrap(j) == j + 1

ScanNext(j) == (j + 1) % NumThreads

(* Mutant: the last element counts as none. *)
Drain_OffByOne(i) ==
  /\ wpc[i] = "drain"
  /\ \/ /\ tail[i] - head[i] > 1
        /\ PopClaim(i, i)
     \/ /\ tail[i] - head[i] <= 1
        /\ from' = [from EXCEPT ![i] = ScanNext(StealIdx(i))]
        /\ Goto(i, "scan")
        /\ UNCHANGED << pool, wticket, pActivity >>
  /\ UNCHANGED << proxies, terminated >>

Drain(i) ==
  /\ wpc[i] = "drain"
  /\ \/ PopClaim(i, i)
     \/ /\ ~ Nonempty(i)
        /\ from' = [from EXCEPT ![i] = ScanNext(StealIdx(i))]
        /\ Goto(i, "scan")
        /\ UNCHANGED << pool, wticket, pActivity >>
  /\ UNCHANGED << proxies, terminated >>

(* top(activity) && activity && activity->stolenEnabled()                  *)
TopStealable(j) == Nonempty(j) /\ ring[j][head[j] % N] \in Stealable

(* One index of trySteal's loop.                                           *)
(* Mutant: the scan looks at its last index too. *)
Scan_Inclusive(i) ==
  LET j == from[i] IN
  /\ wpc[i] = "scan"
  /\ \/ /\ j # i /\ TopStealable(j)
        /\ Goto(i, "stealPop")
        /\ UNCHANGED << pool, from, wticket >>
     \/ /\ j = StealIdx(i) /\ (j = i \/ ~ TopStealable(j))
        /\ EndRound(i)
     \/ /\ j # StealIdx(i) /\ (j = i \/ ~ TopStealable(j))
        /\ from' = [from EXCEPT ![i] = ScanNext(j)]
        /\ UNCHANGED << pool, wpc, wticket >>
  /\ UNCHANGED << pActivity, proxies, terminated >>

Scan(i) ==
  LET j == from[i] IN
  /\ wpc[i] = "scan"
  /\ \/ /\ j = StealIdx(i)
        /\ EndRound(i)
     \/ /\ j # StealIdx(i) /\ j # i /\ TopStealable(j)
        /\ Goto(i, "stealPop")
        /\ UNCHANGED << pool, from, wticket >>
     \/ /\ j # StealIdx(i) /\ (j = i \/ ~ TopStealable(j))
        /\ from' = [from EXCEPT ![i] = ScanNext(j)]
        /\ UNCHANGED << pool, wpc, wticket >>
  /\ UNCHANGED << pActivity, proxies, terminated >>

(* pop(stolenActivity) takes the front of now, whatever top saw.           *)
StealPop(i) ==
  LET j == from[i] IN
  /\ wpc[i] = "stealPop"
  /\ \/ PopClaim(i, j)
     \/ /\ ~ Nonempty(j)
        /\ from' = [from EXCEPT ![i] = ScanNext(j)]
        /\ Goto(i, "scan")
        /\ UNCHANGED << pool, wticket, pActivity >>
  /\ UNCHANGED << proxies, terminated >>

(* pop, after its compare-and-swap: the slot is read, not cleared.         *)
Read(i) ==
  LET a == ring[from[i]][wticket[i] % N] IN
  /\ wpc[i] = "read"
  /\ \/ /\ a = None
        /\ Proceed(i)
     \/ /\ a # None
        /\ pActivity' = [pActivity EXCEPT ![i] = a]
        /\ Goto(i, "run")
        /\ UNCHANGED << pool, from, wticket >>
  /\ UNCHANGED << proxies, terminated >>

(* TA_ActivityProxy::operator(): m_isExecuted goes from false to true and  *)
(* the body runs; a second call is ignored while the body runs and throws  *)
(* after it, when m_pExecuteExp is null.                                   *)
(* Mutant: no m_isExecuted, only m_pExecuteExp guards the body. *)
Run_NoExchange(i) ==
  LET a == pActivity[i] IN
  /\ wpc[i] = "run"
  /\ \/ /\ exec[a] # "done"
        /\ exec' = [exec EXCEPT ![a] = "running"]
        /\ runner' = [runner EXCEPT ![a] = i]
        /\ Goto(i, "body")
        /\ UNCHANGED << pool, from, wticket, pActivity, terminated >>
     \/ /\ exec[a] = "done"
        /\ terminated' = TRUE
        /\ UNCHANGED << pool, workers, proxies >>

(* Mutant: m_isExecuted is reset when the body returns. *)
Run_Again(i) ==
  LET a == pActivity[i] IN
  /\ wpc[i] = "run"
  /\ \/ /\ exec[a] # "running"
        /\ exec' = [exec EXCEPT ![a] = "running"]
        /\ runner' = [runner EXCEPT ![a] = i]
        /\ Goto(i, "body")
        /\ UNCHANGED << pool, from, wticket, pActivity, terminated >>
     \/ /\ exec[a] = "running"
        /\ Proceed(i)
        /\ UNCHANGED << proxies, terminated >>

Run(i) ==
  LET a == pActivity[i] IN
  /\ wpc[i] = "run"
  /\ \/ /\ exec[a] = "new"
        /\ exec' = [exec EXCEPT ![a] = "running"]
        /\ runner' = [runner EXCEPT ![a] = i]
        /\ Goto(i, "body")
        /\ UNCHANGED << pool, from, wticket, pActivity, terminated >>
     \/ /\ exec[a] = "running"
        /\ Proceed(i)
        /\ UNCHANGED << proxies, terminated >>
     \/ /\ exec[a] = "done"
        /\ terminated' = TRUE
        /\ UNCHANGED << pool, workers, proxies >>

(* The body returns and the promise is set, or it throws: nothing catches. *)
Body(i) ==
  LET a == pActivity[i] IN
  /\ wpc[i] = "body"
  /\ \/ /\ a \notin Throwing
        /\ exec' = [exec EXCEPT ![a] = "done"]
        /\ Proceed(i)
        /\ UNCHANGED << runner, terminated >>
     \/ /\ a \in Throwing
        /\ terminated' = TRUE
        /\ UNCHANGED << pool, workers, proxies >>

Worker(i) ==
  /\ ~ terminated
  /\ \/ CheckStop(i) \/ Acquire(i) \/ Drain(i) \/ Scan(i) \/ StealPop(i)
     \/ Read(i) \/ Run(i) \/ Body(i)
  /\ UNCHANGED << posts, shutting >>

-----------------------------------------------------------------------------
(* shutDown                                                                *)

ShutDown ==
  /\ Destroyed
  /\ shut = "no"
  /\ shut' = "stop"
  /\ UNCHANGED << pool, shutIdx >>

(* Mutant: the stop is left to the destructor of the thread object. *)
RequestStop_Dropped ==
  /\ shut = "stop"
  /\ shut' = "release"
  /\ UNCHANGED << pool, shutIdx >>

RequestStop ==
  /\ shut = "stop"
  /\ stop' = [stop EXCEPT ![shutIdx] = TRUE]
  /\ shut' = "release"
  /\ UNCHANGED << ring, head, tail, permits, isBusy, shutIdx >>

(* Mutant: the worker is not woken. *)
ReleaseStopped_Dropped ==
  /\ shut = "release"
  /\ isBusy' = [isBusy EXCEPT ![shutIdx] = FALSE]
  /\ \/ /\ shutIdx + 1 < NumThreads
        /\ shut' = "stop"
        /\ shutIdx' = shutIdx + 1
     \/ /\ shutIdx + 1 = NumThreads
        /\ shut' = "join"
        /\ UNCHANGED shutIdx
  /\ UNCHANGED << ring, head, tail, permits, stop >>

ReleaseStopped ==
  /\ shut = "release"
  /\ permits' = [permits EXCEPT ![shutIdx] = @ + 1]
  /\ isBusy' = [isBusy EXCEPT ![shutIdx] = FALSE]
  /\ \/ /\ shutIdx + 1 < NumThreads
        /\ shut' = "stop"
        /\ shutIdx' = shutIdx + 1
     \/ /\ shutIdx + 1 = NumThreads
        /\ shut' = "join"
        /\ UNCHANGED shutIdx
  /\ UNCHANGED << ring, head, tail, stop >>

(* m_threads.clear() joins every worker.                                   *)
Join ==
  /\ shut = "join"
  /\ \A i \in Threads : wpc[i] = "exited"
  /\ shut' = "joined"
  /\ UNCHANGED << pool, shutIdx >>

ShutStep ==
  /\ ~ terminated
  /\ ShutDown \/ RequestStop \/ ReleaseStopped \/ Join
  /\ UNCHANGED << workers, posts, proxies, terminated >>

-----------------------------------------------------------------------------
Next ==
  \/ \E a \in Activities : PostActivity(a)
  \/ \E i \in Threads : Worker(i)
  \/ ShutStep

Spec == Init /\ [][Next]_vars

(* Every thread of the pool and every thread inside postActivity or        *)
(* shutDown keeps running; nobody is obliged to post or to shut down.      *)
Fairness ==
  /\ \A i \in Threads : WF_vars(Worker(i))
  /\ \A a \in Activities : WF_vars(post[a] # "new" /\ PostActivity(a))
  /\ WF_vars(shut # "no" /\ ShutStep)

FairSpec == Spec /\ Fairness

-----------------------------------------------------------------------------
PoolTypeOK ==
  /\ ring \in [Threads -> [Slots -> Activities \union {None}]]
  /\ head \in [Threads -> Nat] /\ tail \in [Threads -> Nat]
  /\ permits \in [Threads -> Nat]
  /\ isBusy \in [Threads -> BOOLEAN] /\ stop \in [Threads -> BOOLEAN]

WorkersTypeOK ==
  /\ wpc \in [Threads -> WorkerLabels]
  /\ from \in [Threads -> Threads]
  /\ wticket \in [Threads -> Nat]
  /\ pActivity \in [Threads -> Activities \union {None}]

PostsTypeOK ==
  /\ post \in [Activities -> PostLabels]
  /\ where \in [Activities -> Threads \union {None}]
  /\ ticket \in [Activities -> Nat]

ProxiesTypeOK ==
  /\ exec \in [Activities -> {"new", "running", "done"}]
  /\ runner \in [Activities -> Threads \union {None}]

TypeOK ==
  /\ PoolTypeOK /\ WorkersTypeOK /\ PostsTypeOK /\ ProxiesTypeOK
  /\ shut \in ShutLabels /\ shutIdx \in Threads
  /\ terminated \in BOOLEAN

(* No lost wakeup.  The worker takes one permit and then empties its queue *)
(* whatever the number of permits, so permits and elements do not match    *)
(* one to one; still, as long as a queue holds elements its worker is      *)
(* draining it, has a permit to take, or will get one from a post that is  *)
(* under way, unless it has left for good.                                 *)
NoLostWakeup ==
  \A i \in Threads : Nonempty(i) =>
    \/ permits[i] > 0
    \/ wpc[i] \in {"drain", "read", "run", "body"} /\ from[i] = i
    \/ \E a \in Activities : where[a] = i /\ post[a] \in {"store", "release"}
    \/ wpc[i] = "exited"

(* In the running phase a worker owns its activity: two workers are never  *)
(* inside the same body, not even when the ring handed them the same       *)
(* pointer (a slot read again before the push of the next lap stored).     *)
BodyExclusive ==
  \A i, j \in Threads :
    i # j /\ wpc[i] = "body" /\ wpc[j] = "body" => pActivity[i] # pActivity[j]

(* The activity of a push that has stored.                                 *)
Stored(a) == post[a] \in {"release", "posted"}

(* Between its store and its claim an activity stays in its slot, and the  *)
(* worker that claims it reads it: once stored, it cannot be lost.         *)
StoredIsSafe ==
  \A a \in Activities : Stored(a) =>
    LET i == where[a] IN
    /\ ticket[a] >= head[i] => ring[i][ticket[a] % N] = a
    /\ \A w \in Threads :
         wpc[w] = "read" /\ from[w] = i /\ wticket[w] = ticket[a] =>
           ring[i][ticket[a] % N] = a

(* A stop request reaches a sleeping worker: while shutDown waits for it,  *)
(* a worker in acquire has a permit to take.                               *)
StoppedHasPermit ==
  shut = "join" => \A i \in Threads : wpc[i] = "acquire" => permits[i] > 0

(* trySteal never robs the right neighbour of the thief.                   *)
NeighbourNeverRobbed ==
  \A a \in Activities : runner[a] # None /\ runner[a] # where[a] =>
    where[a] # StealIdx(runner[a])

(* An activity stored in a queue is run in the end, unless the pool is     *)
(* shut down or the process dies first.                                    *)
Claimable(a) == Stored(a) /\ ticket[a] >= head[where[a]]

StoredIsRun ==
  \A a \in Activities :
    Claimable(a) ~> (exec[a] = "done" \/ shut # "no" \/ terminated)

(* shutDown returns: every worker sees its stop request and leaves.        *)
ShutDownReturns == shut # "no" ~> (shut = "joined" \/ terminated)

(* What the callers are promised, in the terms of ActivityService.         *)
Status(a) ==
  IF exec[a] # "new" THEN exec[a]
  ELSE IF post[a] \in {"store", "release", "posted"} THEN "accepted"
  ELSE IF post[a] = "rejected" THEN "rejected" ELSE "new"

Service == INSTANCE ActivityService
  WITH status <- [a \in Activities |-> Status(a)], closed <- (shut = "joined")

ImplementsService == Service!Spec

-----------------------------------------------------------------------------
(* What the repository says of the pool and the code does not keep.        *)

(* Every result can be fetched (TA_ThreadPoolTest notifyResultTest): an    *)
(* activity whose post has returned and that nobody has run is in a queue  *)
(* or in the hands of a worker.                                            *)
NeverLost ==
  \A a \in Activities : post[a] = "posted" /\ exec[a] = "new" =>
    \/ ticket[a] >= head[where[a]]
    \/ \E i \in Threads :
         \/ pActivity[i] = a
         \/ wpc[i] = "read" /\ from[i] = where[a] /\ wticket[i] = ticket[a]

(* stolenEnabled is the activity's consent to run on another thread        *)
(* (README: "a stolenEnabled flag for work stealing").                     *)
StolenOnlyIfEnabled ==
  \A a \in Activities :
    runner[a] \notin {None, where[a]} => a \in Stealable

(* counting_semaphore<ActivityQueue::capacity()>: a release beyond the     *)
(* maximum has undefined behaviour.                                        *)
PermitsWithinMax == \A i \in Threads : permits[i] <= N
=============================================================================
