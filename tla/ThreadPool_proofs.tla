------------------------- MODULE ThreadPool_proofs -------------------------
(***************************************************************************)
(* Proofs about ThreadPool, for every number of threads, ring size, set of *)
(* activities, affinity and creator: its safety properties, and that it    *)
(* implements ActivityService.  StoredTheorem needs StallFree.             *)
(***************************************************************************)
EXTENDS ThreadPool, RingArithmetic, TLAPS

(* A queue is chosen once a post is under way, and a worker that runs      *)
(* something has something to run.                                         *)
Defined ==
  /\ \A a \in Activities : post[a] # "new" => where[a] \in Threads
  /\ \A i \in Threads : wpc[i] \in {"run", "body"} => pActivity[i] \in Activities

TypeInv == TypeOK /\ Defined

(* The right neighbour of a thread, and the next index of a scan, are      *)
(* threads of the pool.                                                    *)
LEMMA IndexInRange ==
  ASSUME NEW i \in Threads
  PROVE  StealIdx(i) \in Threads /\ ScanNext(i) \in Threads
BY NumThreadsAssumption DEF Threads, StealIdx, ScanNext

LEMMA SlotInRange ==
  ASSUME NEW k \in Nat
  PROVE  k % N \in Slots
BY NAssumption DEF Slots

-----------------------------------------------------------------------------
LEMMA TypeInit == Init => TypeInv
<1> SUFFICES ASSUME Init
             PROVE  TypeInv
  OBVIOUS
<1> USE DEF Init
<1>1. PoolTypeOK
  BY DEF PoolTypeOK
<1>2. WorkersTypeOK
  BY DEF WorkersTypeOK, WorkerLabels
<1>3. PostsTypeOK /\ ProxiesTypeOK
  BY DEF PostsTypeOK, PostLabels, ProxiesTypeOK
<1>4. shut \in ShutLabels /\ shutIdx \in Threads /\ terminated \in BOOLEAN
  <2>1. 0 \in Threads
    BY ONLY NumThreadsAssumption DEF Threads
  <2> QED
    BY <2>1 DEF ShutLabels
<1>5. Defined
  BY DEF Defined
<1> QED
  BY <1>1, <1>2, <1>3, <1>4, <1>5 DEF TypeInv, TypeOK

(* One lemma for each of the three kinds of step.                          *)
LEMMA TypePost ==
  ASSUME TypeInv, NEW a \in Activities, PostActivity(a)
  PROVE  TypeInv'
<1> USE DEF TypeInv, TypeOK, pool, workers, posts, proxies, shutting, Step
<1>0. where[a] \in Threads \/ post[a] = "new"
  BY DEF Defined
<1>1. CASE Route(a)
  <2>1. PICK i \in Candidates(a) :
          /\ where' = [where EXCEPT ![a] = i]
          /\ ticket' = [ticket EXCEPT ![a] = tail[i]]
    BY <1>1 DEF Route
  <2>2. i \in Threads /\ tail[i] \in Nat
    BY ActivityAssumption DEF Candidates, PoolTypeOK
  <2>3. PostsTypeOK'
    BY <1>1, <2>1, <2>2 DEF Route, PostsTypeOK, PostLabels
  <2>4. Defined'
    BY <1>1, <2>1, <2>2 DEF Route, Defined, PostsTypeOK
  <2> QED
    BY <1>1, <2>3, <2>4 DEF Route, PoolTypeOK, WorkersTypeOK, ProxiesTypeOK
<1>2. CASE Reject(a)
  BY <1>2 DEF Reject, PoolTypeOK, WorkersTypeOK, ProxiesTypeOK, PostsTypeOK, PostLabels, Defined
<1>3. CASE PushClaim(a)
  <2>1. PoolTypeOK' /\ PostsTypeOK' /\ Defined'
    BY <1>0, <1>3 DEF PushClaim, PoolTypeOK, PostsTypeOK, PostLabels, Defined
  <2> QED
    BY <1>3, <2>1 DEF PushClaim, WorkersTypeOK, ProxiesTypeOK
<1>4. CASE PushRetry(a)
  <2>1. PostsTypeOK' /\ Defined'
    BY <1>0, <1>4 DEF PushRetry, PoolTypeOK, PostsTypeOK, Defined
  <2> QED
    BY <1>4, <2>1 DEF PushRetry, PoolTypeOK, WorkersTypeOK, ProxiesTypeOK
<1>5. CASE PushStore(a)
  <2>1. ticket[a] % N \in Slots
    BY SlotInRange DEF PostsTypeOK
  <2>2. PoolTypeOK'
    BY <1>0, <1>5, <2>1 DEF PushStore, PoolTypeOK
  <2>3. PostsTypeOK' /\ Defined'
    BY <1>0, <1>5 DEF PushStore, PostsTypeOK, PostLabels, Defined
  <2> QED
    BY <1>5, <2>2, <2>3 DEF PushStore, WorkersTypeOK, ProxiesTypeOK
<1>6. CASE Release(a)
  <2>1. PoolTypeOK' /\ PostsTypeOK' /\ Defined'
    BY <1>0, <1>6 DEF Release, PoolTypeOK, PostsTypeOK, PostLabels, Defined
  <2> QED
    BY <1>6, <2>1 DEF Release, WorkersTypeOK, ProxiesTypeOK
<1> QED
  BY <1>1, <1>2, <1>3, <1>4, <1>5, <1>6 DEF PostActivity

(* What the operators shared by the worker's actions do to the types.      *)
Typed == PoolTypeOK /\ WorkersTypeOK /\ Defined

LEMMA TypePopClaim ==
  ASSUME Typed, NEW i \in Threads, NEW j \in Threads, PopClaim(i, j), UNCHANGED posts
  PROVE  Typed'
<1> USE DEF Typed, PopClaim, Goto, posts
<1>1. PoolTypeOK'
  BY DEF PoolTypeOK
<1>2. WorkersTypeOK'
  BY DEF PoolTypeOK, WorkersTypeOK, WorkerLabels
<1>3. Defined'
  BY DEF WorkersTypeOK, Defined
<1> QED
  BY <1>1, <1>2, <1>3

LEMMA TypeEndRound ==
  ASSUME Typed, NEW i \in Threads, EndRound(i), UNCHANGED posts,
         pActivity' \in [Threads -> Activities \union {None}],
         \A w \in Threads \ {i} : pActivity'[w] = pActivity[w]
  PROVE  Typed'
<1> USE DEF Typed, EndRound, Goto, posts
<1>1. PoolTypeOK'
  BY DEF PoolTypeOK
<1>2. WorkersTypeOK'
  BY DEF WorkersTypeOK, WorkerLabels
<1>3. Defined'
  BY DEF WorkersTypeOK, Defined
<1> QED
  BY <1>1, <1>2, <1>3

LEMMA TypeProceed ==
  ASSUME Typed, NEW i \in Threads, Proceed(i), UNCHANGED posts
  PROVE  Typed'
<1>1. /\ pActivity' \in [Threads -> Activities \union {None}]
      /\ \A w \in Threads \ {i} : pActivity'[w] = pActivity[w]
  BY DEF Proceed, Typed, WorkersTypeOK
<1>2. CASE EndRound(i)
  BY <1>1, <1>2, TypeEndRound
<1>3. CASE Goto(i, "drain") /\ UNCHANGED << pool, from, wticket >>
  <2>1. WorkersTypeOK'
    BY <1>1, <1>3 DEF Goto, Typed, WorkersTypeOK, WorkerLabels
  <2>2. PoolTypeOK' /\ Defined'
    BY <1>1, <1>3 DEF Goto, Typed, PoolTypeOK, WorkersTypeOK, Defined, pool, posts
  <2> QED
    BY <2>1, <2>2 DEF Typed
<1> QED
  BY <1>2, <1>3 DEF Proceed

(* A step that only moves worker i along, with its scan index in range.    *)
LEMMA TypeMove ==
  ASSUME Typed, NEW i \in Threads, NEW j \in Threads,
         NEW to \in WorkerLabels \ {"run", "body"},
         Goto(i, to), from' = from \/ from' = [from EXCEPT ![i] = j],
         UNCHANGED << pool, wticket, pActivity, posts >>
  PROVE  Typed'
<1>1. PoolTypeOK'
  BY DEF Typed, PoolTypeOK, pool
<1>2. WorkersTypeOK'
  BY DEF Goto, Typed, WorkersTypeOK
<1>3. Defined'
  BY DEF Goto, Typed, WorkersTypeOK, Defined, posts
<1> QED
  BY <1>1, <1>2, <1>3 DEF Typed

LEMMA TypeWorker ==
  ASSUME TypeInv, NEW i \in Threads, Worker(i)
  PROVE  TypeInv'
<1>0. UNCHANGED << posts, shutting >>
  BY DEF Worker
<1>1. Typed /\ ProxiesTypeOK /\ terminated \in BOOLEAN /\ from[i] \in Threads
  BY DEF TypeInv, TypeOK, Typed, WorkersTypeOK
<1>2. SUFFICES Typed' /\ ProxiesTypeOK' /\ terminated' \in BOOLEAN
  BY <1>0 DEF TypeInv, TypeOK, Typed, PostsTypeOK, posts, shutting
<1>3. ProxiesTypeOK' /\ terminated' \in BOOLEAN
  <2>1. CASE UNCHANGED << proxies, terminated >>
    BY <1>1, <2>1 DEF proxies, ProxiesTypeOK
  <2>2. CASE Run(i)
    BY <1>1, <2>2 DEF Run, proxies, ProxiesTypeOK
  <2>3. CASE Body(i)
    BY <1>1, <2>3 DEF Body, proxies, ProxiesTypeOK
  <2> QED
    BY <2>1, <2>2, <2>3 DEF Worker, CheckStop, Acquire, Drain, Scan, StealPop, Read
<1>4. Typed'
  <2>1. CASE UNCHANGED << pool, workers >>
    BY <1>0, <1>1, <2>1
    DEF Typed, PoolTypeOK, WorkersTypeOK, Defined, pool, workers, posts
  <2>2. ASSUME NEW j \in Threads, PopClaim(i, j)
        PROVE  Typed'
    BY <1>0, <1>1, <2>2, TypePopClaim
  <2>3. CASE Proceed(i)
    BY <1>0, <1>1, <2>3, TypeProceed
  <2>4. CASE EndRound(i) /\ UNCHANGED pActivity
    BY <1>0, <1>1, <2>4, TypeEndRound DEF Typed, WorkersTypeOK
  <2>5. ASSUME NEW j \in Threads, NEW to \in {"exited", "acquire", "scan", "stealPop"},
               Goto(i, to), from' = from \/ from' = [from EXCEPT ![i] = j],
               UNCHANGED << pool, wticket, pActivity >>
        PROVE  Typed'
    BY <1>0, <1>1, <2>5, TypeMove DEF WorkerLabels
  <2>6. CASE CheckStop(i)
    BY <1>1, <2>5, <2>6 DEF CheckStop
  <2>7. CASE Acquire(i)
    <3>1. permits[i] - 1 \in Nat
      BY <1>1, <2>7 DEF Acquire, Typed, PoolTypeOK
    <3> QED
      BY <1>0, <1>1, <2>7, <3>1
      DEF Acquire, Goto, Typed, PoolTypeOK, WorkersTypeOK, WorkerLabels, Defined, posts
  <2>8. CASE Drain(i)
    <3>1. ScanNext(StealIdx(i)) \in Threads
      BY IndexInRange
    <3> QED
      BY <2>2, <2>5, <2>8, <3>1 DEF Drain
  <2>9. CASE Scan(i)
    <3>1. ScanNext(from[i]) \in Threads
      BY <1>1, IndexInRange
    <3>2. CASE /\ wpc[i] = "scan"
               /\ from' = [from EXCEPT ![i] = ScanNext(from[i])]
               /\ UNCHANGED << pool, wpc, wticket, pActivity >>
      <4>1. Goto(i, "scan")
        BY <1>1, <3>2 DEF Goto, Typed, WorkersTypeOK
      <4> QED
        BY <2>5, <3>1, <3>2, <4>1
    <3> QED
      BY <1>1, <2>4, <2>5, <2>9, <3>2 DEF Scan
  <2>10. CASE StealPop(i)
    <3>1. ScanNext(from[i]) \in Threads
      BY <1>1, IndexInRange
    <3> QED
      BY <1>1, <2>2, <2>5, <2>10, <3>1 DEF StealPop
  <2>11. CASE Read(i)
    <3> DEFINE a == ring[from[i]][wticket[i] % N]
    <3>1. a \in Activities \union {None}
      BY <1>1, SlotInRange DEF Typed, PoolTypeOK, WorkersTypeOK
    <3>2. CASE /\ a # None
               /\ pActivity' = [pActivity EXCEPT ![i] = a]
               /\ Goto(i, "run")
               /\ UNCHANGED << pool, from, wticket >>
      <4>1. PoolTypeOK'
        BY <1>1, <3>2 DEF Typed, PoolTypeOK, pool
      <4>2. WorkersTypeOK' /\ Defined'
        BY <1>0, <1>1, <3>1, <3>2
        DEF Goto, Typed, WorkersTypeOK, WorkerLabels, Defined, posts
      <4> QED
        BY <4>1, <4>2 DEF Typed
    <3> QED
      BY <2>3, <2>11, <3>2 DEF Read
  <2>12. CASE Run(i)
    <3>1. CASE /\ Goto(i, "body")
               /\ wpc[i] = "run"
               /\ UNCHANGED << pool, from, wticket, pActivity >>
      BY <1>0, <1>1, <3>1
      DEF Goto, Typed, PoolTypeOK, WorkersTypeOK, WorkerLabels, Defined, pool, posts
    <3> QED
      BY <2>1, <2>3, <2>12, <3>1 DEF Run
  <2>13. CASE Body(i)
    BY <2>1, <2>3, <2>13 DEF Body
  <2> QED
    BY <2>6, <2>7, <2>8, <2>9, <2>10, <2>11, <2>12, <2>13 DEF Worker
<1> QED
  BY <1>3, <1>4

LEMMA TypeShut ==
  ASSUME TypeInv, ShutStep
  PROVE  TypeInv'
<1>1. UNCHANGED << workers, posts, proxies, terminated >>
  BY DEF ShutStep
<1>2. (WorkersTypeOK /\ PostsTypeOK /\ ProxiesTypeOK /\ terminated \in BOOLEAN /\ Defined)'
  BY <1>1 DEF TypeInv, TypeOK, WorkersTypeOK, PostsTypeOK, ProxiesTypeOK, Defined,
              workers, posts, proxies
<1>3. (PoolTypeOK /\ shut \in ShutLabels /\ shutIdx \in Threads)'
  <2> USE DEF TypeInv, TypeOK, PoolTypeOK, ShutLabels, pool
  <2>1. CASE ShutDown
    BY <2>1 DEF ShutDown
  <2>2. CASE RequestStop
    BY <2>2 DEF RequestStop
  <2>3. CASE ReleaseStopped
    <3>1. /\ shutIdx \in Threads
          /\ \/ shutIdx' = shutIdx
             \/ shutIdx' = shutIdx + 1 /\ shutIdx + 1 < NumThreads
      BY <2>3 DEF ReleaseStopped
    <3>2. shutIdx' \in Threads
      BY ONLY <3>1, NumThreadsAssumption DEF Threads
    <3> QED
      BY <2>3, <3>2 DEF ReleaseStopped
  <2>4. CASE Join
    BY <2>4 DEF Join
  <2> QED
    BY <2>1, <2>2, <2>3, <2>4 DEF ShutStep
<1> QED
  BY <1>2, <1>3 DEF TypeInv, TypeOK

LEMMA TypeStep == TypeInv /\ [Next]_vars => TypeInv'
<1> SUFFICES ASSUME TypeInv, [Next]_vars
             PROVE  TypeInv'
  OBVIOUS
<1>1. CASE UNCHANGED vars
  BY <1>1 DEF vars, pool, workers, posts, proxies, shutting, TypeInv, TypeOK, PoolTypeOK,
              WorkersTypeOK, PostsTypeOK, ProxiesTypeOK, Defined
<1> QED
  BY <1>1, TypePost, TypeWorker, TypeShut DEF Next

(* Every variable keeps to its type, in every behaviour.                   *)
THEOREM TypeCorrect == Spec => []TypeOK
<1>1. Spec => []TypeInv
  BY TypeInit, TypeStep, PTL DEF Spec
<1>2. TypeInv => TypeOK
  BY DEF TypeInv
<1> QED
  BY <1>1, <1>2, PTL

-----------------------------------------------------------------------------
(* No lost wakeup.  The invariant is inductive once it says that a worker  *)
(* between two rounds, or draining, looks at its own queue.                *)
OwnQueue ==
  \A i \in Threads : wpc[i] \in {"check", "acquire", "drain"} => from[i] = i

WakeInv == TypeInv /\ OwnQueue /\ NoLostWakeup

(* The wakeup of one queue, as a predicate of that queue.                  *)
Awake(i) ==
  Nonempty(i) =>
    \/ permits[i] > 0
    \/ wpc[i] \in {"drain", "read", "run", "body"} /\ from[i] = i
    \/ \E a \in Activities : where[a] = i /\ post[a] \in {"store", "release"}
    \/ wpc[i] = "exited"

LEMMA WakeInit == Init => WakeInv
<1> SUFFICES ASSUME Init
             PROVE  OwnQueue /\ NoLostWakeup
  BY TypeInit DEF WakeInv
<1> QED
  BY DEF Init, OwnQueue, NoLostWakeup, Nonempty

LEMMA WakePost ==
  ASSUME WakeInv, NEW a \in Activities, PostActivity(a)
  PROVE  OwnQueue' /\ NoLostWakeup'
<1>0. TypeInv /\ OwnQueue /\ NoLostWakeup /\ (where[a] \in Threads \/ post[a] = "new")
  BY DEF WakeInv, TypeInv, Defined
<1>1. UNCHANGED << wpc, from, head >>
  BY DEF PostActivity, Route, Reject, PushClaim, PushRetry, PushStore, Release, pool, workers
<1>2. OwnQueue'
  BY <1>0, <1>1 DEF OwnQueue
<1>3. SUFFICES ASSUME NEW i \in Threads
               PROVE  Awake(i)'
  BY <1>2 DEF NoLostWakeup, Awake
<1>4. Awake(i)
  BY <1>0 DEF NoLostWakeup, Awake
<1> USE DEF Step, TypeInv, TypeOK, PostsTypeOK, PoolTypeOK
<1>5. CASE Route(a)
  BY <1>0, <1>1, <1>4, <1>5 DEF Route, Awake, Nonempty, pool
<1>6. CASE Reject(a)
  BY <1>0, <1>1, <1>4, <1>6 DEF Reject, Awake, Nonempty, pool
<1>7. CASE PushClaim(a)
  BY <1>0, <1>1, <1>4, <1>7 DEF PushClaim, Awake, Nonempty
<1>8. CASE PushRetry(a)
  BY <1>0, <1>1, <1>4, <1>8 DEF PushRetry, Awake, Nonempty, pool
<1>9. CASE PushStore(a)
  BY <1>0, <1>1, <1>4, <1>9 DEF PushStore, Awake, Nonempty
<1>10. CASE Release(a)
  <2>1. where[a] = i => permits'[i] > 0
    BY <1>0, <1>10 DEF Release
  <2> QED
    BY <1>0, <1>1, <1>4, <1>10, <2>1 DEF Release, Awake, Nonempty
<1> QED
  BY <1>5, <1>6, <1>7, <1>8, <1>9, <1>10 DEF PostActivity

LEMMA WakeWorker ==
  ASSUME WakeInv, NEW w \in Threads, Worker(w)
  PROVE  OwnQueue' /\ NoLostWakeup'
<1>0. TypeInv /\ OwnQueue /\ NoLostWakeup /\ UNCHANGED << post, where, tail >>
  <2>1. UNCHANGED tail
    BY DEF Worker, CheckStop, Acquire, Drain, Scan, StealPop, Read, Run, Body, PopClaim,
           EndRound, Proceed, pool
  <2> QED
    BY <2>1 DEF WakeInv, Worker, posts
<1> USE DEF TypeInv, TypeOK, PoolTypeOK, WorkersTypeOK
(* The queues of the other workers: their counts may move, their workers   *)
(* and their permits do not.                                               *)
<1>1. /\ head' \in [Threads -> Nat] /\ tail' = tail
      /\ \A i \in Threads : Nonempty(i)' => Nonempty(i)
  <2>1. ASSUME NEW j \in Threads, PopClaim(w, j)
        PROVE  /\ head' \in [Threads -> Nat]
               /\ \A i \in Threads : Nonempty(i)' => Nonempty(i)
    BY <1>0, <2>1 DEF PopClaim, Nonempty
  <2>2. CASE UNCHANGED head
    BY <1>0, <2>2 DEF Nonempty
  <2> QED
    BY <1>0, <2>1, <2>2
    DEF Worker, CheckStop, Acquire, Drain, Scan, StealPop, Read, Run, Body, EndRound,
        Proceed, pool
<1>2. \A i \in Threads \ {w} : wpc'[i] = wpc[i] /\ from'[i] = from[i] /\ permits'[i] = permits[i]
  BY <1>0
  DEF Worker, CheckStop, Acquire, Drain, Scan, StealPop, Read, Run, Body, PopClaim, EndRound,
      Proceed, Goto, pool, workers
<1>3. \A i \in Threads : Awake(i)
  BY <1>0 DEF NoLostWakeup, Awake
<1>4. \A i \in Threads \ {w} : Awake(i)'
  BY <1>0, <1>1, <1>2, <1>3 DEF Awake
<1>5. SUFFICES Awake(w)' /\ (wpc'[w] \in {"check", "acquire", "drain"} => from'[w] = w)
  BY <1>0, <1>2, <1>4 DEF OwnQueue, NoLostWakeup, Awake
<1>6. CASE CheckStop(w)
  BY <1>0, <1>1, <1>3, <1>6 DEF CheckStop, Goto, Awake, OwnQueue, pool
<1>7. CASE Acquire(w)
  BY <1>0, <1>1, <1>3, <1>7 DEF Acquire, Goto, Awake, OwnQueue
<1>8. CASE Drain(w)
  <2>1. from[w] = w
    BY <1>0, <1>8 DEF Drain, OwnQueue
  <2>2. CASE PopClaim(w, w)
    BY <1>0, <1>1, <2>1, <2>2 DEF PopClaim, Goto, Awake
  <2>3. CASE ~ Nonempty(w) /\ Goto(w, "scan")
    BY <1>0, <1>1, <2>3 DEF Goto, Awake
  <2> QED
    BY <1>8, <2>2, <2>3 DEF Drain
(* While it steals, the worker is no reason for its own queue to be safe.  *)
<1>9. CASE Scan(w)
  BY <1>0, <1>1, <1>3, <1>9 DEF Scan, EndRound, Goto, Awake, pool
<1>10. CASE StealPop(w)
  BY <1>0, <1>1, <1>3, <1>10 DEF StealPop, PopClaim, Goto, Awake, pool
<1>11. ASSUME Proceed(w), wpc[w] \in {"read", "run", "body"}
       PROVE  Awake(w)' /\ (wpc'[w] \in {"check", "acquire", "drain"} => from'[w] = w)
  BY <1>0, <1>1, <1>3, <1>11 DEF Proceed, EndRound, Goto, Awake, pool
<1>12. CASE Read(w)
  BY <1>0, <1>1, <1>3, <1>11, <1>12 DEF Read, Goto, Awake, pool
<1>13. CASE Run(w)
  BY <1>0, <1>1, <1>3, <1>11, <1>13 DEF Run, Goto, Awake, pool, workers
<1>14. CASE Body(w)
  BY <1>0, <1>1, <1>3, <1>11, <1>14 DEF Body, Awake, pool, workers
<1> QED
  BY <1>6, <1>7, <1>8, <1>9, <1>10, <1>12, <1>13, <1>14 DEF Worker

LEMMA WakeShut ==
  ASSUME WakeInv, ShutStep
  PROVE  OwnQueue' /\ NoLostWakeup'
<1>0. TypeInv /\ OwnQueue /\ NoLostWakeup
  BY DEF WakeInv
<1>1. UNCHANGED << head, tail, wpc, from, post, where >>
  BY DEF ShutStep, ShutDown, RequestStop, ReleaseStopped, Join, pool, workers, posts
<1>2. \A i \in Threads : permits[i] > 0 => permits'[i] > 0
  BY <1>0
  DEF ShutStep, ShutDown, RequestStop, ReleaseStopped, Join, pool, TypeInv, TypeOK, PoolTypeOK
<1> QED
  BY <1>0, <1>1, <1>2 DEF OwnQueue, NoLostWakeup, Nonempty

LEMMA WakeInvariant == Spec => []WakeInv
<1>1. WakeInv /\ [Next]_vars => WakeInv'
  <2> SUFFICES ASSUME WakeInv, [Next]_vars
               PROVE  WakeInv'
    OBVIOUS
  <2>1. TypeInv'
    BY TypeStep DEF WakeInv
  <2>2. CASE UNCHANGED vars
    BY <2>1, <2>2
    DEF WakeInv, OwnQueue, NoLostWakeup, Nonempty, vars, pool, workers, posts
  <2> QED
    BY <2>1, <2>2, WakePost, WakeWorker, WakeShut DEF Next, WakeInv
<1> QED
  BY <1>1, WakeInit, PTL DEF Spec

(* As long as a queue holds elements its worker is draining it, has a      *)
(* permit to take or is about to be given one: no activity sleeps in a     *)
(* queue whose worker sleeps too (TA_ThreadPool.cpp 98-110 and the         *)
(* release of postActivity).                                               *)
THEOREM WakeupTheorem == Spec => []NoLostWakeup
<1>1. WakeInv => NoLostWakeup
  BY DEF WakeInv
<1> QED
  BY <1>1, WakeInvariant, PTL

-----------------------------------------------------------------------------
(* Where activities come from, and who runs them.                          *)

(* An activity in a ring, or in a worker's hands, was stored by the push   *)
(* to that queue; and a worker takes from its own queue or from one that   *)
(* is not its right neighbour's.                                           *)
RingProvenance ==
  \A j \in Threads, s \in Slots :
    ring[j][s] # None => Stored(ring[j][s]) /\ where[ring[j][s]] = j

HandsProvenance ==
  \A i \in Threads : wpc[i] \in {"run", "body"} =>
    Stored(pActivity[i]) /\ where[pActivity[i]] = from[i]

TakesFrom ==
  \A i \in Threads : wpc[i] \in {"stealPop", "read", "run", "body"} =>
    from[i] = i \/ from[i] # StealIdx(i)

Provenance == RingProvenance /\ HandsProvenance /\ TakesFrom

ProvInv == TypeInv /\ OwnQueue /\ Provenance

LEMMA ProvPost ==
  ASSUME ProvInv, NEW a \in Activities, PostActivity(a)
  PROVE  Provenance'
<1> USE DEF ProvInv, TypeInv, TypeOK
<1>0. UNCHANGED workers
  BY DEF PostActivity, Route, Reject, PushClaim, PushRetry, PushStore, Release
<1>1. TakesFrom'
  BY <1>0 DEF Provenance, TakesFrom, workers
<1>2. \A b \in Activities : Stored(b) => Stored(b)' /\ where'[b] = where[b]
  BY DEF PostActivity, Route, Reject, PushClaim, PushRetry, PushStore, Release, Stored, Step,
         PostsTypeOK, PostLabels
<1>3. HandsProvenance'
  BY <1>0, <1>2 DEF Provenance, HandsProvenance, workers, Defined
<1>4. RingProvenance'
  <2>1. CASE UNCHANGED ring
    BY <1>2, <2>1 DEF Provenance, RingProvenance, PoolTypeOK
  <2>2. CASE PushStore(a)
    <3>1. /\ where[a] \in Threads /\ Stored(a)' /\ where'[a] = where[a]
          /\ ticket[a] % N \in Slots
      BY <2>2, SlotInRange DEF PushStore, Step, Stored, Defined, PostsTypeOK
    <3>2. \A j \in Threads, s \in Slots :
            ring'[j][s] = ring[j][s] \/ (j = where[a] /\ ring'[j][s] = a)
      BY <2>2, <3>1 DEF PushStore, PoolTypeOK
    <3> QED
      BY <1>2, <3>1, <3>2 DEF Provenance, RingProvenance, PoolTypeOK
  <2> QED
    BY <2>1, <2>2 DEF PostActivity, Route, Reject, PushClaim, PushRetry, Release, pool
<1> QED
  BY <1>1, <1>3, <1>4 DEF Provenance

LEMMA ProvWorker ==
  ASSUME ProvInv, NEW w \in Threads, Worker(w)
  PROVE  Provenance'
<1> USE DEF ProvInv, TypeInv, TypeOK, WorkersTypeOK
<1>0. UNCHANGED << post, where, ring >>
  BY DEF Worker, CheckStop, Acquire, Drain, Scan, StealPop, Read, Run, Body, PopClaim, EndRound,
         Proceed, posts, pool
<1>1. RingProvenance'
  BY <1>0 DEF Provenance, RingProvenance, Stored
<1>2. \A i \in Threads \ {w} :
        wpc'[i] = wpc[i] /\ from'[i] = from[i] /\ pActivity'[i] = pActivity[i]
  BY DEF Worker, CheckStop, Acquire, Drain, Scan, StealPop, Read, Run, Body, PopClaim, EndRound,
         Proceed, Goto, pool, workers
<1>3. SUFFICES
        /\ wpc'[w] \in {"run", "body"} =>
             Stored(pActivity'[w]) /\ where[pActivity'[w]] = from'[w]
        /\ wpc'[w] \in {"stealPop", "read", "run", "body"} =>
             from'[w] = w \/ from'[w] # StealIdx(w)
  BY <1>0, <1>1, <1>2 DEF Provenance, HandsProvenance, TakesFrom, Stored
<1>4. CASE wpc'[w] \in {"check", "acquire", "drain", "scan", "exited"}
  BY <1>4
<1>5. CASE Drain(w)
  BY <1>5 DEF Drain, PopClaim, Goto, OwnQueue
<1>6. CASE Scan(w)
  BY <1>6 DEF Scan, EndRound, Goto, pool
<1>7. CASE StealPop(w)
  BY <1>7 DEF StealPop, PopClaim, Goto, Provenance, TakesFrom
<1>8. CASE Read(w)
  <2> DEFINE a == ring[from[w]][wticket[w] % N]
  <2>1. CASE a # None /\ Goto(w, "run") /\ pActivity' = [pActivity EXCEPT ![w] = a] /\ UNCHANGED from
    <3>1. wticket[w] % N \in Slots
      BY SlotInRange
    <3>2. Stored(a) /\ where[a] = from[w]
      BY <2>1, <3>1 DEF Provenance, RingProvenance
    <3> QED
      BY <1>8, <2>1, <3>2 DEF Read, Goto, Provenance, TakesFrom
  <2> QED
    BY <1>4, <1>8, <2>1 DEF Read, Proceed, EndRound, Goto
<1>9. CASE Run(w)
  BY <1>4, <1>9 DEF Run, Proceed, EndRound, Goto, Provenance, HandsProvenance, TakesFrom, workers
<1>10. CASE Body(w)
  BY <1>4, <1>10 DEF Body, Proceed, EndRound, Goto, Provenance, HandsProvenance, TakesFrom, workers
<1> QED
  BY <1>4, <1>5, <1>6, <1>7, <1>8, <1>9, <1>10 DEF Worker, CheckStop, Acquire, Goto

LEMMA ProvShut ==
  ASSUME ProvInv, ShutStep
  PROVE  Provenance'
<1>1. UNCHANGED << ring, workers, posts >>
  BY DEF ShutStep, ShutDown, RequestStop, ReleaseStopped, Join, pool
<1> QED
  BY <1>1
  DEF ProvInv, Provenance, RingProvenance, HandsProvenance, TakesFrom, Stored, workers, posts

LEMMA ProvInvariant == Spec => []ProvInv
<1>1. Init => ProvInv
  <2>1. ASSUME Init
        PROVE  Provenance
    BY <2>1 DEF Init, Provenance, RingProvenance, HandsProvenance, TakesFrom
  <2> QED
    BY <2>1, TypeInit, WakeInit DEF ProvInv, WakeInv
<1>2. ProvInv /\ WakeInv /\ WakeInv' /\ [Next]_vars => ProvInv'
  <2> SUFFICES ASSUME ProvInv, WakeInv', [Next]_vars
               PROVE  Provenance'
    BY DEF WakeInv, ProvInv
  <2>1. CASE UNCHANGED vars
    BY <2>1
    DEF ProvInv, Provenance, RingProvenance, HandsProvenance, TakesFrom, Stored,
        vars, pool, workers, posts
  <2> QED
    BY <2>1, ProvPost, ProvWorker, ProvShut DEF Next
<1> QED
  BY <1>1, <1>2, WakeInvariant, PTL DEF Spec

-----------------------------------------------------------------------------
(* Who runs what: a worker inside a body is the one recorded as its        *)
(* runner, a running activity has such a worker, and only an activity that *)
(* was stored has begun.                                                   *)
BodyRuns ==
  \A i \in Threads : wpc[i] = "body" =>
    exec[pActivity[i]] = "running" /\ runner[pActivity[i]] = i

RunningHasBody ==
  \A a \in Activities : exec[a] = "running" =>
    runner[a] \in Threads /\ wpc[runner[a]] = "body" /\ pActivity[runner[a]] = a

BegunWasStored == \A a \in Activities : exec[a] # "new" => Stored(a)

RunnerNearby ==
  \A a \in Activities : runner[a] # None =>
    /\ Stored(a) /\ runner[a] \in Threads
    /\ where[a] = runner[a] \/ where[a] # StealIdx(runner[a])

JoinedExited == shut = "joined" => \A i \in Threads : wpc[i] = "exited"

Running == BodyRuns /\ RunningHasBody /\ BegunWasStored /\ RunnerNearby /\ JoinedExited

RunInv == ProvInv /\ Running

LEMMA RunPost ==
  ASSUME RunInv, NEW a \in Activities, PostActivity(a)
  PROVE  Running'
<1> USE DEF RunInv, ProvInv, TypeInv, TypeOK
<1>0. UNCHANGED << workers, proxies, shut >>
  BY DEF PostActivity, Route, Reject, PushClaim, PushRetry, PushStore, Release, shutting
<1>1. \A b \in Activities : Stored(b) => Stored(b)' /\ where'[b] = where[b]
  BY DEF PostActivity, Route, Reject, PushClaim, PushRetry, PushStore, Release, Stored, Step,
         PostsTypeOK, PostLabels
<1> QED
  BY <1>0, <1>1
  DEF Running, BodyRuns, RunningHasBody, BegunWasStored, RunnerNearby, JoinedExited,
      workers, proxies

(* A step that leaves the proxies alone and lets worker w neither enter    *)
(* nor leave a body.                                                       *)
LEMMA RunIdle ==
  ASSUME RunInv, NEW w \in Threads, UNCHANGED << proxies, post, where, shut >>,
         wpc[w] # "body", wpc[w] # "exited", wpc'[w] # "body",
         \A i \in Threads \ {w} : wpc'[i] = wpc[i] /\ pActivity'[i] = pActivity[i]
  PROVE  Running'
<1> USE DEF RunInv, Running, proxies
<1>1. BodyRuns'
  BY DEF BodyRuns
<1>2. RunningHasBody'
  BY DEF RunningHasBody
<1>3. BegunWasStored' /\ RunnerNearby'
  BY DEF BegunWasStored, RunnerNearby, Stored
<1>4. JoinedExited'
  BY DEF JoinedExited
<1> QED
  BY <1>1, <1>2, <1>3, <1>4

LEMMA RunWorker ==
  ASSUME RunInv, NEW w \in Threads, Worker(w)
  PROVE  Running'
<1> USE DEF RunInv, ProvInv, TypeInv, TypeOK, WorkersTypeOK
<1>0. UNCHANGED << post, where, shut >>
  BY DEF Worker, posts, shutting
<1>1. \A i \in Threads \ {w} : wpc'[i] = wpc[i] /\ pActivity'[i] = pActivity[i]
  BY DEF Worker, CheckStop, Acquire, Drain, Scan, StealPop, Read, Run, Body, PopClaim, EndRound,
         Proceed, Goto, pool, workers
<1>2. wpc[w] # "exited"
  BY DEF Worker, CheckStop, Acquire, Drain, Scan, StealPop, Read, Run, Body
<1>3. shut # "joined"
  BY <1>2 DEF Running, JoinedExited
<1>4. CASE wpc[w] # "body" /\ wpc'[w] # "body" /\ UNCHANGED proxies
  BY <1>0, <1>1, <1>2, <1>4, RunIdle
<1>5. CASE UNCHANGED << pool, workers, proxies >>
  BY <1>0, <1>5
  DEF Running, BodyRuns, RunningHasBody, BegunWasStored, RunnerNearby, JoinedExited, Stored,
      workers, proxies
<1> DEFINE a == pActivity[w]
<1>6. CASE Run(w) /\ exec[a] = "new"
  <2>1. a \in Activities /\ Stored(a) /\ where[a] = from[w]
    BY <1>6 DEF Run, Defined, Provenance, HandsProvenance
  <2>2. where[a] = w \/ where[a] # StealIdx(w)
    BY <1>6, <2>1 DEF Run, Provenance, TakesFrom
  <2>3. /\ exec' = [exec EXCEPT ![a] = "running"] /\ runner' = [runner EXCEPT ![a] = w]
        /\ wpc' = [wpc EXCEPT ![w] = "body"] /\ UNCHANGED pActivity
    BY <1>6 DEF Run, Goto, workers
  <2>4. \A i \in Threads : wpc[i] = "body" => pActivity[i] # a
    BY <1>6 DEF Running, BodyRuns
  <2>5. BodyRuns'
    BY <2>1, <2>3, <2>4 DEF Running, BodyRuns, Defined, ProxiesTypeOK
  <2>6. RunningHasBody'
    BY <1>6, <2>1, <2>3 DEF Run, Running, RunningHasBody, ProxiesTypeOK
  <2>7. BegunWasStored' /\ RunnerNearby'
    BY <1>0, <2>1, <2>2, <2>3
    DEF Running, BegunWasStored, RunnerNearby, Stored, ProxiesTypeOK
  <2> QED
    BY <1>0, <1>3, <2>5, <2>6, <2>7 DEF Running, JoinedExited
<1>7. CASE Body(w) /\ a \notin Throwing
  <2>1. a \in Activities /\ exec[a] = "running" /\ runner[a] = w
    BY <1>7 DEF Body, Defined, Running, BodyRuns
  <2>2. exec' = [exec EXCEPT ![a] = "done"] /\ UNCHANGED runner /\ wpc'[w] # "body"
    BY <1>7 DEF Body, Proceed, EndRound, Goto
  <2>3. \A i \in Threads \ {w} : wpc[i] = "body" => pActivity[i] # a
    BY <2>1 DEF Running, BodyRuns
  <2>4. BodyRuns'
    BY <1>1, <2>1, <2>2, <2>3 DEF Running, BodyRuns, Defined, ProxiesTypeOK
  <2>5. RunningHasBody'
    BY <1>1, <2>1, <2>2 DEF Running, RunningHasBody, ProxiesTypeOK
  <2>6. BegunWasStored' /\ RunnerNearby'
    BY <1>0, <2>1, <2>2 DEF Running, BegunWasStored, RunnerNearby, Stored, ProxiesTypeOK
  <2> QED
    BY <1>0, <1>3, <2>4, <2>5, <2>6 DEF Running, JoinedExited
<1>8. CASE CheckStop(w) \/ Acquire(w) \/ Drain(w) \/ Scan(w) \/ StealPop(w) \/ Read(w)
  BY <1>4, <1>8
  DEF CheckStop, Acquire, Drain, Scan, StealPop, Read, PopClaim, EndRound, Proceed, Goto
<1>9. CASE Run(w) /\ exec[a] # "new"
  BY <1>4, <1>5, <1>9 DEF Run, Proceed, EndRound, Goto
<1>10. CASE Body(w) /\ a \in Throwing
  BY <1>5, <1>10 DEF Body
<1> QED
  BY <1>6, <1>7, <1>8, <1>9, <1>10 DEF Worker

LEMMA RunShut ==
  ASSUME RunInv, ShutStep
  PROVE  Running'
<1>1. UNCHANGED << workers, posts, proxies >>
  BY DEF ShutStep
<1>2. JoinedExited'
  BY <1>1
  DEF ShutStep, ShutDown, RequestStop, ReleaseStopped, Join, JoinedExited, workers
<1> QED
  BY <1>1, <1>2
  DEF RunInv, Running, BodyRuns, RunningHasBody, BegunWasStored, RunnerNearby, Stored,
      workers, posts, proxies

LEMMA RunInvariant == Spec => []RunInv
<1>1. Init => Running
  BY NoneAssumption
  DEF Init, Running, BodyRuns, RunningHasBody, BegunWasStored, RunnerNearby, JoinedExited
<1>2. Running /\ ProvInv /\ [Next]_vars => Running'
  <2> SUFFICES ASSUME RunInv, [Next]_vars
               PROVE  Running'
    BY DEF RunInv
  <2>1. CASE UNCHANGED vars
    BY <2>1
    DEF RunInv, Running, BodyRuns, RunningHasBody, BegunWasStored, RunnerNearby, JoinedExited,
        Stored, vars, workers, posts, proxies, shutting
  <2> QED
    BY <2>1, RunPost, RunWorker, RunShut DEF Next
<1>3. RunInv <=> ProvInv /\ Running
  BY DEF RunInv
<1> QED
  BY <1>1, <1>2, <1>3, ProvInvariant, PTL DEF Spec

(* Two workers are never inside the body of one activity: the exchange of  *)
(* m_isExecuted (TA_ActivityProxy.h 127-131) decides, even when the ring   *)
(* hands the same pointer to both.                                         *)
THEOREM BodyExclusiveTheorem == Spec => []BodyExclusive
<1>1. RunInv => BodyExclusive
  BY DEF RunInv, Running, BodyRuns, BodyExclusive
<1> QED
  BY <1>1, RunInvariant, PTL

(* A worker never runs what was posted to its right neighbour, where the   *)
(* scan of trySteal stops before looking (TA_ThreadPool.cpp 116-131).      *)
THEOREM NeighbourTheorem == Spec => []NeighbourNeverRobbed
<1>1. RunInv => NeighbourNeverRobbed
  BY DEF RunInv, Running, RunnerNearby, NeighbourNeverRobbed
<1> QED
  BY <1>1, RunInvariant, PTL

-----------------------------------------------------------------------------
(* shutDown.  Past its loop, or past index i of it, thread i is asked to   *)
(* stop and has a permit to wake it: the request comes before the release, *)
(* so a worker that takes the permit early finds the request.              *)
Released(i) ==
  shut \in {"join", "joined"} \/ (shut \in {"stop", "release"} /\ i < shutIdx)

StopInv ==
  /\ TypeInv
  /\ shut = "no" => shutIdx = 0
  /\ shut = "release" => stop[shutIdx]
  /\ \A i \in Threads : Released(i) =>
       stop[i] /\ (wpc[i] = "acquire" => permits[i] > 0)

LEMMA StopStep == StopInv /\ [Next]_vars => StopInv'
<1> SUFFICES ASSUME StopInv, [Next]_vars
             PROVE  StopInv'
  OBVIOUS
<1>0. TypeInv'
  BY TypeStep DEF StopInv
<1> USE DEF StopInv, TypeInv, TypeOK, PoolTypeOK, WorkersTypeOK
<1>1. ASSUME NEW a \in Activities, PostActivity(a)
      PROVE  StopInv'
  <2>1. UNCHANGED << stop, wpc, shutting >> /\ \A i \in Threads : permits'[i] >= permits[i]
    BY <1>1
    DEF PostActivity, Route, Reject, PushClaim, PushRetry, PushStore, Release, pool, workers,
        Defined
  <2> QED
    BY <1>0, <2>1 DEF Released, shutting
<1>2. ASSUME NEW w \in Threads, Worker(w)
      PROVE  StopInv'
  <2>1. UNCHANGED << stop, shutting >>
    BY <1>2
    DEF Worker, CheckStop, Acquire, Drain, Scan, StealPop, Read, Run, Body, PopClaim, EndRound,
        Proceed, pool
  <2>2. \A i \in Threads \ {w} : wpc'[i] = wpc[i] /\ permits'[i] = permits[i]
    BY <1>2
    DEF Worker, CheckStop, Acquire, Drain, Scan, StealPop, Read, Run, Body, PopClaim, EndRound,
        Proceed, Goto, pool, workers
  <2>3. wpc'[w] = "acquire" =>
          \/ ~ stop[w]
          \/ wpc[w] = "acquire" /\ permits'[w] = permits[w]
    BY <1>2
    DEF Worker, CheckStop, Acquire, Drain, Scan, StealPop, Read, Run, Body, PopClaim, EndRound,
        Proceed, Goto, pool, workers
  <2> QED
    BY <1>0, <2>1, <2>2, <2>3 DEF Released, shutting
<1>3. CASE ShutStep
  <2>0. UNCHANGED wpc /\ shutIdx \in Int
    BY <1>3 DEF ShutStep, workers, Threads
  <2>1. CASE ShutDown
    <3>1. shutIdx = 0 /\ shutIdx' = 0 /\ shut' = "stop" /\ UNCHANGED << stop, permits >>
      BY <2>1 DEF ShutDown, pool
    <3> QED
      BY <1>0, <2>0, <3>1 DEF Released, Threads
  <2>2. CASE RequestStop
    BY <1>0, <2>0, <2>2 DEF RequestStop, Released
  <2>3. CASE ReleaseStopped
    <3>1. /\ shut = "release" /\ stop' = stop /\ wpc' = wpc
          /\ permits' = [permits EXCEPT ![shutIdx] = permits[shutIdx] + 1]
          /\ \/ shut' = "stop" /\ shutIdx' = shutIdx + 1
             \/ shutIdx + 1 = NumThreads /\ shut' = "join" /\ shutIdx' = shutIdx
      BY <2>0, <2>3 DEF ReleaseStopped
    <3>2. \A i \in Threads : permits'[i] \in Nat /\ permits'[i] >= permits[i]
      BY <3>1
    <3>3. permits'[shutIdx] > 0 /\ stop[shutIdx]
      BY <3>1
    <3>4. \A i \in Threads : Released(i)' => i = shutIdx \/ Released(i)
      <4>. SUFFICES ASSUME NEW i \in Threads, Released(i)' PROVE i = shutIdx \/ i < shutIdx
        BY <3>1 DEF Released
      <4>1. i \in Int /\ i < NumThreads /\ NumThreads \in Int
        BY NumThreadsAssumption DEF Threads
      <4>2. CASE shut' = "stop" /\ shutIdx' = shutIdx + 1
        <5>1. i < shutIdx + 1
          BY <4>2 DEF Released
        <5>. QED BY <2>0, <4>1, <5>1
      <4>3. CASE shutIdx + 1 = NumThreads
        BY <2>0, <4>1, <4>3
      <4>. QED BY <3>1, <4>2, <4>3
    <3>5. \A i \in Threads : Released(i)' =>
            stop'[i] /\ (wpc'[i] = "acquire" => permits'[i] > 0)
      BY <3>1, <3>2, <3>3, <3>4
    <3> QED
      BY <1>0, <3>1, <3>5
  <2>4. CASE Join
    BY <1>0, <2>0, <2>4 DEF Join, Released, pool
  <2> QED
    BY <1>3, <2>1, <2>2, <2>3, <2>4 DEF ShutStep
<1>4. CASE UNCHANGED vars
  BY <1>0, <1>4 DEF Released, vars, pool, workers, shutting
<1> QED
  BY <1>1, <1>2, <1>3, <1>4 DEF Next

(* While shutDown waits to join, no worker sleeps without a permit         *)
(* (TA_ThreadPool.cpp 85-90): the join cannot hang on the semaphore.       *)
THEOREM StoppedTheorem == Spec => []StoppedHasPermit
<1>1. Init => StopInv
  <2>1. Init => shut = "no" /\ shutIdx = 0
    BY DEF Init
  <2> QED
    BY <2>1, TypeInit DEF StopInv, Released
<1>2. StopInv => StoppedHasPermit
  BY DEF StopInv, Released, StoppedHasPermit
<1> QED
  BY <1>1, <1>2, StopStep, PTL DEF Spec

-----------------------------------------------------------------------------
(* The refinement of ActivityService.                                      *)

Statuses == [a \in Activities |-> Status(a)]

LEMMA ServiceStutter ==
  ASSUME \A a \in Activities : Status(a)' = Status(a), (shut = "joined")' = (shut = "joined")
  PROVE  UNCHANGED << Statuses, shut = "joined" >>
BY DEF Statuses

LEMMA ServiceAdvance ==
  ASSUME NEW a \in Activities, NEW to,
         Status(a)' = to, \A b \in Activities \ {a} : Status(b)' = Status(b)
  PROVE  Statuses' = [Statuses EXCEPT ![a] = to]
BY DEF Statuses

LEMMA ServicePost ==
  ASSUME RunInv, NEW a \in Activities, PostActivity(a)
  PROVE  [Service!Next]_<< Statuses, shut = "joined" >>
<1> USE DEF RunInv, ProvInv, TypeInv, TypeOK, PostsTypeOK, ProxiesTypeOK
<1>0. UNCHANGED << exec, shut >> /\ \A b \in Activities \ {a} : post'[b] = post[b]
  BY DEF PostActivity, Route, Reject, PushClaim, PushRetry, PushStore, Release, Step,
         proxies, shutting
<1>1. \A b \in Activities \ {a} : Status(b)' = Status(b)
  BY <1>0 DEF Status
<1>2. exec[a] = "new" \/ post[a] \in {"release", "posted"}
  BY DEF Running, BegunWasStored, Stored
<1>3. CASE Route(a) \/ PushRetry(a) \/ PushStore(a) \/ Release(a)
  <2>1. Status(a)' = Status(a)
    BY <1>0, <1>3 DEF Route, PushRetry, PushStore, Release, Step, Status
  <2> QED
    BY <1>0, <1>1, <2>1, ServiceStutter
<1>4. CASE PushClaim(a)
  <2>1. Status(a) = "new" /\ Status(a)' = "accepted"
    BY <1>0, <1>2, <1>4 DEF PushClaim, Step, Status
  <2>2. Statuses[a] = "new" /\ Statuses' = [Statuses EXCEPT ![a] = "accepted"]
    BY <1>1, <2>1, ServiceAdvance DEF Statuses
  <2>3. Service!Accept(a)
    BY <1>0, <2>2 DEF Service!Accept, Service!Advance, Statuses
  <2> QED
    BY <2>3 DEF Service!Next
<1>5. CASE Reject(a)
  <2>1. Status(a) = "new" /\ Status(a)' = "rejected"
    BY <1>0, <1>2, <1>5 DEF Reject, Step, Status
  <2>2. Statuses[a] = "new" /\ Statuses' = [Statuses EXCEPT ![a] = "rejected"]
    BY <1>1, <2>1, ServiceAdvance DEF Statuses
  <2>3. Service!Reject(a)
    BY <1>0, <2>2 DEF Service!Reject, Service!Advance, Statuses
  <2> QED
    BY <2>3 DEF Service!Next
<1> QED
  BY <1>3, <1>4, <1>5 DEF PostActivity

LEMMA ServiceWorker ==
  ASSUME RunInv, NEW w \in Threads, Worker(w)
  PROVE  [Service!Next]_<< Statuses, shut = "joined" >>
<1> USE DEF RunInv, ProvInv, TypeInv, TypeOK, ProxiesTypeOK
<1>0. UNCHANGED << post, shut >>
  BY DEF Worker, posts, shutting
<1>1. shut # "joined"
  BY DEF Running, JoinedExited, Worker, CheckStop, Acquire, Drain, Scan, StealPop, Read, Run, Body
<1>2. CASE UNCHANGED exec
  <2>1. \A b \in Activities : Status(b)' = Status(b)
    BY <1>0, <1>2 DEF Status
  <2> QED
    BY <1>0, <2>1, ServiceStutter
<1>3. CASE Run(w) /\ exec[pActivity[w]] = "new"
  <2>1. PICK a \in Activities : a = pActivity[w] /\ Stored(a)
    BY <1>3 DEF Run, Defined, Provenance, HandsProvenance
  <2>2. exec' = [exec EXCEPT ![a] = "running"]
    BY <1>3, <2>1 DEF Run
  <2>3. Status(a) = "accepted" /\ Status(a)' = "running"
    BY <1>0, <1>3, <2>1, <2>2 DEF Status, Stored
  <2>4. \A b \in Activities \ {a} : Status(b)' = Status(b)
    BY <1>0, <2>2 DEF Status
  <2>5. Statuses[a] = "accepted" /\ Statuses' = [Statuses EXCEPT ![a] = "running"]
    BY <2>1, <2>3, <2>4, ServiceAdvance DEF Statuses
  <2>6. Service!Start(a)
    BY <1>0, <1>1, <2>5 DEF Service!Start, Service!Advance, Statuses
  <2> QED
    BY <2>1, <2>6 DEF Service!Next
<1>4. CASE Body(w) /\ pActivity[w] \notin Throwing
  <2>1. PICK a \in Activities : a = pActivity[w] /\ exec[a] = "running"
    BY <1>4 DEF Body, Defined, Running, BodyRuns
  <2>2. exec' = [exec EXCEPT ![a] = "done"]
    BY <1>4, <2>1 DEF Body
  <2>3. Status(a) = "running" /\ Status(a)' = "done"
    BY <2>1, <2>2 DEF Status
  <2>4. \A b \in Activities \ {a} : Status(b)' = Status(b)
    BY <1>0, <2>2 DEF Status
  <2>5. Statuses[a] = "running" /\ Statuses' = [Statuses EXCEPT ![a] = "done"]
    BY <2>1, <2>3, <2>4, ServiceAdvance DEF Statuses
  <2>6. Service!Finish(a)
    BY <1>0, <1>1, <2>5 DEF Service!Finish, Service!Advance, Statuses
  <2> QED
    BY <2>1, <2>6 DEF Service!Next
<1> QED
  BY <1>2, <1>3, <1>4
  DEF Worker, CheckStop, Acquire, Drain, Scan, StealPop, Read, Run, Body, proxies

LEMMA ServiceShut ==
  ASSUME RunInv, ShutStep
  PROVE  [Service!Next]_<< Statuses, shut = "joined" >>
<1>0. \A a \in Activities : Status(a)' = Status(a)
  BY DEF ShutStep, Status, posts, proxies
<1>1. CASE Join
  <2>1. \A a \in Activities : exec[a] # "running"
    BY <1>1 DEF Join, RunInv, Running, RunningHasBody
  <2>2. \A a \in Activities : Statuses[a] # "running"
    BY <2>1 DEF Statuses, Status
  <2>3. Service!Close
    BY <1>0, <1>1, <2>2 DEF Join, Service!Close, Statuses
  <2> QED
    BY <2>3 DEF Service!Next
<1>2. CASE ~ Join
  <2>1. (shut = "joined")' = (shut = "joined")
    BY <1>2 DEF ShutStep, ShutDown, RequestStop, ReleaseStopped
  <2> QED
    BY <1>0, <2>1, ServiceStutter
<1> QED
  BY <1>1, <1>2

(* The pool implements ActivityService: an activity begins only after it   *)
(* was accepted, at most once, and never after shutDown has returned.      *)
THEOREM ServiceTheorem == Spec => ImplementsService
<1>1. Init => Service!Init
  BY DEF Init, Service!Init, Status
<1>2. RunInv /\ [Next]_vars => [Service!Next]_<< Statuses, shut = "joined" >>
  <2> SUFFICES ASSUME RunInv, [Next]_vars
               PROVE  [Service!Next]_<< Statuses, shut = "joined" >>
    OBVIOUS
  <2>1. CASE UNCHANGED vars
    <3>1. \A a \in Activities : Status(a)' = Status(a)
      BY <2>1 DEF vars, Status, posts, proxies
    <3> QED
      BY <2>1, <3>1, ServiceStutter DEF vars, shutting
  <2> QED
    BY <2>1, ServicePost, ServiceWorker, ServiceShut DEF Next
<1> QED
  BY <1>1, <1>2, RunInvariant, PTL DEF Spec, ImplementsService, Service!Spec, Statuses

-----------------------------------------------------------------------------
(* What is stored.  Under StallFree no claim is a lap behind, so two of    *)
(* them that share a slot are the same.                                    *)

Claimed(a) == post[a] \in {"store", "release", "posted"}

Occupied(i) == head[i] <= tail[i] /\ tail[i] <= head[i] + N - 1

(* A push has claimed a place nobody else has, and stores into it before   *)
(* the ring has come round.                                                *)
PushesNear ==
  /\ \A a \in Activities : Claimed(a) => ticket[a] < tail[where[a]]
  /\ \A a \in Activities : post[a] = "store" => tail[where[a]] <= ticket[a] + N
  /\ \A a, b \in Activities :
       Claimed(a) /\ Claimed(b) /\ where[a] = where[b] /\ ticket[a] = ticket[b] => a = b

(* So does a pop read.                                                     *)
PopsNear == \A w \in Threads : wpc[w] = "read" => tail[from[w]] <= wticket[w] + N

(* What the last N pushes stored is there.                                 *)
InPlace ==
  \A a \in Activities :
    Stored(a) /\ tail[where[a]] <= ticket[a] + N => ring[where[a]][ticket[a] % N] = a

StoredInv == (\A i \in Threads : Occupied(i)) /\ PushesNear /\ PopsNear /\ InPlace

LEMMA StoredInit == Init => StoredInv
BY NAssumption DEF Init, StoredInv, Occupied, PushesNear, PopsNear, InPlace, Claimed, Stored

(* A step that claims nothing and stores nothing.                          *)
LEMMA StoredIdle ==
  ASSUME StoredInv, UNCHANGED << ring, head, tail >>,
         \A a \in Activities : Claimed(a)' =>
           /\ Claimed(a) /\ where'[a] = where[a] /\ ticket'[a] = ticket[a]
           /\ post'[a] = "store" => post[a] = "store"
           /\ Stored(a)' => Stored(a),
         \A w \in Threads : wpc'[w] = "read" =>
           wpc[w] = "read" /\ from'[w] = from[w] /\ wticket'[w] = wticket[w]
  PROVE  StoredInv'
<1>1. (\A i \in Threads : Occupied(i)')
  BY DEF StoredInv, Occupied
<1>2. PushesNear'
  <2>1. \A a \in Activities : post'[a] = "store" => Claimed(a)'
    BY DEF Claimed
  <2>2. \A a \in Activities : Claimed(a)' => ticket'[a] < tail'[where'[a]]
    BY DEF StoredInv, PushesNear
  <2>3. \A a \in Activities : post'[a] = "store" => tail'[where'[a]] <= ticket'[a] + N
    BY <2>1 DEF StoredInv, PushesNear
  <2>4. \A a, b \in Activities :
          Claimed(a)' /\ Claimed(b)' /\ where'[a] = where'[b] /\ ticket'[a] = ticket'[b] => a = b
    BY DEF StoredInv, PushesNear
  <2>. QED BY <2>2, <2>3, <2>4 DEF PushesNear
<1>3. PopsNear'
  BY DEF StoredInv, PopsNear
<1>4. InPlace'
  BY DEF StoredInv, InPlace, Stored, Claimed
<1>. QED BY <1>1, <1>2, <1>3, <1>4 DEF StoredInv

LEMMA StoredClaim ==
  ASSUME StallFree, TypeInv, StoredInv, NEW a \in Activities, PushClaim(a)
  PROVE  StoredInv'
<1>. PICK i \in Threads : i = where[a]
  BY DEF TypeInv, Defined, PushClaim
<1>0. /\ N \in Nat \ {0} /\ N >= 2
      /\ \A j \in Threads : head[j] \in Nat /\ tail[j] \in Nat
      /\ \A b \in Activities : ticket[b] \in Nat
      /\ \A w \in Threads : wticket[w] \in Nat /\ from[w] \in Threads
  <2>1. N \in Nat \ {0} /\ N >= 2
    BY NAssumption
  <2>2. \A j \in Threads : head[j] \in Nat /\ tail[j] \in Nat
    BY DEF TypeInv, TypeOK, PoolTypeOK
  <2>3. \A b \in Activities : ticket[b] \in Nat
    BY DEF TypeInv, TypeOK, PostsTypeOK
  <2>4. \A w \in Threads : wticket[w] \in Nat /\ from[w] \in Threads
    BY DEF TypeInv, TypeOK, WorkersTypeOK
  <2>. QED BY <2>1, <2>2, <2>3, <2>4
<1>1. /\ ticket[a] = tail[i] /\ post[a] = "push"
      /\ tail'[i] = tail[i] + 1 /\ \A j \in Threads \ {i} : tail'[j] = tail[j]
      /\ post'[a] = "store" /\ \A b \in Activities \ {a} : post'[b] = post[b]
      /\ UNCHANGED << ring, head, where, ticket, wpc, from, wticket >>
  BY DEF PushClaim, Step, workers, TypeInv, TypeOK, PoolTypeOK, PostsTypeOK
<1>2. /\ \A b \in Activities : where[b] = i /\ post[b] = "store" => ticket[b] # tail[i] - N
      /\ \A w \in Threads : from[w] = i /\ wpc[w] = "read" => wticket[w] # tail[i] - N
  BY DEF PushClaim, Unlapped
<1>3. Occupied(i)'
  <2>1. head[i] <= tail[i] /\ tail[i] <= head[i] + N - 1
    BY DEF StoredInv, Occupied
  <2>2. tail[i] + 1 # head[i] + N
    <3>1. (tail[i] + 1) % N # head[i] % N
      BY <1>1 DEF PushClaim, SeemsFull
    <3>2. (head[i] + N) % N = head[i] % N
      BY <1>0, NextLap
    <3>. QED BY <3>1, <3>2
  <2>. QED BY <1>0, <1>1, <2>1, <2>2 DEF Occupied
<1>4. \A j \in Threads : Occupied(j)'
  BY <1>1, <1>3 DEF StoredInv, Occupied
<1>5. PushesNear'
  <2>1. \A b \in Activities \ {a} : Claimed(b)' <=> Claimed(b)
    BY <1>1 DEF Claimed
  <2>2. \A b \in Activities \ {a} : Claimed(b) /\ where[b] = i => ticket[b] < tail[i]
    BY DEF StoredInv, PushesNear
  <2>3. \A b \in Activities : Claimed(b)' => ticket[b] < tail'[where[b]]
    BY <1>0, <1>1, <2>1, <2>2 DEF StoredInv, PushesNear, TypeInv, Defined, Claimed
  <2>4. \A b \in Activities : post'[b] = "store" => tail'[where[b]] <= ticket[b] + N
    BY <1>0, <1>1, <1>2 DEF StoredInv, PushesNear, TypeInv, Defined
  <2>5. \A b, c \in Activities :
          Claimed(b)' /\ Claimed(c)' /\ where[b] = where[c] /\ ticket[b] = ticket[c] => b = c
    BY <1>0, <1>1, <2>1, <2>2 DEF StoredInv, PushesNear
  <2>. QED BY <1>1, <2>3, <2>4, <2>5 DEF PushesNear
<1>6. PopsNear'
  BY <1>0, <1>1, <1>2 DEF StoredInv, PopsNear
<1>7. InPlace'
  <2>1. \A b \in Activities : Stored(b)' => Stored(b) /\ where[b] \in Threads
    BY <1>1 DEF Stored, TypeInv, Defined
  <2>2. \A j \in Threads : tail[j] <= tail'[j]
    BY <1>0, <1>1
  <2>3. \A b \in Activities : Stored(b)' /\ tail'[where[b]] <= ticket[b] + N
          => tail[where[b]] <= ticket[b] + N
    BY <1>0, <1>1, <2>1, <2>2
  <2>. QED BY <1>1, <2>1, <2>3 DEF StoredInv, InPlace
<1>. QED BY <1>4, <1>5, <1>6, <1>7 DEF StoredInv

LEMMA StoredStore ==
  ASSUME TypeInv, StoredInv, NEW a \in Activities, PushStore(a)
  PROVE  StoredInv'
<1>. PICK i \in Threads : i = where[a]
  BY DEF TypeInv, Defined, PushStore
<1>0. /\ N \in Nat \ {0}
      /\ \A j \in Threads : tail[j] \in Nat
      /\ \A b \in Activities : ticket[b] \in Nat /\ ticket[b] % N \in Slots
      /\ ring \in [Threads -> [Slots -> Activities \union {None}]]
  BY NAssumption, SlotInRange DEF TypeInv, TypeOK, PoolTypeOK, PostsTypeOK
<1>1. /\ post[a] = "store" /\ post'[a] = "release"
      /\ \A b \in Activities \ {a} : post'[b] = post[b]
      /\ ring' = [ring EXCEPT ![i][ticket[a] % N] = a]
      /\ UNCHANGED << head, tail, where, ticket, wpc, from, wticket >>
  BY DEF PushStore, Step, workers, TypeInv, TypeOK, PostsTypeOK
<1>2. \A b \in Activities : Claimed(b)' <=> Claimed(b)
  BY <1>1 DEF Claimed
<1>3. PushesNear'
  BY <1>1, <1>2 DEF StoredInv, PushesNear
<1>4. InPlace'
  <2>. SUFFICES ASSUME NEW b \in Activities, Stored(b)', tail[where[b]] <= ticket[b] + N
                PROVE  ring'[where[b]][ticket[b] % N] = b
    BY <1>1 DEF InPlace
  <2>1. CASE b = a
    BY <1>0, <1>1, <2>1
  <2>2. CASE b # a
    <3>1. Stored(b) /\ where[b] \in Threads /\ Claimed(b) /\ Claimed(a)
      BY <1>1, <2>2 DEF Stored, Claimed, TypeInv, Defined
    <3>2. ring[where[b]][ticket[b] % N] = b
      BY <3>1 DEF StoredInv, InPlace
    <3>3. where[b] = i => ticket[b] % N # ticket[a] % N
      <4>. SUFFICES ASSUME where[b] = i, ticket[b] % N = ticket[a] % N PROVE FALSE
        OBVIOUS
      <4>1. /\ ticket[a] < tail[i] /\ tail[i] <= ticket[a] + N
            /\ ticket[b] < tail[i] /\ tail[i] <= ticket[b] + N
        BY <1>1, <3>1 DEF StoredInv, PushesNear
      <4>2. ticket[a] < ticket[b] + N /\ ticket[b] < ticket[a] + N
        BY <1>0, <4>1
      <4>3. ticket[a] <= ticket[b] \/ ticket[b] <= ticket[a]
        BY <1>0
      <4>4. ticket[a] = ticket[b]
        BY <1>0, <4>2, <4>3, SameSlot
      <4>. QED BY <2>2, <3>1, <4>4 DEF StoredInv, PushesNear
    <3>. QED BY <1>0, <1>1, <3>1, <3>2, <3>3
  <2>. QED BY <2>1, <2>2
<1>. QED BY <1>1, <1>3, <1>4 DEF StoredInv, Occupied, PopsNear

LEMMA StoredPopClaim ==
  ASSUME TypeInv, StoredInv, NEW w \in Threads, from[w] \in Threads, PopClaim(w, from[w]),
         UNCHANGED posts
  PROVE  StoredInv'
<1>. PICK j \in Threads : j = from[w]
  OBVIOUS
<1>0. /\ N \in Nat \ {0}
      /\ head[j] \in Nat /\ tail[j] \in Nat /\ head[j] <= tail[j] /\ tail[j] <= head[j] + N - 1
  BY NAssumption DEF TypeInv, TypeOK, PoolTypeOK, StoredInv, Occupied
<1>1. /\ head[j] # tail[j] /\ head'[j] = head[j] + 1
      /\ \A k \in Threads \ {j} : head'[k] = head[k]
      /\ wticket'[w] = head[j]
      /\ \A v \in Threads \ {w} : wpc'[v] = wpc[v] /\ wticket'[v] = wticket[v]
      /\ UNCHANGED << ring, tail, from, post, where, ticket >>
  BY DEF PopClaim, Nonempty, Goto, posts, TypeInv, TypeOK, PoolTypeOK, WorkersTypeOK
<1>2. \A k \in Threads : Occupied(k)'
  <2>1. Occupied(j)'
    BY <1>0, <1>1 DEF Occupied
  <2>. QED BY <1>1, <2>1 DEF StoredInv, Occupied
<1>3. PopsNear'
  <2>1. tail'[from'[w]] <= wticket'[w] + N
    BY <1>0, <1>1
  <2>. QED BY <1>1, <2>1 DEF StoredInv, PopsNear
<1>. QED BY <1>1, <1>2, <1>3 DEF StoredInv, PushesNear, InPlace, Claimed, Stored

LEMMA StoredPost ==
  ASSUME StallFree, TypeInv, StoredInv, NEW a \in Activities, PostActivity(a)
  PROVE  StoredInv'
<1>1. CASE Route(a) \/ Reject(a) \/ PushRetry(a) \/ Release(a)
  BY <1>1, StoredIdle
  DEF Route, Reject, PushRetry, Release, Step, Claimed, Stored, pool, workers,
      TypeInv, TypeOK, PostsTypeOK
<1>. QED BY <1>1, StoredClaim, StoredStore DEF PostActivity

LEMMA StoredWorker ==
  ASSUME WakeInv, StoredInv, NEW w \in Threads, Worker(w)
  PROVE  StoredInv'
<1>0. TypeInv /\ OwnQueue /\ UNCHANGED << post, where, ticket >> /\ UNCHANGED posts
  BY DEF WakeInv, Worker, posts
<1>1. from[w] \in Threads /\ (wpc[w] = "drain" => from[w] = w)
  BY <1>0 DEF TypeInv, TypeOK, WorkersTypeOK, OwnQueue
<1>2. CASE PopClaim(w, from[w])
  BY <1>0, <1>1, <1>2, StoredPopClaim
<1>3. CASE /\ UNCHANGED << ring, head, tail >> /\ wpc'[w] # "read"
           /\ \A v \in Threads \ {w} : wpc'[v] = wpc[v] /\ from'[v] = from[v] /\ wticket'[v] = wticket[v]
  BY <1>0, <1>3, StoredIdle DEF Claimed, Stored
<1>4. CASE UNCHANGED << pool, workers >>
  BY <1>0, <1>4, StoredIdle DEF Claimed, Stored, pool, workers
<1>. USE DEF TypeInv, TypeOK, WorkersTypeOK
<1>5. CASE CheckStop(w) \/ Acquire(w) \/ Scan(w)
  BY <1>0, <1>3, <1>5 DEF CheckStop, Acquire, Scan, EndRound, Goto, pool
<1>6. ASSUME Proceed(w) PROVE StoredInv'
  BY <1>0, <1>3, <1>6 DEF Proceed, EndRound, Goto, pool
<1>7. CASE Drain(w) \/ StealPop(w)
  BY <1>0, <1>1, <1>2, <1>3, <1>7 DEF Drain, StealPop, Goto, pool
<1>8. CASE Read(w)
  BY <1>0, <1>3, <1>6, <1>8 DEF Read, Goto, pool
<1>9. CASE Run(w)
  BY <1>0, <1>3, <1>4, <1>6, <1>9 DEF Run, Goto, pool
<1>10. CASE Body(w)
  BY <1>4, <1>6, <1>10 DEF Body
<1>. QED BY <1>5, <1>7, <1>8, <1>9, <1>10 DEF Worker

LEMMA StoredShut == ASSUME StoredInv, ShutStep PROVE StoredInv'
<1>1. UNCHANGED << ring, head, tail, workers, posts >>
  BY DEF ShutStep, ShutDown, RequestStop, ReleaseStopped, Join, pool
<1>. QED BY <1>1, StoredIdle DEF workers, posts, Claimed, Stored

(* Once stored an activity is not lost (TA_ActivityQueue.h 60-98 under the *)
(* pool's pushes, pops and thefts): it stays in its slot until it is       *)
(* claimed, and the worker that claims it reads it.                        *)
THEOREM StoredTheorem == ASSUME StallFree PROVE Spec => []StoredIsSafe
<1>1. WakeInv /\ StoredInv /\ [Next]_vars => StoredInv'
  <2>. SUFFICES ASSUME WakeInv, StoredInv, [Next]_vars PROVE StoredInv'
    OBVIOUS
  <2>1. CASE UNCHANGED vars
    BY <2>1, StoredIdle DEF vars, pool, workers, posts, Claimed, Stored
  <2>2. TypeInv
    BY DEF WakeInv
  <2>. QED BY <2>1, <2>2, StoredPost, StoredWorker, StoredShut DEF Next
<1>2. TypeInv /\ StoredInv => StoredIsSafe
  <2>. SUFFICES ASSUME TypeInv, StoredInv, NEW a \in Activities, Stored(a)
                PROVE  LET i == where[a] IN
                       /\ ticket[a] >= head[i] => ring[i][ticket[a] % N] = a
                       /\ \A w \in Threads :
                            wpc[w] = "read" /\ from[w] = i /\ wticket[w] = ticket[a] =>
                              ring[i][ticket[a] % N] = a
    BY DEF StoredIsSafe
  <2>1. where[a] \in Threads
    BY DEF TypeInv, Defined, Stored
  <2>2. /\ N \in Nat /\ ticket[a] \in Nat /\ head[where[a]] \in Nat /\ tail[where[a]] \in Nat
        /\ tail[where[a]] <= head[where[a]] + N - 1
    BY <2>1, NAssumption DEF TypeInv, TypeOK, PoolTypeOK, PostsTypeOK, StoredInv, Occupied
  <2>3. ticket[a] >= head[where[a]] => tail[where[a]] <= ticket[a] + N
    BY <2>2
  <2>. QED BY <2>3 DEF StoredInv, InPlace, PopsNear
<1>3. Spec => []StoredInv
  BY <1>1, StoredInit, WakeInvariant, PTL DEF Spec
<1>4. WakeInv => TypeInv
  BY DEF WakeInv
<1>. QED BY <1>2, <1>3, <1>4, WakeInvariant, PTL
=============================================================================
