---------------------- MODULE ConcurrentPipeline_proofs ----------------------
(***************************************************************************)
(* Theorems about module ConcurrentPipeline: a round leaves nothing behind *)
(* in the pool, its results are those of finished activities, and a queue  *)
(* that is not empty has a worker who looks at it.                         *)
(*                                                                         *)
(* The caller may fill the list of the next round while the last run is    *)
(* still returning, and the activities are in many hands at once, so the   *)
(* invariant says where each of them is: in the list only, in one queue,   *)
(* in one worker's hands, or executed.                                     *)
(***************************************************************************)
EXTENDS ConcurrentPipeline, TLAPS

Items == Activities \union {RunActivity}

In(t, x) == \E k \in 1 .. Len(queue[t]) : queue[t][k] = x

(* Nothing is posted twice.                                                *)
Once ==
  \A t, u \in Threads : \A j \in 1 .. Len(queue[t]), k \in 1 .. Len(queue[u]) :
    queue[t][j] = queue[u][k] => t = u /\ j = k

(* What a worker holds is in no queue and in no other hands, and what is   *)
(* posted or held has not been executed.                                   *)
Held ==
  \A t \in Threads :
    /\ wpc[t] \in {"body", "stolen"} <=> hands[t] # None
    /\ wpc[t] = "stolen" => hands[t] # RunActivity
    /\ \A x \in Activities :
         /\ In(t, x) => x \notin executed
         /\ hands[t] = x =>
              /\ x \notin executed
              /\ \A u \in Threads : ~ In(u, x) /\ (hands[u] = x => u = t)

Active == {"begin", "scan", "push", "release", "collect"}

(* The run is posted to its own thread, begins there, and is posted again  *)
(* when it has ended at the earliest.                                      *)
OneRun ==
  /\ at \in Active => state = "Busy"
  /\ \A t \in Threads :
       /\ In(t, RunActivity) => t = home /\ state = "Busy" /\ at \in {"none", "end"} /\ ~ onCaller
       /\ hands[t] = RunActivity => t = home /\ at # "none" /\ ~ onCaller

(* The loop that posts is inside the list.                                 *)
Bounds == at \in {"scan", "push", "release"} => startIndex <= i /\ i < Len(list)

PlacesInv == TypeOK /\ Bounds /\ Once /\ Held /\ OneRun

(* How far in the list the run has posted.                                 *)
Sent ==
  IF at \in {"scan", "push"} THEN i
  ELSE IF at = "release" THEN i + 1
  ELSE IF at = "collect" THEN Len(list)
  ELSE 0

Out(x) == \E t \in Threads : hands[t] = x \/ In(t, x)

(* What is in the pool was posted by this run, the rest of the list is     *)
(* new, and what the run has collected is executed.                        *)
RoundInv ==
  /\ \A j, k \in 1 .. Len(list) : list[j] = list[k] => j = k
  /\ \A x \in Activities :
       Out(x) => \E k \in 1 .. Len(list) : list[k] = x /\ startIndex < k /\ k <= Sent
  /\ \A k \in 1 .. Len(list) : k > Sent => list[k] \notin executed
  /\ at = "collect" => \A k \in 1 .. Len(list) : startIndex < k /\ k <= i => list[k] \in executed

(* The list and the results have the same length until the run ends.       *)
ResultsInv ==
  /\ state = "Ready" => list = << >>
  /\ state # "Ready" => Len(results) = Len(list)
  /\ at = "collect" => \A k \in 1 .. Len(results) : k <= i => results[k] \in executed \union {Moved}
  /\ RoundComplete

(* A queue that is not empty has somebody to look at it.                   *)
AwakeInv ==
  /\ at = "scan" => idx = 0 \/ lowIdx \in Threads
  /\ at \in {"push", "release"} => lowIdx \in Threads
  /\ \A t \in Threads :
       queue[t] # << >> =>
         wpc[t] \in {"drain", "body"} \/ permits[t] > 0 \/ (at = "release" /\ t = lowIdx)

-----------------------------------------------------------------------------
(* The queues                                                              *)

LEMMA PostedLies ==
  ASSUME TypeOK, Once, NEW t \in Threads, NEW x \in Items, \A u \in Threads : ~ In(u, x),
         queue' = [queue EXCEPT ![t] = Append(@, x)]
  PROVE  /\ queue' \in [Threads -> Seq(Items)]
         /\ Once'
         /\ In(t, x)'
         /\ \A u \in Threads : \A y : In(u, y)' => In(u, y) \/ (u = t /\ y = x)
         /\ \A u \in Threads : \A y : In(u, y) => In(u, y)'
<1>. DEFINE longer == Append(queue[t], x)
<1>1. /\ queue[t] \in Seq(Items) /\ longer \in Seq(Items) /\ Len(longer) = Len(queue[t]) + 1
      /\ longer[Len(queue[t]) + 1] = x /\ \A j \in 1 .. Len(queue[t]) : longer[j] = queue[t][j]
      /\ Len(queue[t]) \in Nat
  BY DEF TypeOK, Items
<1>2. queue' = [queue EXCEPT ![t] = longer]
  OBVIOUS
<1>. HIDE DEF longer
<1>3. queue' \in [Threads -> Seq(Items)]
  BY <1>1, <1>2 DEF TypeOK, Items
<1>4. \A u \in Threads : \A j \in 1 .. Len(queue'[u]) :
        \/ j \in 1 .. Len(queue[u]) /\ queue'[u][j] = queue[u][j]
        \/ u = t /\ j = Len(queue[t]) + 1 /\ queue'[u][j] = x
  BY <1>1, <1>2 DEF TypeOK
<1>5. \A u \in Threads : \A y : In(u, y)' => In(u, y) \/ (u = t /\ y = x)
  BY <1>4 DEF In
<1>6. \A u \in Threads : \A j \in 1 .. Len(queue[u]) :
        j \in 1 .. Len(queue'[u]) /\ queue'[u][j] = queue[u][j]
  BY <1>1, <1>2 DEF TypeOK
<1>7. \A u \in Threads : \A y : In(u, y) => In(u, y)'
  BY <1>6 DEF In
<1>8. In(t, x)'
  <2>1. queue'[t] = longer
    BY <1>2 DEF TypeOK
  <2>2. Len(queue[t]) + 1 \in 1 .. Len(queue'[t]) /\ queue'[t][Len(queue[t]) + 1] = x
    BY <1>1, <2>1
  <2>. QED BY <2>2 DEF In
<1>9. \A u \in Threads : \A j \in 1 .. Len(queue[u]) : queue[u][j] # x
  BY DEF In
<1>10. Once'
  <2>. SUFFICES ASSUME NEW u \in Threads, NEW v \in Threads,
                       NEW j \in 1 .. Len(queue'[u]), NEW k \in 1 .. Len(queue'[v]),
                       queue'[u][j] = queue'[v][k]
                PROVE  u = v /\ j = k
    BY DEF Once
  <2>1. \/ j \in 1 .. Len(queue[u]) /\ queue'[u][j] = queue[u][j]
        \/ u = t /\ j = Len(queue[t]) + 1 /\ queue'[u][j] = x
    BY <1>4
  <2>2. \/ k \in 1 .. Len(queue[v]) /\ queue'[v][k] = queue[v][k]
        \/ v = t /\ k = Len(queue[t]) + 1 /\ queue'[v][k] = x
    BY <1>4
  <2>. QED BY <1>9, <2>1, <2>2 DEF Once
<1>. QED BY <1>3, <1>5, <1>7, <1>8, <1>10

(* What is taken lies nowhere any more, everything else where it lay.      *)
LEMMA TakenLies ==
  ASSUME TypeOK, Once, NEW t \in Threads, queue[t] # << >>,
         queue' = [queue EXCEPT ![t] = Tail(@)]
  PROVE  /\ queue' \in [Threads -> Seq(Items)]
         /\ Once'
         /\ Head(queue[t]) \in Items /\ In(t, Head(queue[t]))
         /\ \A u \in Threads : \A y : In(u, y)' => In(u, y)
         /\ \A u \in Threads, x \in Items : x = Head(queue[t]) => ~ In(u, x)'
         /\ \A u \in Threads : queue'[u] # << >> => queue[u] # << >>
<1>. DEFINE shorter == Tail(queue[t])
<1>1. /\ queue[t] \in Seq(Items) /\ shorter \in Seq(Items) /\ Len(shorter) = Len(queue[t]) - 1
      /\ Head(queue[t]) = queue[t][1] /\ 1 \in 1 .. Len(queue[t]) /\ Head(queue[t]) \in Items
      /\ \A j \in 1 .. Len(queue[t]) - 1 : shorter[j] = queue[t][j + 1]
      /\ Len(queue[t]) \in Nat
  BY DEF TypeOK, Items
<1>2. queue' = [queue EXCEPT ![t] = shorter]
  OBVIOUS
<1>. HIDE DEF shorter
<1>3. queue' \in [Threads -> Seq(Items)]
  BY <1>1, <1>2 DEF TypeOK, Items
<1>. DEFINE from(u, j) == IF u = t THEN j + 1 ELSE j
<1>4. \A u \in Threads : \A j \in 1 .. Len(queue'[u]) :
        /\ from(u, j) \in 1 .. Len(queue[u]) /\ queue'[u][j] = queue[u][from(u, j)]
        /\ j \in Int
  BY <1>1, <1>2 DEF TypeOK
<1>5. \A u \in Threads : \A y : In(u, y)' => In(u, y)
  BY <1>4 DEF In
<1>6. In(t, Head(queue[t]))
  BY <1>1 DEF In
<1>. HIDE DEF from
<1>7. Once'
  <2>. SUFFICES ASSUME NEW u \in Threads, NEW v \in Threads,
                       NEW j \in 1 .. Len(queue'[u]), NEW k \in 1 .. Len(queue'[v]),
                       queue'[u][j] = queue'[v][k]
                PROVE  u = v /\ j = k
    BY DEF Once
  <2>1. from(u, j) \in 1 .. Len(queue[u]) /\ queue'[u][j] = queue[u][from(u, j)]
    BY <1>4
  <2>2. from(v, k) \in 1 .. Len(queue[v]) /\ queue'[v][k] = queue[v][from(v, k)]
    BY <1>4
  <2>3. u = v /\ from(u, j) = from(v, k)
    BY <2>1, <2>2 DEF Once
  <2>4. j \in Int /\ k \in Int
    OBVIOUS
  <2>. QED BY <2>3, <2>4 DEF from
<1>8. ASSUME NEW u \in Threads, NEW x \in Items, x = Head(queue[t]), In(u, x)'
      PROVE  FALSE
  <2>1. PICK j \in 1 .. Len(queue'[u]) : queue'[u][j] = x
    BY <1>8 DEF In
  <2>2. from(u, j) \in 1 .. Len(queue[u]) /\ queue[u][from(u, j)] = x
    BY <1>4, <2>1
  <2>3. queue[t][1] = x
    BY <1>1, <1>8
  <2>4. u = t /\ from(u, j) = 1
    BY <1>1, <2>2, <2>3 DEF Once
  <2>. QED BY <2>4 DEF from
<1>9. \A u \in Threads : queue'[u] # << >> => queue[u] # << >>
  BY <1>2 DEF TypeOK
<1>. QED BY <1>1, <1>3, <1>5, <1>6, <1>7, <1>8, <1>9

-----------------------------------------------------------------------------
(* Types                                                                   *)

LEMMA InitType == Init => TypeOK
<1>. SUFFICES ASSUME Init PROVE TypeOK
  OBVIOUS
<1>1. 0 \in Threads
  BY NumThreadsAssumption DEF Threads
<1>2. queue \in [Threads -> Seq(Activities \union {RunActivity})]
  BY DEF Init
<1>3. list \in Seq(Activities) /\ Len(list) <= MaxSize /\ results \in Seq(Activities \union {None, Moved})
      /\ i \in 0 .. MaxSize
  BY BoundsAssumption DEF Init
<1>. QED BY <1>1, <1>2, <1>3 DEF Init, TypeOK

LEMMA LoopType ==
  ASSUME TypeOK, NEW n \in Nat, Loop(n)
  PROVE  /\ i' \in 0 .. MaxSize /\ at' \in {"scan", "collect"} /\ idx' \in Threads
         /\ lowIdx' = None /\ lowSize' = 0
<1>1. 0 \in Threads
  BY NumThreadsAssumption DEF Threads
<1>. QED BY <1>1, BoundsAssumption DEF Loop, TypeOK

LEMMA CallerType == ASSUME TypeOK, Caller PROVE TypeOK'
<1>1. ASSUME NEW x \in Activities, Add(x) PROVE TypeOK'
  <2>1. list' \in Seq(Activities) /\ Len(list') <= MaxSize
    BY <1>1, BoundsAssumption DEF Add, TypeOK
  <2>2. results' \in Seq(Activities \union {None, Moved})
    <3>1. Len(list) + 1 \in Nat
      BY DEF TypeOK
    <3>2. \A k \in 1 .. Len(list) + 1 : k <= Len(results) => results[k] \in Activities \union {None, Moved}
      BY DEF TypeOK
    <3>3. results' \in [1 .. Len(list) + 1 -> Activities \union {None, Moved}]
      BY <1>1, <3>2 DEF Add
    <3>. QED BY <3>1, <3>3
  <2>. QED BY <1>1, <2>1, <2>2 DEF Add, TypeOK, run, pool, scanning
<1>2. ASSUME NEW n \in StartIndices, SetStartIndex(n) PROVE TypeOK'
  BY <1>2 DEF SetStartIndex, TypeOK, run, pool, scanning
<1>3. ASSUME NEW mode \in Modes, Execute(mode) PROVE TypeOK'
  <2>1. CASE mode = "Sync"
    BY <1>3, <2>1 DEF Execute, TypeOK, scanning
  <2>2. CASE mode # "Sync"
    <3>1. home \in Threads /\ Append(queue[home], RunActivity) \in Seq(Activities \union {RunActivity})
          /\ permits[home] + 1 \in Nat
      BY HomesAssumption DEF TypeOK
    <3>2. queue' \in [Threads -> Seq(Activities \union {RunActivity})] /\ permits' \in [Threads -> Nat]
      BY <1>3, <2>2, <3>1 DEF Execute, TypeOK
    <3>. QED BY <1>3, <2>2, <3>2 DEF Execute, TypeOK, scanning
  <2>. QED BY <2>1, <2>2
<1>4. ASSUME Clear PROVE TypeOK'
  BY <1>4, BoundsAssumption DEF Clear, TypeOK, run, pool, scanning
<1>5. ASSUME Reset PROVE TypeOK'
  <2>1. results' \in Seq(Activities \union {None, Moved})
    BY <1>5 DEF Reset, TypeOK
  <2>. QED BY <1>5, <2>1 DEF Reset, TypeOK, run, pool, scanning
<1>. QED BY <1>1, <1>2, <1>3, <1>4, <1>5 DEF Caller

LEMMA RunType == ASSUME TypeOK, Bounds, RunStep \/ SyncReturns PROVE TypeOK'
<1>1. startIndex \in Nat /\ i \in Nat /\ Len(list) \in Nat
  BY StartIndicesAssumption DEF TypeOK
<1>2. ASSUME Begin PROVE TypeOK'
  <2>1. Loop(startIndex)
    BY <1>2 DEF Begin
  <2>. QED BY <1>1, <1>2, <2>1, LoopType DEF Begin, TypeOK, pool, pipeline
<1>3. ASSUME Scan PROVE TypeOK'
  <2>1. idx' \in Threads /\ at' \in {"scan", "push"}
    BY <1>3, NumThreadsAssumption DEF Scan, TypeOK, Threads
  <2>2. lowIdx' \in Threads \union {None} /\ lowSize' \in Nat
    BY <1>3 DEF Scan, TypeOK
  <2>. QED BY <1>3, <2>1, <2>2 DEF Scan, TypeOK, pool, pipeline
<1>4. ASSUME Push PROVE TypeOK'
  <2>1. list[i + 1] \in Activities
    BY <1>1, <1>4 DEF Push, Bounds, TypeOK
  <2>2. queue' \in [Threads -> Seq(Activities \union {RunActivity})]
    <3>1. CASE lowIdx \in Threads
      <4>1. Append(queue[lowIdx], list[i + 1]) \in Seq(Activities \union {RunActivity})
        BY <2>1, <3>1 DEF TypeOK
      <4>. QED BY <1>4, <3>1, <4>1 DEF Push, TypeOK
    <3>2. CASE lowIdx \notin Threads
      BY <1>4, <3>2 DEF Push, TypeOK
    <3>. QED BY <3>1, <3>2
  <2>. QED BY <1>4, <2>2 DEF Push, TypeOK, pipeline, scanning
<1>5. ASSUME Release PROVE TypeOK'
  <2>1. Loop(i + 1) /\ i + 1 \in Nat
    BY <1>1, <1>5 DEF Release
  <2>2. permits' \in [Threads -> Nat]
    <3>1. CASE lowIdx \in Threads
      <4>1. permits[lowIdx] + 1 \in Nat
        BY <3>1 DEF TypeOK
      <4>. QED BY <1>5, <4>1 DEF Release, TypeOK
    <3>2. CASE lowIdx \notin Threads
      BY <1>5, <3>2 DEF Release, TypeOK
    <3>. QED BY <3>1, <3>2
  <2>. QED BY <1>5, <2>1, <2>2, LoopType DEF Release, TypeOK, pipeline
<1>6. ASSUME Collect PROVE TypeOK'
  <2>1. list[i + 1] \in Activities /\ i + 1 \in 0 .. MaxSize
    BY <1>1, <1>6, BoundsAssumption DEF Collect, TypeOK
  <2>2. results' \in Seq(Activities \union {None, Moved})
    <3>. DEFINE r == IF list[i + 1] \in Trivial THEN list[i + 1] ELSE Moved
    <3>1. r \in Activities \union {None, Moved} /\ results' = [results EXCEPT ![i + 1] = r]
      BY <1>6, <2>1 DEF Collect
    <3>. HIDE DEF r
    <3>2. results \in [1 .. Len(results) -> Activities \union {None, Moved}] /\ Len(results) \in Nat
      BY DEF TypeOK
    <3>3. results' \in [1 .. Len(results) -> Activities \union {None, Moved}]
      BY <3>1, <3>2
    <3>. QED BY <3>2, <3>3
  <2>. QED BY <1>6, <2>1, <2>2 DEF Collect, TypeOK, pool, scanning
<1>7. ASSUME CollectNull PROVE TypeOK'
  BY <1>7 DEF CollectNull, TypeOK, pool, pipeline, scanning
<1>8. ASSUME End PROVE TypeOK'
  BY <1>8, BoundsAssumption DEF End, TypeOK, pool, scanning
<1>9. ASSUME SyncReturns PROVE TypeOK'
  BY <1>9 DEF SyncReturns, TypeOK, pool, pipeline, scanning
<1>. QED BY <1>2, <1>3, <1>4, <1>5, <1>6, <1>7, <1>8, <1>9 DEF RunStep

LEMMA WorkerType == ASSUME TypeOK, Held, NEW t \in Threads, Worker(t) PROVE TypeOK'
<1>1. ASSUME Wake(t) PROVE TypeOK'
  <2>1. permits[t] - 1 \in Nat
    BY <1>1 DEF Wake, TypeOK
  <2>2. permits' \in [Threads -> Nat]
    BY <1>1, <2>1 DEF Wake, TypeOK
  <2>. QED BY <1>1, <2>2 DEF Worker, Wake, TypeOK, pipeline, scanning
<1>2. ASSUME NEW q \in Threads, queue[q] # << >>, Take(t, q) PROVE TypeOK'
  <2>1. Head(queue[q]) \in Activities \union {RunActivity}
        /\ Tail(queue[q]) \in Seq(Activities \union {RunActivity})
    BY <1>2 DEF TypeOK
  <2>2. queue' \in [Threads -> Seq(Activities \union {RunActivity})]
    BY <1>2, <2>1 DEF Take, TypeOK
  <2>3. hands' \in [Threads -> Activities \union {RunActivity, None}]
    BY <1>2, <2>1 DEF Take, TypeOK
  <2>4. wpc' \in [Threads -> {"sleep", "drain", "steal", "body", "stolen"}]
    BY <1>2 DEF Take, TypeOK
  <2>. QED BY <1>2, <2>2, <2>3, <2>4 DEF Worker, Take, TypeOK, pipeline, scanning
<1>3. ASSUME Drain(t) PROVE TypeOK'
  <2>1. CASE queue[t] # << >>
    BY <1>2, <1>3, <2>1 DEF Drain
  <2>. QED BY <1>3, <2>1 DEF Worker, Drain, TypeOK, pipeline, scanning
<1>4. ASSUME Steal(t) PROVE TypeOK'
  <2>1. CASE \E q \in Robbable(t) : Take(t, q)
    BY <1>2, <2>1 DEF Robbable
  <2>. QED BY <1>4, <2>1 DEF Worker, Steal, Sleep, TypeOK, pipeline, scanning
<1>5. ASSUME Finish(t) PROVE TypeOK'
  <2>1. executed' \subseteq Activities
    BY <1>5 DEF Finish, Held, TypeOK
  <2>2. isBusy' \in [Threads -> BOOLEAN]
    BY <1>5 DEF Finish, Sleep, TypeOK
  <2>3. wpc' \in [Threads -> {"sleep", "drain", "steal", "body", "stolen"}]
    BY <1>5 DEF Finish, Sleep, TypeOK
  <2>. QED BY <1>5, <2>1, <2>2, <2>3 DEF Worker, Finish, TypeOK, pipeline, scanning
<1>. QED BY <1>1, <1>3, <1>4, <1>5 DEF Worker

-----------------------------------------------------------------------------
(* Where the activities are                                                *)

Inv == PlacesInv /\ RoundInv

LEMMA InitInv == Init => Inv
<1>. SUFFICES ASSUME Init PROVE Inv
  OBVIOUS
<1>1. \A t \in Threads : Len(queue[t]) = 0 /\ wpc[t] = "sleep" /\ hands[t] = None
  BY DEF Init
<1>2. \A t \in Threads : \A x : ~ In(t, x)
  BY <1>1 DEF In
<1>3. Len(list) = 0 /\ at = "none"
  BY DEF Init
<1>4. Once
  BY <1>1 DEF Once
<1>5. Held /\ OneRun
  BY <1>1, <1>2, <1>3, NamesAssumption DEF Held, OneRun, Active
<1>6. RoundInv
  <2>1. \A x \in Activities : ~ Out(x)
    BY <1>1, <1>2, NamesAssumption DEF Out
  <2>. QED BY <1>3, <2>1 DEF RoundInv
<1>. QED BY <1>3, <1>4, <1>5, <1>6, InitType DEF Inv, PlacesInv, Bounds

LEMMA PoolStays ==
  ASSUME UNCHANGED << queue, hands, wpc, executed >>
  PROVE  /\ Once => Once'
         /\ Held => Held'
         /\ \A t \in Threads : \A x : In(t, x)' <=> In(t, x)
         /\ \A x : Out(x)' <=> Out(x)
<1>1. \A t \in Threads : \A x : In(t, x)' <=> In(t, x)
  BY DEF In
<1>2. Once => Once'
  BY DEF Once
<1>. QED BY <1>1, <1>2 DEF Held, Out

(* No activity is in the pool before the run posts any.                    *)
LEMMA NothingOut ==
  ASSUME Inv, at \notin {"scan", "push", "release", "collect"}
  PROVE  Sent = 0 /\ \A x \in Activities : ~ Out(x)
<1>1. Sent = 0
  BY DEF Sent
<1>2. startIndex \in Nat
  BY StartIndicesAssumption DEF Inv, PlacesInv, TypeOK
<1>. QED BY <1>1, <1>2 DEF Inv, RoundInv

LEMMA CallerPlaces ==
  ASSUME Inv, Caller
  PROVE  Inv'
<1>. USE DEF Inv, PlacesInv
<1>0. TypeOK'
  BY CallerType
<1>1. state # "Busy" /\ at \in {"none", "end"} /\ Sent = 0 /\ \A x \in Activities : ~ Out(x)
  <2>1. state # "Busy"
    BY DEF Caller, Add, SetStartIndex, Clear, Reset, Execute
  <2>2. at \in {"none", "end"}
    BY <2>1 DEF OneRun, Active, TypeOK
  <2>. QED BY <2>1, <2>2, NothingOut
<1>2. \A t \in Threads : ~ In(t, RunActivity)
  BY <1>1 DEF OneRun
<1>3. ASSUME UNCHANGED << pool, run, home >>, state' # "Busy",
             \A j, k \in 1 .. Len(list') : list'[j] = list'[k] => j = k,
             \A k \in 1 .. Len(list') : list'[k] \notin executed
      PROVE  Inv'
  <2>1. /\ Once' /\ Held' /\ \A t \in Threads : \A x : In(t, x)' <=> In(t, x)
        /\ \A x : Out(x)' <=> Out(x)
    BY <1>3, PoolStays DEF pool
  <2>2. OneRun' /\ Bounds'
    BY <1>1, <1>2, <1>3, <2>1 DEF OneRun, Bounds, Active, run, pool
  <2>3. Sent' = 0 /\ at' \in {"none", "end"} /\ executed' = executed
    BY <1>1, <1>3 DEF Sent, run, pool
  <2>4. RoundInv'
    BY <1>1, <1>3, <2>1, <2>3 DEF RoundInv
  <2>. QED BY <1>0, <2>1, <2>2, <2>4
<1>4. /\ \A j, k \in 1 .. Len(list) : list[j] = list[k] => j = k
      /\ \A k \in 1 .. Len(list) : list[k] \notin executed
  BY <1>1 DEF RoundInv
<1>5. ASSUME NEW x \in Activities, Add(x) PROVE Inv'
  <2>1. /\ list' = Append(list, x) /\ list \in Seq(Activities)
        /\ x \notin executed /\ \A k \in 1 .. Len(list) : list[k] # x
    BY <1>5 DEF Add, Unused, Range, TypeOK
  <2>2. /\ Len(list') = Len(list) + 1 /\ Len(list) \in Nat /\ list'[Len(list) + 1] = x
        /\ \A k \in 1 .. Len(list) : list'[k] = list[k]
    BY <2>1
  <2>3. \A k \in 1 .. Len(list') : k \in 1 .. Len(list) \/ k = Len(list) + 1
    BY <2>2
  <2>4. \A k \in 1 .. Len(list') : list'[k] \notin executed
    BY <1>4, <2>1, <2>2, <2>3
  <2>5. \A j, k \in 1 .. Len(list') : list'[j] = list'[k] => j = k
    BY <1>4, <2>1, <2>2, <2>3
  <2>. QED BY <1>3, <1>5, <2>4, <2>5 DEF Add
<1>6. ASSUME NEW n \in StartIndices, SetStartIndex(n) PROVE Inv'
  BY <1>3, <1>4, <1>6 DEF SetStartIndex
<1>7. ASSUME Clear PROVE Inv'
  BY <1>3, <1>7 DEF Clear
<1>8. ASSUME Reset PROVE Inv'
  BY <1>3, <1>4, <1>8 DEF Reset
<1>9. ASSUME NEW mode \in Modes, Execute(mode) PROVE Inv'
  <2>0. /\ UNCHANGED << wpc, hands, executed, home, list, startIndex, i >> /\ state' = "Busy"
        /\ at' \in {"none", "begin", "end"}
    BY <1>1, <1>9 DEF Execute
  <2>1. Sent' = 0
    BY <2>0 DEF Sent
  <2>2. CASE mode = "Sync"
    <3>1. at = "none" /\ at' = "begin" /\ UNCHANGED queue
      BY <1>9, <2>2 DEF Execute
    <3>2. /\ Once' /\ Held' /\ \A t \in Threads : \A x : In(t, x)' <=> In(t, x)
          /\ \A x : Out(x)' <=> Out(x)
      BY <2>0, <3>1, PoolStays
    <3>3. Bounds'
      BY <3>1 DEF Bounds
    <3>4. \A t \in Threads : hands[t] # RunActivity
      BY <3>1 DEF OneRun
    <3>5. OneRun'
      BY <1>2, <2>0, <3>2, <3>4 DEF OneRun
    <3>. QED BY <1>0, <1>1, <1>4, <2>0, <2>1, <3>1, <3>2, <3>3, <3>5 DEF RoundInv
  <2>3. CASE mode # "Sync"
    <3>1. /\ UNCHANGED at /\ queue' = [queue EXCEPT ![home] = Append(@, RunActivity)]
          /\ onCaller' = FALSE /\ home \in Threads /\ RunActivity \in Items
      BY <1>9, <2>3, HomesAssumption DEF Execute, TypeOK, Items
    <3>2. /\ Once'
          /\ \A u \in Threads : \A y : In(u, y)' => In(u, y) \/ (u = home /\ y = RunActivity)
      BY <1>2, <3>1, PostedLies
    <3>3. RunActivity \notin Activities
      BY NamesAssumption
    <3>4. Held'
      BY <2>0, <3>2, <3>3 DEF Held
    <3>5. OneRun' /\ Bounds'
      BY <1>1, <2>0, <3>1, <3>2 DEF OneRun, Bounds, Active
    <3>6. \A x \in Activities : ~ Out(x)'
      BY <1>1, <2>0, <3>2, <3>3 DEF Out
    <3>. QED BY <1>0, <1>1, <1>4, <2>0, <2>1, <3>1, <3>2, <3>4, <3>5, <3>6 DEF RoundInv
  <2>. QED BY <2>2, <2>3
<1>. QED BY <1>5, <1>6, <1>7, <1>8, <1>9 DEF Caller

(* The run posts nothing while it only scans and collects.                 *)
LEMMA RunStays ==
  ASSUME Inv, UNCHANGED << queue, hands, wpc, executed, home, list, startIndex, onCaller, state >>,
         at \in Active, at' \in {"scan", "push", "release", "collect"}, Bounds',
         Sent \in Int, Sent' \in Int, Sent <= Sent',
         at' = "collect" => \A k \in 1 .. Len(list) : startIndex < k /\ k <= i' => list[k] \in executed
  PROVE  Once' /\ Held' /\ OneRun' /\ RoundInv'
<1>. USE DEF Inv, PlacesInv
<1>1. /\ Once' /\ Held' /\ \A t \in Threads : \A x : In(t, x)' <=> In(t, x)
      /\ \A x : Out(x)' <=> Out(x)
  BY PoolStays
<1>2. \A t \in Threads : ~ In(t, RunActivity)
  BY DEF OneRun, Active
<1>3. OneRun'
  BY <1>1, <1>2 DEF OneRun
<1>4. \A x \in Activities : Out(x)' =>
        \E k \in 1 .. Len(list') : list'[k] = x /\ startIndex' < k /\ k <= Sent'
  BY <1>1 DEF RoundInv
<1>5. \A k \in 1 .. Len(list') : k > Sent' => list'[k] \notin executed'
  BY DEF RoundInv
<1>. QED BY <1>1, <1>3, <1>4, <1>5 DEF RoundInv

LEMMA PushPlaces == ASSUME Inv, Push PROVE Inv'
<1>. USE DEF Inv, PlacesInv
<1>1. /\ at = "push" /\ at' = "release" /\ startIndex <= i /\ i < Len(list) /\ i \in Nat /\ Len(list) \in Nat
      /\ startIndex \in Nat /\ Sent = i /\ Sent' = i + 1
      /\ UNCHANGED << wpc, hands, executed, home, state, list, startIndex, onCaller, i >>
  BY StartIndicesAssumption DEF Push, Bounds, TypeOK, Sent, pipeline
<1>. DEFINE x == list[i + 1]
<1>2. x \in Activities /\ x \notin executed
  BY <1>1 DEF RoundInv, TypeOK
<1>3. ~ Out(x)
  BY <1>1, <1>2 DEF RoundInv
<1>4. CASE lowIdx \in Threads
  <2>1. queue' = [queue EXCEPT ![lowIdx] = Append(@, x)] /\ x \in Items /\ x # RunActivity
        /\ x = list[i + 1]
    BY <1>2, NamesAssumption DEF Push, Items
  <2>. HIDE DEF x
  <2>2. \A u \in Threads : ~ In(u, x) /\ hands[u] # x
    BY <1>3 DEF Out
  <2>3. /\ Once'
        /\ \A u \in Threads : \A y : In(u, y)' => In(u, y) \/ (u = lowIdx /\ y = x)
    BY <1>4, <2>1, <2>2, PostedLies
  <2>4. Held'
    BY <1>1, <1>2, <2>2, <2>3 DEF Held
  <2>5. OneRun' /\ Bounds'
    BY <1>1, <2>1, <2>3 DEF OneRun, Bounds, Active
  <2>6. \A y \in Activities : Out(y)' => Out(y) \/ y = x
    BY <1>1, <2>3 DEF Out
  <2>7. \A y \in Activities : Out(y)' =>
          \E k \in 1 .. Len(list) : list[k] = y /\ startIndex < k /\ k <= i + 1
    <3>1. i + 1 \in 1 .. Len(list) /\ startIndex < i + 1
      BY <1>1
    <3>2. \A y \in Activities : Out(y) =>
            \E k \in 1 .. Len(list) : list[k] = y /\ startIndex < k /\ k <= i + 1
      BY <1>1 DEF RoundInv
    <3>. QED BY <2>1, <2>6, <3>1, <3>2
  <2>8. \A k \in 1 .. Len(list) : k > i + 1 => list[k] \notin executed
    BY <1>1 DEF RoundInv
  <2>9. RoundInv'
    BY <1>1, <2>7, <2>8 DEF RoundInv
  <2>10. TypeOK'
    BY RunType DEF RunStep
  <2>. QED BY <2>3, <2>4, <2>5, <2>9, <2>10
<1>5. CASE lowIdx \notin Threads
  <2>1. UNCHANGED << queue, hands, wpc, executed, home, list, startIndex, onCaller, state >> /\ Bounds'
    BY <1>1, <1>5 DEF Push, TypeOK, Bounds
  <2>2. TypeOK'
    BY RunType DEF RunStep
  <2>. QED BY <1>1, <2>1, <2>2, RunStays DEF Active
<1>. QED BY <1>4, <1>5

LEMMA RunPlaces == ASSUME Inv, RunStep PROVE Inv'
<1>. USE DEF Inv, PlacesInv
<1>0. TypeOK' /\ startIndex \in Nat /\ i \in Nat /\ Len(list) \in Nat
  <2>1. startIndex \in Nat /\ i \in Nat /\ Len(list) \in Nat
    BY StartIndicesAssumption, BoundsAssumption DEF TypeOK
  <2>. QED BY <2>1, RunType
<1>1. ASSUME Begin PROVE Inv'
  <2>1. CASE startIndex < Len(list)
    <3>1. /\ at = "begin" /\ at' = "scan" /\ i' = startIndex /\ Sent = 0 /\ Sent' = startIndex
          /\ UNCHANGED << queue, hands, wpc, executed, home, list, startIndex, onCaller, state >>
      BY <1>1, <2>1 DEF Begin, Loop, Sent, pool, pipeline
    <3>2. Bounds'
      BY <1>0, <2>1, <3>1 DEF Bounds
    <3>. QED BY <1>0, <3>1, <3>2, RunStays DEF Active
  <2>2. CASE ~ startIndex < Len(list)
    <3>1. /\ at = "begin" /\ at' = "collect" /\ i' = 0 /\ Sent = 0 /\ Sent' = Len(list)
          /\ UNCHANGED << queue, hands, wpc, executed, home, list, startIndex, onCaller, state >>
      BY <1>1, <2>2 DEF Begin, Loop, Sent, pool, pipeline
    <3>2. Bounds'
      BY <3>1 DEF Bounds
    <3>. QED BY <1>0, <3>1, <3>2, RunStays DEF Active
  <2>. QED BY <2>1, <2>2
<1>2. ASSUME Scan PROVE Inv'
  <2>1. /\ at = "scan" /\ at' \in {"scan", "push"} /\ i' = i /\ Sent = i /\ Sent' = i
        /\ UNCHANGED << queue, hands, wpc, executed, home, list, startIndex, onCaller, state >>
    BY <1>2 DEF Scan, Sent, pool, pipeline
  <2>2. Bounds'
    BY <2>1 DEF Bounds
  <2>. QED BY <1>0, <2>1, <2>2, RunStays DEF Active
<1>3. ASSUME Release PROVE Inv'
  <2>0. startIndex <= i /\ i < Len(list) /\ at = "release" /\ Sent = i + 1
        /\ UNCHANGED << queue, hands, wpc, executed, home, list, startIndex, onCaller, state >>
    BY <1>3 DEF Release, Bounds, Sent, pipeline
  <2>1. CASE i + 1 < Len(list)
    <3>1. at' = "scan" /\ i' = i + 1 /\ Sent' = i + 1
      BY <1>3, <2>1 DEF Release, Loop, Sent
    <3>2. Bounds'
      BY <1>0, <2>0, <2>1, <3>1 DEF Bounds
    <3>. QED BY <1>0, <2>0, <3>1, <3>2, RunStays DEF Active
  <2>2. CASE ~ i + 1 < Len(list)
    <3>1. at' = "collect" /\ i' = 0 /\ Sent' = Len(list)
      BY <1>3, <2>0, <2>2 DEF Release, Loop, Sent
    <3>2. Bounds' /\ Sent <= Sent'
      BY <1>0, <2>0, <2>2, <3>1 DEF Bounds
    <3>. QED BY <1>0, <2>0, <3>1, <3>2, RunStays DEF Active
  <2>. QED BY <2>1, <2>2
<1>4. ASSUME Collect PROVE Inv'
  <2>1. /\ at = "collect" /\ at' = "collect" /\ i' = i + 1 /\ Sent = Len(list) /\ Sent' = Len(list)
        /\ list[i + 1] \in executed
        /\ UNCHANGED << queue, hands, wpc, executed, home, list, startIndex, onCaller, state >>
    BY <1>4 DEF Collect, Sent, pool
  <2>2. Bounds'
    BY <2>1 DEF Bounds
  <2>3. \A k \in 1 .. Len(list) : startIndex < k /\ k <= i' => list[k] \in executed
    BY <1>0, <2>1 DEF RoundInv
  <2>. QED BY <1>0, <2>1, <2>2, <2>3, RunStays DEF Active
<1>5. ASSUME CollectNull PROVE Inv'
  <2>1. /\ at = "collect" /\ at' = "collect" /\ i' = i /\ Sent = Len(list) /\ Sent' = Len(list)
        /\ UNCHANGED << queue, hands, wpc, executed, home, list, startIndex, onCaller, state >>
    BY <1>5 DEF CollectNull, Sent, pool, pipeline
  <2>2. Bounds'
    BY <2>1 DEF Bounds
  <2>3. \A k \in 1 .. Len(list) : startIndex < k /\ k <= i' => list[k] \in executed
    BY <2>1 DEF RoundInv
  <2>. QED BY <1>0, <2>1, <2>2, <2>3, RunStays DEF Active
<1>6. ASSUME End PROVE Inv'
  <2>1. /\ at = "collect" /\ at' = "end" /\ list' = << >> /\ i >= Len(list) /\ Sent = Len(list) /\ Sent' = 0
        /\ UNCHANGED << queue, hands, wpc, executed, home, onCaller >>
    BY <1>6 DEF End, Sent, pool
  <2>2. /\ Once' /\ Held' /\ \A t \in Threads : \A x : In(t, x)' <=> In(t, x)
        /\ \A x : Out(x)' <=> Out(x)
    BY <2>1, PoolStays
  <2>3. OneRun' /\ Bounds'
    BY <2>1, <2>2 DEF OneRun, Bounds, Active
  <2>4. \A x \in Activities : Out(x) => x \notin executed
    BY DEF Out, Held
  <2>5. \A x \in Activities : ~ Out(x)
    BY <1>0, <2>1, <2>4 DEF RoundInv
  <2>6. Len(list') = 0
    BY <2>1
  <2>7. RoundInv'
    BY <2>1, <2>2, <2>5, <2>6 DEF RoundInv
  <2>. QED BY <1>0, <2>2, <2>3, <2>7
<1>. QED BY <1>1, <1>2, <1>3, <1>4, <1>5, <1>6, PushPlaces DEF RunStep

LEMMA SyncPlaces == ASSUME Inv, SyncReturns PROVE Inv'
<1>. USE DEF Inv, PlacesInv
<1>1. /\ onCaller /\ at = "end" /\ at' = "none" /\ onCaller' = FALSE /\ Sent = 0 /\ Sent' = 0
      /\ UNCHANGED << queue, hands, wpc, executed, home, list, startIndex, state, i >>
  BY DEF SyncReturns, Sent, pool, pipeline
<1>2. /\ Once' /\ Held' /\ \A t \in Threads : \A x : In(t, x)' <=> In(t, x)
      /\ \A x : Out(x)' <=> Out(x)
  BY <1>1, PoolStays
<1>3. OneRun'
  BY <1>1, <1>2 DEF OneRun, Active
<1>4. Bounds' /\ TypeOK'
  BY <1>1, RunType DEF Bounds
<1>5. RoundInv'
  BY <1>1, <1>2 DEF RoundInv
<1>. QED BY <1>2, <1>3, <1>4, <1>5

(* What a worker takes was in one queue and is in one hand.                *)
LEMMA TakePlaces ==
  ASSUME Inv, TypeOK', NEW t \in Threads, NEW q \in Threads, queue[q] # << >>, Take(t, q),
         wpc[t] \in {"drain", "steal"}, q # t => Head(queue[q]) # RunActivity,
         UNCHANGED << pipeline, i, scanning, crashed >>
  PROVE  Inv'
<1>. USE DEF Inv, PlacesInv
<1>0. PICK x : x = Head(queue[q])
  OBVIOUS
<1>1. /\ queue' = [queue EXCEPT ![q] = Tail(@)] /\ hands' = [hands EXCEPT ![t] = x]
      /\ wpc' = [wpc EXCEPT ![t] = IF q = t THEN "body" ELSE "stolen"]
      /\ UNCHANGED << executed, home, state, list, startIndex, onCaller, i >>
  BY <1>0 DEF Take, pipeline
<1>2. /\ Once' /\ x \in Items /\ In(q, x)
      /\ \A u \in Threads : \A y : In(u, y)' => In(u, y)
      /\ \A u \in Threads : ~ In(u, x)'
  BY <1>0, <1>1, TakenLies
<1>3. hands[t] = None /\ x # None
  BY <1>2, NamesAssumption DEF Held, Items
<1>4. x \in Activities => x \notin executed /\ x # RunActivity /\ \A u \in Threads : hands[u] # x
  BY <1>2, NamesAssumption DEF Held
<1>5. \A u \in Threads : hands'[u] = IF u = t THEN x ELSE hands[u]
  BY <1>1 DEF TypeOK
<1>6. Held'
  <2>1. ASSUME NEW u \in Threads
        PROVE  /\ wpc'[u] \in {"body", "stolen"} <=> hands'[u] # None
               /\ wpc'[u] = "stolen" => hands'[u] # RunActivity
    BY <1>0, <1>1, <1>3, <1>5 DEF Held, TypeOK
  <2>2. ASSUME NEW u \in Threads, NEW y \in Activities
        PROVE  /\ In(u, y)' => y \notin executed'
               /\ hands'[u] = y => /\ y \notin executed'
                                   /\ \A v \in Threads : ~ In(v, y)' /\ (hands'[v] = y => v = u)
    BY <1>1, <1>2, <1>4, <1>5 DEF Held
  <2>. QED BY <2>1, <2>2 DEF Held
<1>7. \A y \in Activities : Out(y)' => Out(y)
  BY <1>2, <1>5 DEF Out
<1>8. CASE x = RunActivity
  <2>1. /\ q = home /\ t = home /\ state = "Busy" /\ at \in {"none", "end"} /\ ~ onCaller
        /\ at' = "begin" /\ Sent = 0 /\ Sent' = 0
    BY <1>0, <1>2, <1>8 DEF OneRun, Take, Sent
  <2>2. OneRun' /\ Bounds'
    BY <1>1, <1>2, <1>5, <1>8, <2>1 DEF OneRun, Bounds
  <2>3. RoundInv'
    BY <1>1, <1>7, <2>1 DEF RoundInv
  <2>. QED BY <1>2, <1>6, <2>2, <2>3
<1>9. CASE x # RunActivity
  <2>1. at' = at /\ Sent' = Sent
    BY <1>0, <1>1, <1>9 DEF Take, Sent
  <2>2. OneRun' /\ Bounds'
    BY <1>1, <1>2, <1>5, <1>9, <2>1 DEF OneRun, Bounds
  <2>3. RoundInv'
    BY <1>1, <1>7, <2>1 DEF RoundInv
  <2>. QED BY <1>2, <1>6, <2>2, <2>3
<1>. QED BY <1>8, <1>9

LEMMA FinishPlaces ==
  ASSUME Inv, TypeOK', NEW t \in Threads, Finish(t), UNCHANGED << pipeline, i, scanning, crashed >>
  PROVE  Inv'
<1>. USE DEF Inv, PlacesInv
<1>1. /\ hands[t] # None /\ wpc[t] \in {"body", "stolen"} /\ hands' = [hands EXCEPT ![t] = None]
      /\ UNCHANGED << queue, home, state, list, startIndex, onCaller, i >>
  BY DEF Finish, Held, pipeline
<1>2. /\ \A u \in Threads : hands'[u] = IF u = t THEN None ELSE hands[u]
      /\ wpc'[t] \notin {"body", "stolen"} /\ \A u \in Threads \ {t} : wpc'[u] = wpc[u]
  BY <1>1 DEF Finish, Sleep, TypeOK
<1>3. Once' /\ \A u \in Threads : \A y : In(u, y)' <=> In(u, y)
  BY <1>1 DEF Once, In
<1>4. \A y \in Activities : Out(y)' => Out(y) /\ y # hands[t]
  BY <1>1, <1>2, <1>3, NamesAssumption DEF Out, Held
<1>5. CASE hands[t] = RunActivity
  <2>1. at = "end" /\ at' = "none" /\ executed' = executed /\ Sent = 0 /\ Sent' = 0
    BY <1>5 DEF Finish, Sent
  <2>2. Held'
    BY <1>2, <1>3, <2>1, NamesAssumption DEF Held
  <2>3. OneRun' /\ Bounds'
    BY <1>1, <1>2, <1>3, <1>5, <2>1, NamesAssumption DEF OneRun, Bounds, Active
  <2>4. RoundInv'
    BY <1>1, <1>4, <2>1 DEF RoundInv
  <2>. QED BY <1>3, <2>2, <2>3, <2>4
<1>6. CASE hands[t] # RunActivity
  <2>1. PICK x \in Activities : x = hands[t]
    BY <1>1, <1>6 DEF TypeOK
  <2>2. at' = at /\ executed' = executed \union {x} /\ Sent' = Sent
    BY <1>1, <1>6, <2>1 DEF Finish, Sent
  <2>3. Held'
    <3>1. ASSUME NEW u \in Threads
          PROVE  /\ wpc'[u] \in {"body", "stolen"} <=> hands'[u] # None
                 /\ wpc'[u] = "stolen" => hands'[u] # RunActivity
      BY <1>2 DEF Held
    <3>2. ASSUME NEW u \in Threads, NEW y \in Activities
          PROVE  /\ In(u, y)' => y \notin executed'
                 /\ hands'[u] = y => /\ y \notin executed'
                                     /\ \A v \in Threads : ~ In(v, y)' /\ (hands'[v] = y => v = u)
      BY <1>2, <1>3, <2>1, <2>2, NamesAssumption DEF Held
    <3>. QED BY <3>1, <3>2 DEF Held
  <2>4. OneRun' /\ Bounds'
    BY <1>1, <1>2, <1>3, <2>2, NamesAssumption DEF OneRun, Bounds
  <2>5. PICK j \in 1 .. Len(list) : list[j] = x /\ j <= Sent
    BY <2>1 DEF Out, RoundInv
  <2>6. \A k \in 1 .. Len(list) : k > Sent => list[k] \notin executed'
    <3>1. Sent \in Int
      BY DEF Sent, TypeOK
    <3>. QED BY <2>2, <2>5, <3>1 DEF RoundInv
  <2>7. RoundInv'
    BY <1>1, <1>4, <2>2, <2>6 DEF RoundInv
  <2>. QED BY <1>3, <2>3, <2>4, <2>7
<1>. QED BY <1>5, <1>6

LEMMA WorkerPlaces == ASSUME Inv, NEW t \in Threads, Worker(t) PROVE Inv'
<1>. USE DEF Inv, PlacesInv
<1>1. TypeOK' /\ UNCHANGED << pipeline, i, scanning, crashed >>
  BY WorkerType DEF Worker
<1>2. ASSUME UNCHANGED << queue, hands, executed, at, onCaller >>,
             wpc'[t] \notin {"body", "stolen"}, wpc[t] \notin {"body", "stolen"},
             \A u \in Threads \ {t} : wpc'[u] = wpc[u]
      PROVE  Inv'
  <2>1. UNCHANGED << home, state, list, startIndex, i >> /\ Sent' = Sent
    BY <1>1, <1>2 DEF pipeline, Sent
  <2>2. Once' /\ (\A u \in Threads : \A y : In(u, y)' <=> In(u, y)) /\ \A y : Out(y)' <=> Out(y)
    BY <1>2 DEF Once, In, Out
  <2>3. Held'
    BY <1>2, <2>2 DEF Held
  <2>4. OneRun' /\ Bounds'
    BY <1>2, <2>1, <2>2 DEF OneRun, Bounds
  <2>5. RoundInv'
    BY <1>2, <2>1, <2>2 DEF RoundInv
  <2>. QED BY <1>1, <2>2, <2>3, <2>4, <2>5
<1>3. ASSUME Wake(t) PROVE Inv'
  BY <1>2, <1>3 DEF Wake, TypeOK
<1>4. ASSUME Drain(t) PROVE Inv'
  <2>1. CASE queue[t] # << >>
    BY <1>1, <1>4, <2>1, TakePlaces DEF Drain
  <2>2. CASE queue[t] = << >>
    BY <1>2, <1>4, <2>2 DEF Drain, TypeOK
  <2>. QED BY <2>1, <2>2
<1>5. ASSUME Steal(t) PROVE Inv'
  <2>1. ASSUME NEW q \in Robbable(t), Take(t, q) PROVE Inv'
    <3>1. q \in Threads /\ queue[q] # << >> /\ Head(queue[q]) # RunActivity
      BY DEF Robbable
    <3>. QED BY <1>1, <1>5, <2>1, <3>1, TakePlaces DEF Steal
  <2>2. CASE ~ \E q \in Robbable(t) : Take(t, q)
    BY <1>2, <1>5, <2>2 DEF Steal, Sleep, TypeOK
  <2>. QED BY <2>1, <2>2
<1>6. ASSUME Finish(t) PROVE Inv'
  BY <1>1, <1>6, FinishPlaces
<1>. QED BY <1>3, <1>4, <1>5, <1>6 DEF Worker

LEMMA NextPlaces == Inv /\ [Next]_vars => Inv'
<1>1. ASSUME Inv, UNCHANGED vars PROVE Inv'
  <2>1. Once' /\ (\A u \in Threads : \A y : In(u, y)' <=> In(u, y)) /\ \A y : Out(y)' <=> Out(y)
    BY <1>1 DEF vars, pool, pipeline, run, scanning, Inv, PlacesInv, Once, In, Out
  <2>. QED BY <1>1, <2>1 DEF vars, pool, pipeline, run, scanning, Inv, PlacesInv, TypeOK, Bounds, Held,
                             OneRun, RoundInv, Sent
<1>. QED BY <1>1, CallerPlaces, RunPlaces, SyncPlaces, WorkerPlaces DEF Next

(* The places of the activities keep the invariant in every state.         *)
THEOREM PlacesTheorem == Spec => []Inv
BY InitInv, NextPlaces, PTL DEF Spec

(* Every variable of the pipeline and its pool keeps its type.             *)
THEOREM TypeCorrect == Spec => []TypeOK
<1>1. Inv => TypeOK
  BY DEF Inv, PlacesInv
<1>. QED BY <1>1, PlacesTheorem, PTL

(* A round leaves nothing in the pool: clear and the next round never meet *)
(* an activity of the last one, for any pool, list and start index.        *)
THEOREM StragglersTheorem == Spec => []NoStragglers
<1>1. Inv => NoStragglers
  <2>. SUFFICES ASSUME Inv, state # "Busy" PROVE NoStragglers
    BY DEF NoStragglers
  <2>1. \A x \in Activities : ~ Out(x)
    BY NothingOut DEF Inv, PlacesInv, OneRun, Active
  <2>2. \A t \in Threads : queue[t] \in Seq(Activities \union {RunActivity})
    BY DEF Inv, PlacesInv, TypeOK
  <2>. QED BY <2>1, <2>2 DEF NoStragglers, Out, In, Range
<1>. QED BY <1>1, PlacesTheorem, PTL

-----------------------------------------------------------------------------
(* The results                                                             *)

LEMMA CallerResults == ASSUME Inv, ResultsInv, Caller PROVE ResultsInv'
<1>. USE DEF Inv, PlacesInv, TypeOK
<1>1. state # "Busy" /\ at \in {"none", "end"}
  <2>1. state # "Busy"
    BY DEF Caller, Add, SetStartIndex, Clear, Reset, Execute
  <2>. QED BY <2>1 DEF OneRun, Active
<1>2. ASSUME NEW x \in Activities, Add(x) PROVE ResultsInv'
  <2>1. /\ state = "Waiting" /\ state' = "Waiting" /\ at' = at
        /\ Len(list') = Len(list) + 1 /\ Len(results') = Len(list) + 1
    BY <1>2 DEF Add, run
  <2>. QED BY <1>1, <2>1 DEF ResultsInv, RoundComplete
<1>3. ASSUME NEW n \in StartIndices, SetStartIndex(n) PROVE ResultsInv'
  BY <1>1, <1>3 DEF SetStartIndex, ResultsInv, RoundComplete, run, pool
<1>4. ASSUME NEW mode \in Modes, Execute(mode) PROVE ResultsInv'
  <2>1. /\ state = "Waiting" /\ state' = "Busy" /\ at' # "collect" /\ UNCHANGED << list, results >>
    BY <1>1, <1>4 DEF Execute
  <2>. QED BY <2>1 DEF ResultsInv, RoundComplete
<1>5. ASSUME Clear PROVE ResultsInv'
  <2>1. list' = << >> /\ results' = << >> /\ state' = "Waiting" /\ at' = at
    BY <1>5 DEF Clear, run
  <2>. QED BY <1>1, <2>1 DEF ResultsInv, RoundComplete
<1>6. ASSUME Reset PROVE ResultsInv'
  <2>1. list' = list /\ Len(results') = Len(list) /\ state' = "Waiting" /\ at' = at
    BY <1>6 DEF Reset, run
  <2>. QED BY <1>1, <2>1 DEF ResultsInv, RoundComplete
<1>. QED BY <1>2, <1>3, <1>4, <1>5, <1>6 DEF Caller

LEMMA RunResults == ASSUME Inv, ResultsInv, RunStep \/ SyncReturns PROVE ResultsInv'
<1>. USE DEF Inv, PlacesInv
<1>0. i \in Nat /\ Len(list) \in Nat /\ Len(results) \in Nat
  BY BoundsAssumption DEF TypeOK
<1>1. ASSUME UNCHANGED << executed, state, list, results >>,
             at' = "collect" => i' = 0 \/ (at = "collect" /\ i' = i)
      PROVE  ResultsInv'
  BY <1>1 DEF ResultsInv, RoundComplete
<1>2. ASSUME Begin \/ Scan \/ Push \/ Release \/ CollectNull \/ SyncReturns PROVE ResultsInv'
  <2>1. UNCHANGED << executed, state, list, results >>
    BY <1>2 DEF Begin, Scan, Push, Release, CollectNull, SyncReturns, pool, pipeline
  <2>2. at' = "collect" => i' = 0 \/ (at = "collect" /\ i' = i)
    BY <1>2 DEF Begin, Scan, Push, Release, CollectNull, SyncReturns, Loop
  <2>. QED BY <1>1, <2>1, <2>2
<1>3. ASSUME Collect PROVE ResultsInv'
  <2>. DEFINE r == IF list[i + 1] \in Trivial THEN list[i + 1] ELSE Moved
  <2>1. /\ results' = [results EXCEPT ![i + 1] = r] /\ r \in executed \union {Moved}
        /\ UNCHANGED << executed, state, list >> /\ at = "collect" /\ at' = "collect" /\ i' = i + 1
    BY <1>3 DEF Collect, pool
  <2>. HIDE DEF r
  <2>2. state = "Busy"
    BY <2>1 DEF OneRun, Active
  <2>3. Len(results') = Len(results) /\ \A k \in 1 .. Len(results) : k # i + 1 => results'[k] = results[k]
    BY <2>1 DEF TypeOK
  <2>4. i + 1 \in 1 .. Len(results) => results'[i + 1] = r
    BY <2>1 DEF TypeOK
  <2>5. \A k \in 1 .. Len(results') : k <= i' => results'[k] \in executed \union {Moved}
    BY <1>0, <2>1, <2>3, <2>4 DEF ResultsInv
  <2>. QED BY <2>1, <2>2, <2>3, <2>5 DEF ResultsInv, RoundComplete
<1>4. ASSUME End PROVE ResultsInv'
  <2>1. /\ at = "collect" /\ i >= Len(list) /\ list' = << >> /\ state' = "Ready" /\ at' = "end"
        /\ UNCHANGED << executed, results >>
    BY <1>4 DEF End, pool
  <2>2. state = "Busy"
    BY <2>1 DEF OneRun, Active
  <2>3. Len(results) = Len(list)
    BY <2>2 DEF ResultsInv
  <2>4. \A k \in 1 .. Len(results) : results[k] \in executed \union {Moved}
    BY <1>0, <2>1, <2>3 DEF ResultsInv
  <2>5. Range(results) \subseteq executed \union {Moved}
    BY <2>4 DEF Range, TypeOK
  <2>. QED BY <2>1, <2>5 DEF ResultsInv, RoundComplete, Range
<1>. QED BY <1>2, <1>3, <1>4 DEF RunStep

LEMMA WorkerResults == ASSUME Inv, ResultsInv, NEW t \in Threads, Worker(t) PROVE ResultsInv'
<1>1. UNCHANGED << state, list, results, i >> /\ executed \subseteq executed'
      /\ (at' = "collect" => at = "collect")
  BY DEF Worker, Wake, Drain, Steal, Take, Sleep, Finish, pipeline
<1>. QED BY <1>1 DEF ResultsInv, RoundComplete

(* In Ready the list is empty and every result is that of an activity that *)
(* has finished, or was moved on.                                          *)
THEOREM RoundTheorem == Spec => []RoundComplete
<1>1. Init => Inv /\ ResultsInv
  BY InitInv DEF Init, ResultsInv, RoundComplete
<1>2. Inv /\ ResultsInv /\ [Next]_vars => (Inv /\ ResultsInv)'
  <2>1. ASSUME ResultsInv, UNCHANGED vars PROVE ResultsInv'
    BY <2>1 DEF vars, pool, pipeline, run, ResultsInv, RoundComplete
  <2>. QED BY <2>1, NextPlaces, CallerResults, RunResults, WorkerResults DEF Next
<1>3. ResultsInv => RoundComplete
  BY DEF ResultsInv
<1>. QED BY <1>1, <1>2, <1>3, PTL DEF Spec

-----------------------------------------------------------------------------
(* Sleeping workers                                                        *)

LEMMA CallerAwake == ASSUME Inv, AwakeInv, Caller PROVE AwakeInv'
<1>. USE DEF Inv, PlacesInv
<1>1. state # "Busy" /\ at \in {"none", "end"}
  <2>1. state # "Busy"
    BY DEF Caller, Add, SetStartIndex, Clear, Reset, Execute
  <2>. QED BY <2>1 DEF OneRun, Active, TypeOK
<1>2. ASSUME UNCHANGED << queue, permits, wpc >>, at' \in {"none", "end", "begin"} PROVE AwakeInv'
  BY <1>1, <1>2 DEF AwakeInv
<1>3. ASSUME NEW mode \in Modes, Execute(mode) PROVE AwakeInv'
  <2>1. CASE mode = "Sync"
    BY <1>2, <1>3, <2>1 DEF Execute
  <2>2. CASE mode # "Sync"
    <3>1. /\ UNCHANGED << wpc, at >> /\ permits' = [permits EXCEPT ![home] = @ + 1]
          /\ queue' = [queue EXCEPT ![home] = Append(@, RunActivity)]
      BY <1>3, <2>2 DEF Execute
    <3>2. home \in Threads
      BY HomesAssumption DEF TypeOK
    <3>3. permits'[home] > 0 /\ \A t \in Threads \ {home} : permits'[t] = permits[t] /\ queue'[t] = queue[t]
      BY <3>1, <3>2 DEF TypeOK
    <3>. QED BY <1>1, <3>1, <3>3 DEF AwakeInv
  <2>. QED BY <2>1, <2>2
<1>. QED BY <1>1, <1>2, <1>3 DEF Caller, Add, SetStartIndex, Clear, Reset, run, pool

LEMMA RunAwake == ASSUME Inv, AwakeInv, RunStep \/ SyncReturns PROVE AwakeInv'
<1>. USE DEF Inv, PlacesInv
<1>1. ASSUME UNCHANGED << queue, permits, wpc >>, at # "release",
             at' = "scan" => idx' = 0 \/ lowIdx' \in Threads,
             at' \in {"push", "release"} => lowIdx' \in Threads
      PROVE  AwakeInv'
  BY <1>1 DEF AwakeInv
<1>2. ASSUME Begin PROVE AwakeInv'
  BY <1>1, <1>2 DEF Begin, Loop, pool
<1>3. ASSUME Scan PROVE AwakeInv'
  <2>1. lowIdx' \in Threads
    <3>1. CASE Better(idx)
      BY <1>3, <3>1 DEF Scan, TypeOK
    <3>2. CASE ~ Better(idx)
      BY <1>3, <3>2 DEF Scan, Better, TypeOK
    <3>. QED BY <3>1, <3>2
  <2>. QED BY <1>1, <1>3, <2>1 DEF Scan, pool
<1>4. ASSUME Push PROVE AwakeInv'
  <2>1. /\ lowIdx \in Threads /\ at' = "release" /\ UNCHANGED << permits, wpc, lowIdx >>
        /\ \A t \in Threads \ {lowIdx} : queue'[t] = queue[t]
    BY <1>4 DEF Push, AwakeInv, TypeOK, scanning
  <2>. QED BY <1>4, <2>1 DEF Push, AwakeInv
<1>5. ASSUME Release PROVE AwakeInv'
  <2>1. /\ lowIdx \in Threads /\ at' \in {"scan", "collect"} /\ idx' = 0 /\ UNCHANGED << queue, wpc >>
        /\ permits' = [permits EXCEPT ![lowIdx] = @ + 1]
    BY <1>5 DEF Release, Loop, AwakeInv
  <2>2. permits'[lowIdx] > 0 /\ \A t \in Threads \ {lowIdx} : permits'[t] = permits[t]
    BY <2>1 DEF TypeOK
  <2>. QED BY <2>1, <2>2 DEF AwakeInv
<1>6. ASSUME Collect \/ CollectNull \/ End \/ SyncReturns PROVE AwakeInv'
  <2>1. UNCHANGED << queue, permits, wpc >> /\ at' \in {"collect", "end", "none"} /\ at # "release"
    BY <1>6 DEF Collect, CollectNull, End, SyncReturns, pool
  <2>. QED BY <1>1, <2>1
<1>. QED BY <1>2, <1>3, <1>4, <1>5, <1>6 DEF RunStep

LEMMA WorkerAwake == ASSUME Inv, AwakeInv, NEW t \in Threads, Worker(t) PROVE AwakeInv'
<1>. USE DEF Inv, PlacesInv
<1>1. UNCHANGED scanning
  BY DEF Worker
<1>2. ASSUME Wake(t) PROVE AwakeInv'
  <2>1. /\ UNCHANGED << queue, at >> /\ wpc'[t] = "drain"
        /\ \A u \in Threads \ {t} : wpc'[u] = wpc[u] /\ permits'[u] = permits[u]
    BY <1>2 DEF Wake, TypeOK
  <2>. QED BY <1>1, <2>1 DEF AwakeInv, scanning
<1>3. ASSUME NEW q \in Threads, queue[q] # << >>, Take(t, q), wpc[t] \in {"drain", "steal"},
             wpc[t] = "drain" => q = t
      PROVE  AwakeInv'
  <2>1. PICK x : x = Head(queue[q])
    OBVIOUS
  <2>2. queue' = [queue EXCEPT ![q] = Tail(@)]
    BY <1>3 DEF Take
  <2>3. /\ \A u \in Threads : queue'[u] # << >> => queue[u] # << >>
        /\ In(q, x)
    BY <1>3, <2>1, <2>2, TakenLies
  <2>4. at' = at \/ (at \in {"none", "end"} /\ at' = "begin")
    BY <1>3, <2>1, <2>3 DEF Take, OneRun
  <2>5. /\ wpc'[t] \in {"body", "stolen"} /\ (wpc[t] = "drain" => wpc'[t] = "body")
        /\ \A u \in Threads \ {t} : wpc'[u] = wpc[u]
    BY <1>3 DEF Take, TypeOK
  <2>6. UNCHANGED permits
    BY <1>3 DEF Take
  <2>. QED BY <1>1, <1>3, <2>3, <2>4, <2>5, <2>6 DEF AwakeInv, scanning
<1>4. ASSUME Drain(t) PROVE AwakeInv'
  <2>1. CASE queue[t] = << >>
    <3>1. UNCHANGED << queue, permits, at >> /\ \A u \in Threads \ {t} : wpc'[u] = wpc[u]
      BY <1>4, <2>1 DEF Drain, TypeOK
    <3>. QED BY <1>1, <2>1, <3>1 DEF AwakeInv, scanning
  <2>2. CASE queue[t] # << >>
    BY <1>3, <1>4, <2>2 DEF Drain
  <2>. QED BY <2>1, <2>2
<1>5. ASSUME Steal(t) PROVE AwakeInv'
  <2>1. ASSUME NEW q \in Robbable(t), Take(t, q) PROVE AwakeInv'
    BY <1>3, <1>5, <2>1 DEF Robbable, Steal
  <2>2. CASE ~ \E q \in Robbable(t) : Take(t, q)
    <3>1. /\ UNCHANGED << queue, permits, at >> /\ wpc[t] = "steal"
          /\ \A u \in Threads \ {t} : wpc'[u] = wpc[u]
      BY <1>5, <2>2 DEF Steal, Sleep, TypeOK
    <3>. QED BY <1>1, <3>1 DEF AwakeInv, scanning
  <2>. QED BY <2>1, <2>2
<1>6. ASSUME Finish(t) PROVE AwakeInv'
  <2>1. /\ UNCHANGED << queue, permits >> /\ (at' = at \/ (at = "end" /\ at' = "none"))
        /\ \A u \in Threads \ {t} : wpc'[u] = wpc[u]
        /\ \/ wpc[t] = "body" /\ wpc'[t] = "drain"
           \/ wpc[t] = "stolen" /\ wpc'[t] = "sleep"
    BY <1>6 DEF Finish, Sleep, TypeOK
  <2>. QED BY <1>1, <2>1 DEF AwakeInv, scanning
<1>. QED BY <1>2, <1>4, <1>5, <1>6 DEF Worker

(* While the run waits, behind every queue that is not empty, but that of  *)
(* the thread the run blocks, there is a worker that is awake or has a     *)
(* permit.                                                                 *)
THEOREM ServedTheorem == Spec => []OthersAreServed
<1>1. Init => Inv /\ AwakeInv
  BY InitInv DEF Init, AwakeInv
<1>2. Inv /\ AwakeInv /\ [Next]_vars => (Inv /\ AwakeInv)'
  <2>1. ASSUME AwakeInv, UNCHANGED vars PROVE AwakeInv'
    BY <2>1 DEF vars, pool, run, scanning, AwakeInv
  <2>. QED BY <2>1, NextPlaces, CallerAwake, RunAwake, WorkerAwake DEF Next
<1>3. AwakeInv => OthersAreServed
  BY DEF AwakeInv, OthersAreServed
<1>. QED BY <1>1, <1>2, <1>3, PTL DEF Spec
=============================================================================
