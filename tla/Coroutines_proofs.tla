-------------------------- MODULE Coroutines_proofs --------------------------
(***************************************************************************)
(* Theorems about module Coroutines: get() returns the result of its own   *)
(* activity, and the helper that resumes a coroutine never uses the frame  *)
(* of a task that was not discarded after that frame is gone.              *)
(*                                                                         *)
(* The helper reads and writes the frame in steps of its own, with nothing *)
(* to keep it but the caller's wait for m_completed.  What protects it is  *)
(* that a task has one helper in its life, and that m_completed is the     *)
(* last the helper writes: so the caller that has seen it may drop the     *)
(* frame.                                                                  *)
(***************************************************************************)
EXTENDS Coroutines, TLAPS

Points == {"idle", "posted", "calling", "created", "suspending", "called", "waiting", "blocked",
           "taking", "dropping", "done"}
Frames == {"none", "created", "suspended", "returned", "destroyed"}
Items == [run : {"caller", "activity", "helper"}, task : Tasks]
Helpings == [task : Tasks, next : {"fetch", "resume", "store", "notify"}]

Typed ==
  /\ pc \in [Tasks -> Points] /\ frame \in [Tasks -> Frames]
  /\ result \in [Tasks -> Tasks \union {None}] /\ taken \in [Tasks -> Tasks \union {None}]
  /\ completed \in [Tasks -> BOOLEAN] /\ executed \in [Tasks -> BOOLEAN]
  /\ discarded \subseteq Tasks /\ stale \subseteq Tasks
  /\ queue \in [Threads -> Seq(Items)] /\ permits \in [Threads -> Nat]
  /\ phase \in [Threads -> {"asleep", "draining", "stealing"}]
  /\ helping \in [Threads -> Helpings \union {None}]

Does(t, c) == helping[t] # None /\ helping[t].task = c

(* A caller and a helper are posted once.                                  *)
Once ==
  \A t, u \in Threads : \A j \in 1 .. Len(queue[t]), k \in 1 .. Len(queue[u]) :
    queue[t][j] = queue[u][k] /\ queue[t][j].run # "activity" => t = u /\ j = k

(* The caller has not posted the helper yet.                               *)
Early == {"idle", "posted", "calling", "created", "suspending"}

OneHelper ==
  \A c \in Tasks, t \in Threads :
    /\ In(t, Item("caller", c)) => pc[c] = "posted"
    /\ In(t, Item("helper", c)) =>
         /\ pc[c] \notin Early /\ ~ completed[c]
         /\ \A u \in Threads : ~ Does(u, c)
    /\ Does(t, c) =>
         /\ pc[c] \notin Early
         /\ \A u \in Threads : Does(u, c) => u = t

(* m_completed is set behind the result.                                   *)
ResultFirst ==
  /\ \A c \in Tasks :
       /\ completed[c] => result[c] = c
       /\ pc[c] \in Early => ~ completed[c]
  /\ \A t \in Threads, c \in Tasks :
       Does(t, c) =>
         /\ helping[t].next # "notify" => ~ completed[c]
         /\ helping[t].next = "store" => result[c] = c

(* A frame goes when m_completed is set, or is discarded.                  *)
FrameKept ==
  \A c \in Tasks :
    /\ frame[c] = "destroyed" => c \in discarded \/ completed[c]
    /\ pc[c] \in {"taking", "dropping"} => completed[c]
    /\ pc[c] = "dropping" => taken[c] = c

(* Who looks into the queues of others runs nothing.                       *)
StealingIsFree == \A t \in Threads : phase[t] = "stealing" => helping[t] = None

AwaitInv ==
  /\ Typed /\ Once /\ OneHelper /\ ResultFirst /\ FrameKept /\ StealingIsFree
  /\ stale \subseteq discarded

-----------------------------------------------------------------------------
LEMMA InitAwait == Init => AwaitInv
<1>. SUFFICES ASSUME Init PROVE AwaitInv
  OBVIOUS
<1>1. Typed
  BY DEF Init, Typed, Points, Frames
<1>2. \A t \in Threads : Len(queue[t]) = 0 /\ \A c \in Tasks : ~ Does(t, c)
  BY DEF Init, Does
<1>3. Once
  BY <1>2 DEF Once
<1>4. \A t \in Threads : \A i : ~ In(t, i)
  BY <1>2 DEF In
<1>. QED BY <1>1, <1>2, <1>3, <1>4 DEF Init, AwaitInv, OneHelper, ResultFirst, FrameKept, StealingIsFree

-----------------------------------------------------------------------------
(* The queues                                                              *)

LEMMA ItemTyped ==
  ASSUME NEW c \in Tasks, NEW what \in {"caller", "activity", "helper"}
  PROVE  Item(what, c) \in Items /\ Item(what, c).run = what /\ Item(what, c).task = c
BY DEF Item, Items

(* What is posted lies in its queue, with all that lay there.              *)
LEMMA PostedLies ==
  ASSUME Typed, Once, NEW t \in Threads, NEW item \in Items, Posted(t, item),
         item.run # "activity" => \A u \in Threads : ~ In(u, item)
  PROVE  /\ queue' \in [Threads -> Seq(Items)] /\ permits' \in [Threads -> Nat]
         /\ Once'
         /\ \A u \in Threads : \A i : In(u, i)' => In(u, i) \/ i = item
<1>. DEFINE longer == Append(queue[t], item)
<1>1. /\ queue[t] \in Seq(Items) /\ longer \in Seq(Items) /\ Len(longer) = Len(queue[t]) + 1
      /\ longer[Len(queue[t]) + 1] = item /\ \A j \in 1 .. Len(queue[t]) : longer[j] = queue[t][j]
      /\ Len(queue[t]) \in Nat
  BY DEF Typed
<1>2. queue' = [queue EXCEPT ![t] = longer]
  BY DEF Posted
<1>. HIDE DEF longer
<1>3. queue' \in [Threads -> Seq(Items)] /\ permits' \in [Threads -> Nat]
  BY <1>1, <1>2 DEF Posted, Typed
<1>4. \A u \in Threads : \A j \in 1 .. Len(queue'[u]) :
        \/ j \in 1 .. Len(queue[u]) /\ queue'[u][j] = queue[u][j]
        \/ u = t /\ j = Len(queue[t]) + 1 /\ queue'[u][j] = item
  BY <1>1, <1>2 DEF Typed
<1>5. \A u \in Threads : \A i : In(u, i)' => In(u, i) \/ i = item
  BY <1>4 DEF In
<1>6. item.run # "activity" => \A u \in Threads : \A j \in 1 .. Len(queue[u]) : queue[u][j] # item
  BY DEF In
<1>7. Once'
  <2>. SUFFICES ASSUME NEW u \in Threads, NEW v \in Threads,
                       NEW j \in 1 .. Len(queue'[u]), NEW k \in 1 .. Len(queue'[v]),
                       queue'[u][j] = queue'[v][k], queue'[u][j].run # "activity"
                PROVE  u = v /\ j = k
    BY DEF Once
  <2>1. \/ j \in 1 .. Len(queue[u]) /\ queue'[u][j] = queue[u][j]
        \/ u = t /\ j = Len(queue[t]) + 1 /\ queue'[u][j] = item
    BY <1>4
  <2>2. \/ k \in 1 .. Len(queue[v]) /\ queue'[v][k] = queue[v][k]
        \/ v = t /\ k = Len(queue[t]) + 1 /\ queue'[v][k] = item
    BY <1>4
  <2>. QED BY <1>6, <2>1, <2>2 DEF Once
<1>. QED BY <1>3, <1>5, <1>7

(* What is taken lay first, and unless it is an activity it lies nowhere   *)
(* any more.                                                               *)
LEMMA TakenLies ==
  ASSUME Typed, Once, NEW t \in Threads, queue[t] # << >>,
         queue' = [queue EXCEPT ![t] = Tail(@)]
  PROVE  /\ queue' \in [Threads -> Seq(Items)]
         /\ Once'
         /\ Head(queue[t]) \in Items /\ In(t, Head(queue[t]))
         /\ \A u \in Threads : \A i : In(u, i)' => In(u, i)
         /\ \A u \in Threads, i \in Items : i = Head(queue[t]) /\ i.run # "activity" => ~ In(u, i)'
<1>. DEFINE shorter == Tail(queue[t])
<1>1. /\ queue[t] \in Seq(Items) /\ shorter \in Seq(Items) /\ Len(shorter) = Len(queue[t]) - 1
      /\ Head(queue[t]) = queue[t][1] /\ 1 \in 1 .. Len(queue[t]) /\ Head(queue[t]) \in Items
      /\ \A j \in 1 .. Len(queue[t]) - 1 : shorter[j] = queue[t][j + 1]
      /\ Len(queue[t]) \in Nat
  BY DEF Typed
<1>2. queue' = [queue EXCEPT ![t] = shorter]
  OBVIOUS
<1>. HIDE DEF shorter
<1>3. queue' \in [Threads -> Seq(Items)]
  BY <1>1, <1>2 DEF Typed
<1>. DEFINE from(u, j) == IF u = t THEN j + 1 ELSE j
<1>4. \A u \in Threads : \A j \in 1 .. Len(queue'[u]) :
        /\ from(u, j) \in 1 .. Len(queue[u]) /\ queue'[u][j] = queue[u][from(u, j)]
        /\ j \in Int
  BY <1>1, <1>2 DEF Typed
<1>5. \A u \in Threads : \A i : In(u, i)' => In(u, i)
  BY <1>4 DEF In
<1>6. In(t, Head(queue[t]))
  BY <1>1 DEF In
<1>. HIDE DEF from
<1>7. Once'
  <2>. SUFFICES ASSUME NEW u \in Threads, NEW v \in Threads,
                       NEW j \in 1 .. Len(queue'[u]), NEW k \in 1 .. Len(queue'[v]),
                       queue'[u][j] = queue'[v][k], queue'[u][j].run # "activity"
                PROVE  u = v /\ j = k
    BY DEF Once
  <2>1. from(u, j) \in 1 .. Len(queue[u]) /\ queue'[u][j] = queue[u][from(u, j)]
    BY <1>4
  <2>2. from(v, k) \in 1 .. Len(queue[v]) /\ queue'[v][k] = queue[v][from(v, k)]
    BY <1>4
  <2>3. u = v /\ from(u, j) = from(v, k)
    BY <2>1, <2>2 DEF Once
  <2>4. j \in Int /\ k \in Int
    OBVIOUS
  <2>. QED BY <2>3, <2>4 DEF from
<1>8. ASSUME NEW u \in Threads, NEW i \in Items, i = Head(queue[t]), i.run # "activity", In(u, i)'
      PROVE  FALSE
  <2>1. PICK j \in 1 .. Len(queue'[u]) : queue'[u][j] = i
    BY <1>8 DEF In
  <2>2. from(u, j) \in 1 .. Len(queue[u]) /\ queue[u][from(u, j)] = i
    BY <1>4, <2>1
  <2>3. queue[t][1] = i
    BY <1>1, <1>8
  <2>4. u = t /\ from(u, j) = 1
    BY <1>1, <1>8, <2>2, <2>3 DEF Once
  <2>. QED BY <2>4 DEF from
<1>. QED BY <1>1, <1>3, <1>5, <1>6, <1>7, <1>8

-----------------------------------------------------------------------------
(* The callers                                                             *)

LEMMA PostCallerAwaits == ASSUME AwaitInv, NEW c \in Tasks, PostCaller(c) PROVE AwaitInv'
<1>. USE DEF AwaitInv
<1>1. Home[c] \in Threads /\ Item("caller", c) \in Items /\ \A u \in Threads : ~ In(u, Item("caller", c))
  BY HomeAssumption, ItemTyped DEF PostCaller, OneHelper
<1>2. /\ queue' \in [Threads -> Seq(Items)] /\ permits' \in [Threads -> Nat] /\ Once'
      /\ \A u \in Threads : \A i : In(u, i)' => In(u, i) \/ i = Item("caller", c)
  BY <1>1, PostedLies DEF PostCaller
<1>3. Typed'
  BY <1>2 DEF PostCaller, Posted, Goes, Typed, Points
<1>4. \A d \in Tasks : /\ Item("helper", d) # Item("caller", c)
                       /\ Item("caller", d) = Item("caller", c) => d = c
  BY DEF Item
<1>5. OneHelper'
  BY <1>2, <1>4 DEF PostCaller, Posted, Goes, Typed, OneHelper, Early, Does
<1>. QED BY <1>2, <1>3, <1>5 DEF PostCaller, Posted, Goes, Typed, ResultFirst, FrameKept, Early, Does,
                               StealingIsFree

LEMMA BodyAwaits ==
  ASSUME AwaitInv, NEW c \in Tasks, Call(c) \/ Start(c)
  PROVE  AwaitInv'
<1>. USE DEF AwaitInv
<1>1. PICK t \in Threads : Posted(t, Item("activity", c))
  BY DEF Call, Start, Body, Others
<1>2. Item("activity", c) \in Items /\ Item("activity", c).run = "activity"
  BY ItemTyped
<1>3. /\ queue' \in [Threads -> Seq(Items)] /\ permits' \in [Threads -> Nat] /\ Once'
      /\ \A u \in Threads : \A i : In(u, i)' => In(u, i) \/ i = Item("activity", c)
  BY <1>1, <1>2, PostedLies
<1>4. /\ pc[c] \in {"idle", "calling", "created"} /\ (pc[c] = "idle" => Home[c] = Outside)
      /\ pc' = [pc EXCEPT ![c] = "suspending"] /\ frame' = [frame EXCEPT ![c] = "suspended"]
      /\ UNCHANGED << result, completed, executed, taken, discarded, stale, phase, helping >>
  BY <1>1 DEF Call, Start, Begins, Body, Goes, Posted
<1>5. Typed'
  BY <1>3, <1>4 DEF Typed, Points, Frames
<1>6. \A d \in Tasks : /\ Item("helper", d) # Item("activity", c)
                       /\ Item("caller", d) # Item("activity", c)
  BY DEF Item
<1>7. OneHelper'
  BY <1>3, <1>4, <1>6 DEF Typed, OneHelper, Early, Does
<1>. QED BY <1>3, <1>4, <1>5, <1>7 DEF Typed, ResultFirst, FrameKept, Early, Does, StealingIsFree

LEMMA PostHelperAwaits == ASSUME AwaitInv, NEW c \in Tasks, PostHelper(c) PROVE AwaitInv'
<1>. USE DEF AwaitInv
<1>1. PICK t \in Threads : Posted(t, Item("helper", c))
  BY DEF PostHelper, Others
<1>2. Item("helper", c) \in Items /\ \A u \in Threads : ~ In(u, Item("helper", c))
  BY ItemTyped DEF PostHelper, OneHelper, Early
<1>3. /\ queue' \in [Threads -> Seq(Items)] /\ permits' \in [Threads -> Nat] /\ Once'
      /\ \A u \in Threads : \A i : In(u, i)' => In(u, i) \/ i = Item("helper", c)
  BY <1>1, <1>2, PostedLies
<1>4. /\ pc[c] = "suspending" /\ pc' = [pc EXCEPT ![c] = "called"]
      /\ UNCHANGED << frame, result, completed, executed, taken, discarded, stale, phase, helping >>
  BY <1>1 DEF PostHelper, Goes, Posted
<1>5. Typed'
  BY <1>3, <1>4 DEF Typed, Points, Frames
<1>6. \A d \in Tasks : /\ Item("caller", d) # Item("helper", c)
                       /\ Item("helper", d) = Item("helper", c) => d = c
  BY DEF Item
<1>7. OneHelper'
  BY <1>3, <1>4, <1>6 DEF Typed, OneHelper, ResultFirst, Early, Does
<1>. QED BY <1>3, <1>4, <1>5, <1>7 DEF Typed, ResultFirst, FrameKept, Early, Does, StealingIsFree

LEMMA CallerAwaits ==
  ASSUME AwaitInv, NEW c \in Tasks,
         Create(c) \/ Discard(c) \/ Get(c) \/ Wait(c) \/ Take(c) \/ Drop(c)
  PROVE  AwaitInv'
<1>. USE DEF AwaitInv
<1>1. /\ UNCHANGED << result, completed, executed, stale, pool >>
      /\ discarded' \in SUBSET Tasks /\ discarded \subseteq discarded'
      /\ \E to \in Points :
           /\ pc' = [pc EXCEPT ![c] = to]
           /\ pc[c] \notin Early => to \notin Early
           /\ to \in Early => pc[c] \in Early
           /\ pc[c] # "posted"
           /\ to \in {"taking", "dropping"} => completed[c]
           /\ to = "dropping" => taken'[c] = c
      /\ taken' \in [Tasks -> Tasks \union {None}] /\ \A d \in Tasks \ {c} : taken'[d] = taken[d]
      /\ \E made \in Frames :
           /\ frame' = [frame EXCEPT ![c] = made]
           /\ made = "destroyed" => c \in discarded' \/ completed[c]
  <2>1. CASE Create(c)
    BY <2>1 DEF Create, Begins, Goes, Typed, Points, Early, Frames, FrameKept
  <2>2. CASE Discard(c)
    BY <2>2 DEF Discard, Goes, Typed, Points, Early, Frames, FrameKept
  <2>3. CASE Get(c)
    BY <2>3 DEF Get, Goes, Typed, Points, Early, Frames, FrameKept
  <2>4. CASE Wait(c)
    <3>. DEFINE to == IF completed[c] THEN "taking" ELSE "blocked"
    <3>1. /\ pc[c] = "waiting" /\ pc' = [pc EXCEPT ![c] = to]
          /\ frame' = [frame EXCEPT ![c] = frame[c]] /\ frame[c] \in Frames
          /\ UNCHANGED << result, completed, executed, taken, discarded, stale, pool >>
      BY <2>4 DEF Wait, Goes, Typed
    <3>2. to \in {"taking", "blocked"} /\ (to = "taking" => completed[c])
      BY DEF Typed
    <3>. HIDE DEF to
    <3>. QED BY <3>1, <3>2 DEF Typed, Points, Early, FrameKept
  <2>5. CASE Take(c)
    BY <2>5 DEF Take, Goes, Typed, Points, Early, Frames, FrameKept, ResultFirst
  <2>6. CASE Drop(c)
    BY <2>6 DEF Drop, Goes, Typed, Points, Early, Frames, FrameKept
  <2>. QED BY <2>1, <2>2, <2>3, <2>4, <2>5, <2>6
<1>2. Typed'
  BY <1>1 DEF Typed, pool
<1>3. Once' /\ \A u \in Threads : \A i : In(u, i)' <=> In(u, i)
  BY <1>1 DEF pool, Once, In
<1>4. OneHelper'
  BY <1>1, <1>3 DEF pool, Typed, OneHelper, Does
<1>5. ResultFirst' /\ FrameKept' /\ StealingIsFree'
  BY <1>1 DEF pool, Typed, ResultFirst, FrameKept, Does, StealingIsFree
<1>. QED BY <1>1, <1>2, <1>3, <1>4, <1>5

-----------------------------------------------------------------------------
(* The threads of the pool                                                 *)

LEMMA LoopAwaits == ASSUME AwaitInv, NEW t \in Threads, Acquire(t) \/ Drained(t) PROVE AwaitInv'
<1>. USE DEF AwaitInv
<1>1. UNCHANGED << task, queue, helping >>
  BY DEF Acquire, Drained
<1>2. permits' \in [Threads -> Nat] /\ phase' \in [Threads -> {"asleep", "draining", "stealing"}]
  <2>1. CASE Acquire(t)
    <3>1. permits[t] - 1 \in Nat
      BY <2>1 DEF Acquire, Typed
    <3>. QED BY <2>1, <3>1 DEF Acquire, Typed
  <2>2. CASE Drained(t)
    BY <2>2 DEF Drained, Typed
  <2>. QED BY <2>1, <2>2
<1>3. Typed'
  BY <1>1, <1>2 DEF Typed, task
<1>4. Once' /\ \A u \in Threads : \A i : In(u, i)' <=> In(u, i)
  BY <1>1 DEF Once, In
<1>5. StealingIsFree'
  BY <1>1 DEF Acquire, Drained, Free, Typed, StealingIsFree
<1>. QED BY <1>1, <1>3, <1>4, <1>5 DEF task, OneHelper, ResultFirst, FrameKept, Does

LEMMA RunCallerAwaits == ASSUME AwaitInv, NEW t \in Threads, RunCaller(t) PROVE AwaitInv'
<1>. USE DEF AwaitInv
<1>1. /\ queue[t] # << >> /\ queue' = [queue EXCEPT ![t] = Tail(@)]
      /\ UNCHANGED << permits, phase, helping, frame, result, completed, executed, taken, discarded, stale >>
      /\ Head(queue[t]).run = "caller"
  BY DEF RunCaller, Takes
<1>2. PICK i : i = Head(queue[t])
  OBVIOUS
<1>3. /\ queue' \in [Threads -> Seq(Items)] /\ Once' /\ i \in Items /\ In(t, i)
      /\ \A u \in Threads : \A x : In(u, x)' => In(u, x)
      /\ \A u \in Threads : ~ In(u, i)'
  BY <1>1, <1>2, TakenLies
<1>4. i.task \in Tasks /\ i = Item("caller", i.task)
  BY <1>1, <1>2, <1>3 DEF Items, Item
<1>5. pc[i.task] = "posted" /\ pc' = [pc EXCEPT ![i.task] = "calling"]
  BY <1>2, <1>3, <1>4 DEF OneHelper, RunCaller, Goes
<1>6. Typed'
  BY <1>1, <1>3, <1>4, <1>5 DEF Typed, Points
<1>7. OneHelper'
  BY <1>1, <1>3, <1>4, <1>5 DEF Typed, OneHelper, Early, Does
<1>. QED BY <1>1, <1>3, <1>4, <1>5, <1>6, <1>7 DEF Typed, ResultFirst, FrameKept, Early, Does, StealingIsFree

LEMMA RunActivityAwaits == ASSUME AwaitInv, NEW t \in Threads, RunActivity(t) PROVE AwaitInv'
<1>. USE DEF AwaitInv
<1>1. /\ queue[t] # << >> /\ queue' = [queue EXCEPT ![t] = Tail(@)]
      /\ UNCHANGED << permits, phase, helping, pc, frame, result, completed, taken, discarded, stale >>
  BY DEF RunActivity, Takes
<1>2. /\ queue' \in [Threads -> Seq(Items)] /\ Once' /\ Head(queue[t]) \in Items
      /\ \A u \in Threads : \A x : In(u, x)' => In(u, x)
  BY <1>1, TakenLies
<1>3. executed' \in [Tasks -> BOOLEAN]
  BY <1>2 DEF RunActivity, Typed, Items
<1>4. Typed'
  BY <1>1, <1>2, <1>3 DEF Typed
<1>. QED BY <1>1, <1>2, <1>4 DEF Typed, OneHelper, ResultFirst, FrameKept, Does, StealingIsFree

(* A helper that is taken is the only one of its task.                     *)
LEMMA HelperTaken ==
  ASSUME AwaitInv, NEW t \in Threads, NEW u \in Threads, helping[t] = None,
         queue[u] # << >>, Head(queue[u]).run = "helper",
         queue' = [queue EXCEPT ![u] = Tail(@)], Locks(t, Head(queue[u]).task),
         phase' \in [Threads -> {"asleep", "draining", "stealing"}], phase'[t] # "stealing",
         \A v \in Threads \ {t} : phase'[v] = phase[v], UNCHANGED << permits, task >>
  PROVE  AwaitInv'
<1>. USE DEF AwaitInv
<1>1. PICK i : i = Head(queue[u])
  OBVIOUS
<1>2. /\ queue' \in [Threads -> Seq(Items)] /\ Once' /\ i \in Items /\ In(u, i)
      /\ \A v \in Threads : \A x : In(v, x)' => In(v, x)
      /\ \A v \in Threads : ~ In(v, i)'
  BY <1>1, TakenLies
<1>3. PICK c \in Tasks : c = i.task /\ i = Item("helper", c)
  BY <1>1, <1>2 DEF Items, Item
<1>4. /\ \A v \in Threads : ~ Does(v, c) /\ ~ In(v, Item("helper", c))'
      /\ pc[c] \notin Early /\ ~ completed[c]
  BY <1>2, <1>3 DEF OneHelper
<1>5. \/ helping' = helping
      \/ helping' = [helping EXCEPT ![t] = [task |-> c, next |-> "fetch"]]
  BY <1>1, <1>3 DEF Locks, Doing
<1>6. UNCHANGED << pc, frame, result, completed, executed, taken, discarded, stale >>
  BY DEF task
<1>7. Typed'
  <2>1. [task |-> c, next |-> "fetch"] \in Helpings
    BY DEF Helpings
  <2>2. helping' \in [Threads -> Helpings \union {None}]
    BY <1>5, <2>1 DEF Typed
  <2>. QED BY <1>2, <1>6, <2>2 DEF Typed
<1>8. \A v \in Threads, d \in Tasks :
        /\ Does(v, d)' => (Does(v, d) /\ helping'[v] = helping[v]) \/ (v = t /\ d = c)
        /\ Does(t, c)' => helping'[t].next = "fetch"
  BY <1>4, <1>5 DEF Typed, Does
<1>9. OneHelper'
  BY <1>2, <1>4, <1>6, <1>8 DEF OneHelper
<1>10. ResultFirst'
  BY <1>4, <1>6, <1>8 DEF ResultFirst
<1>11. StealingIsFree'
  BY <1>5 DEF Typed, StealingIsFree
<1>. QED BY <1>2, <1>6, <1>7, <1>9, <1>10, <1>11 DEF FrameKept

LEMMA RunHelperAwaits == ASSUME AwaitInv, NEW t \in Threads, RunHelper(t) PROVE AwaitInv'
<1>1. phase' \in [Threads -> {"asleep", "draining", "stealing"}] /\ phase'[t] # "stealing"
      /\ phase' = phase
  BY DEF AwaitInv, Typed, RunHelper, Takes
<1>. QED BY <1>1, HelperTaken DEF RunHelper, Takes, Free

LEMMA StealAwaits == ASSUME AwaitInv, NEW t \in Threads, Steal(t) PROVE AwaitInv'
<1>. USE DEF AwaitInv
<1>1. /\ phase[t] = "stealing" /\ helping[t] = None /\ phase' = [phase EXCEPT ![t] = "asleep"]
      /\ phase' \in [Threads -> {"asleep", "draining", "stealing"}] /\ phase'[t] # "stealing"
      /\ \A v \in Threads \ {t} : phase'[v] = phase[v]
      /\ UNCHANGED << permits, task >>
  BY DEF Steal, StealingIsFree, Typed
<1>2. ASSUME UNCHANGED << queue, helping >> PROVE AwaitInv'
  <2>1. Typed'
    BY <1>1, <1>2 DEF Typed, task
  <2>2. Once' /\ \A u \in Threads : \A i : In(u, i)' <=> In(u, i)
    BY <1>2 DEF Once, In
  <2>3. StealingIsFree'
    BY <1>1, <1>2 DEF StealingIsFree
  <2>. QED BY <1>1, <1>2, <2>1, <2>2, <2>3 DEF task, OneHelper, ResultFirst, FrameKept, Does
<1>3. ASSUME NEW u \in Victims(t), queue' = [queue EXCEPT ![u] = Tail(@)], Locks(t, Head(queue[u]).task)
      PROVE  AwaitInv'
  <2>1. u \in Threads /\ queue[u] # << >> /\ Head(queue[u]).run = "helper"
    BY DEF Victims
  <2>. QED BY <1>1, <1>3, <2>1, HelperTaken
<1>. QED BY <1>2, <1>3 DEF Steal

(* What the helper does goes on with the same task.                        *)
LEMMA HelperGoesOn ==
  ASSUME AwaitInv, NEW t \in Threads, NEW c \in Tasks, Does(t, c),
         \/ helping' = [helping EXCEPT ![t] = None]
         \/ \E what \in {"fetch", "resume", "store", "notify"} : Doing(t, c, what),
         UNCHANGED << executed, taken, discarded, queue, permits, phase >>
  PROVE  /\ queue' \in [Threads -> Seq(Items)] /\ Once' /\ StealingIsFree'
         /\ helping' \in [Threads -> Helpings \union {None}]
         /\ \A u \in Threads : \A i : In(u, i)' <=> In(u, i)
         /\ \A u \in Threads, d \in Tasks : Does(u, d)' => Does(u, d)
         /\ \A u \in Threads \ {t} : helping'[u] = helping[u] /\ ~ Does(u, c)
<1>. USE DEF AwaitInv
<1>1. \/ helping' = [helping EXCEPT ![t] = None]
      \/ \E h \in Helpings : h.task = c /\ helping' = [helping EXCEPT ![t] = h]
  BY DEF Doing, Helpings
<1>2. helping' \in [Threads -> Helpings \union {None}]
  BY <1>1 DEF Typed
<1>3. \A u \in Threads, d \in Tasks : Does(u, d)' => Does(u, d)
  BY <1>1 DEF Typed, Does
<1>4. \A u \in Threads \ {t} : helping'[u] = helping[u] /\ ~ Does(u, c)
  BY <1>1 DEF Typed, OneHelper
<1>5. Once' /\ \A u \in Threads : \A i : In(u, i)' <=> In(u, i)
  BY DEF Once, In
<1>6. StealingIsFree'
  BY <1>4 DEF Typed, StealingIsFree, Does
<1>. QED BY <1>2, <1>3, <1>4, <1>5, <1>6 DEF Typed

LEMMA FetchAwaits == ASSUME AwaitInv, NEW t \in Threads, Fetch(t) PROVE AwaitInv'
<1>. USE DEF AwaitInv
<1>1. PICK c \in Tasks : c = helping[t].task /\ Does(t, c)
  BY DEF Fetch, At, Typed, Helpings, Does
<1>2. /\ helping[t].next = "fetch" /\ helping' = [helping EXCEPT ![t] = [task |-> c, next |-> "resume"]]
      /\ UNCHANGED << task, queue, permits, phase >>
  BY <1>1 DEF Fetch, At, Doing
<1>3. Doing(t, c, "resume")
  BY <1>2 DEF Doing
<1>4. /\ queue' \in [Threads -> Seq(Items)] /\ Once' /\ StealingIsFree'
      /\ helping' \in [Threads -> Helpings \union {None}]
      /\ \A u \in Threads : \A i : In(u, i)' <=> In(u, i)
      /\ \A u \in Threads, d \in Tasks : Does(u, d)' => Does(u, d)
      /\ \A u \in Threads \ {t} : helping'[u] = helping[u] /\ ~ Does(u, c)
  BY <1>1, <1>2, <1>3, HelperGoesOn DEF task
<1>5. Typed'
  BY <1>2, <1>4 DEF Typed, task
<1>6. OneHelper'
  BY <1>2, <1>4 DEF OneHelper, task
<1>7. ResultFirst'
  BY <1>1, <1>2, <1>4 DEF Typed, ResultFirst, task, Does
<1>. QED BY <1>2, <1>4, <1>5, <1>6, <1>7 DEF FrameKept, task

LEMMA ResumeAwaits == ASSUME AwaitInv, NEW t \in Threads, Resume(t) PROVE AwaitInv'
<1>. USE DEF AwaitInv
<1>1. PICK c \in Tasks : c = helping[t].task /\ Does(t, c)
  BY DEF Resume, At, Typed, Helpings, Does
<1>2. /\ helping[t].next = "resume" /\ Touches(c)
      /\ UNCHANGED << pc, completed, executed, taken, discarded, queue, permits, phase >>
      /\ \/ Ends(t) /\ UNCHANGED << frame, result >>
         \/ /\ frame' = [frame EXCEPT ![c] = "returned"]
            /\ result' = [result EXCEPT ![c] = c]
            /\ Doing(t, c, "store")
  BY <1>1 DEF Resume, At
<1>3. /\ queue' \in [Threads -> Seq(Items)] /\ Once' /\ StealingIsFree'
      /\ helping' \in [Threads -> Helpings \union {None}]
      /\ \A u \in Threads : \A i : In(u, i)' <=> In(u, i)
      /\ \A u \in Threads, d \in Tasks : Does(u, d)' => Does(u, d)
      /\ \A u \in Threads \ {t} : helping'[u] = helping[u] /\ ~ Does(u, c)
  BY <1>1, <1>2, HelperGoesOn DEF Ends
<1>4. ~ completed[c]
  BY <1>1, <1>2 DEF ResultFirst
<1>5. stale' \subseteq Tasks /\ stale' \subseteq discarded'
  BY <1>2, <1>4 DEF Touches, FrameKept, Typed
<1>6. Typed'
  BY <1>2, <1>3, <1>5 DEF Typed, Frames
<1>7. OneHelper'
  BY <1>2, <1>3 DEF OneHelper
<1>8. ResultFirst'
  <2>1. \A d \in Tasks : d # c => result'[d] = result[d]
    BY <1>2 DEF Typed
  <2>2. \A d \in Tasks : /\ completed'[d] => result'[d] = d
                         /\ pc'[d] \in Early => ~ completed'[d]
    BY <1>2, <1>4, <2>1 DEF ResultFirst
  <2>3. \A u \in Threads \ {t}, d \in Tasks : Does(u, d)' => d # c /\ Does(u, d)
    BY <1>3
  <2>4. \/ helping'[t] = None
        \/ helping'[t] = [task |-> c, next |-> "store"] /\ result'[c] = c
    BY <1>2 DEF Typed, Ends, Doing
  <2>5. \A d \in Tasks : Does(t, d)' =>
          d = c /\ helping'[t].next = "store" /\ result'[c] = c
    BY <2>4 DEF Does
  <2>. QED BY <1>2, <1>3, <1>4, <2>1, <2>2, <2>3, <2>5 DEF ResultFirst
<1>9. FrameKept'
  BY <1>2 DEF FrameKept, Typed
<1>. QED BY <1>3, <1>5, <1>6, <1>7, <1>8, <1>9

LEMMA StoreAwaits == ASSUME AwaitInv, NEW t \in Threads, Store(t) PROVE AwaitInv'
<1>. USE DEF AwaitInv
<1>1. PICK c \in Tasks : c = helping[t].task /\ Does(t, c)
  BY DEF Store, At, Typed, Helpings, Does
<1>2. /\ helping[t].next = "store" /\ Touches(c) /\ completed' = [completed EXCEPT ![c] = TRUE]
      /\ Doing(t, c, "notify")
      /\ UNCHANGED << pc, frame, result, executed, taken, discarded, queue, permits, phase >>
  BY <1>1 DEF Store, At
<1>3. /\ queue' \in [Threads -> Seq(Items)] /\ Once' /\ StealingIsFree'
      /\ helping' \in [Threads -> Helpings \union {None}]
      /\ \A u \in Threads : \A i : In(u, i)' <=> In(u, i)
      /\ \A u \in Threads, d \in Tasks : Does(u, d)' => Does(u, d)
      /\ \A u \in Threads \ {t} : helping'[u] = helping[u] /\ ~ Does(u, c)
  BY <1>1, <1>2, HelperGoesOn
<1>4. ~ completed[c] /\ result[c] = c /\ pc[c] \notin Early
  BY <1>1, <1>2 DEF ResultFirst, OneHelper
<1>5. stale' \subseteq Tasks /\ stale' \subseteq discarded'
  BY <1>2, <1>4 DEF Touches, FrameKept, Typed
<1>6. Typed'
  BY <1>2, <1>3, <1>5 DEF Typed
<1>7. OneHelper'
  BY <1>1, <1>2, <1>3 DEF OneHelper, Typed
<1>8. ResultFirst'
  <2>1. \A d \in Tasks : completed'[d] = (d = c \/ completed[d])
    BY <1>2 DEF Typed
  <2>2. helping'[t] = [task |-> c, next |-> "notify"]
    BY <1>2 DEF Typed, Doing
  <2>3. \A d \in Tasks : /\ completed'[d] => result'[d] = d
                         /\ pc'[d] \in Early => ~ completed'[d]
    BY <1>2, <1>4, <2>1 DEF ResultFirst
  <2>4. \A d \in Tasks : Does(t, d)' => d = c
    BY <2>2 DEF Does
  <2>5. \A u \in Threads \ {t}, d \in Tasks : Does(u, d)' => d # c /\ Does(u, d)
    BY <1>3
  <2>. QED BY <1>2, <1>3, <1>4, <2>1, <2>2, <2>3, <2>4, <2>5 DEF ResultFirst
<1>9. FrameKept'
  BY <1>2 DEF FrameKept, Typed
<1>. QED BY <1>3, <1>5, <1>6, <1>7, <1>8, <1>9

LEMMA NotifyAwaits == ASSUME AwaitInv, NEW t \in Threads, Notify(t) PROVE AwaitInv'
<1>. USE DEF AwaitInv
<1>1. PICK c \in Tasks : c = helping[t].task /\ Does(t, c)
  BY DEF Notify, At, Typed, Helpings, Does
<1>2. /\ helping' = [helping EXCEPT ![t] = None]
      /\ pc' = pc \/ (pc[c] = "blocked" /\ pc' = [pc EXCEPT ![c] = "waiting"])
      /\ UNCHANGED << frame, result, completed, executed, taken, discarded, stale, queue, permits, phase >>
  BY <1>1 DEF Notify, Ends
<1>3. /\ queue' \in [Threads -> Seq(Items)] /\ Once' /\ StealingIsFree'
      /\ helping' \in [Threads -> Helpings \union {None}]
      /\ \A u \in Threads : \A i : In(u, i)' <=> In(u, i)
      /\ \A u \in Threads, d \in Tasks : Does(u, d)' => Does(u, d)
      /\ \A u \in Threads \ {t} : helping'[u] = helping[u] /\ ~ Does(u, c)
  BY <1>1, <1>2, HelperGoesOn
<1>4. Typed'
  BY <1>2, <1>3 DEF Typed, Points
<1>5. \A d \in Tasks : pc'[d] = pc[d] \/ (pc[d] = "blocked" /\ pc'[d] = "waiting")
  BY <1>2 DEF Typed
<1>6. OneHelper'
  BY <1>2, <1>3, <1>5 DEF OneHelper, Early
<1>7. ResultFirst'
  BY <1>1, <1>2, <1>3, <1>5 DEF Typed, ResultFirst, Does, Early
<1>8. FrameKept'
  BY <1>2, <1>5 DEF FrameKept
<1>. QED BY <1>2, <1>3, <1>4, <1>6, <1>7, <1>8

-----------------------------------------------------------------------------
LEMMA WorkerAwaits == ASSUME AwaitInv, NEW t \in Threads, Worker(t) PROVE AwaitInv'
BY LoopAwaits, RunCallerAwaits, RunActivityAwaits, RunHelperAwaits, StealAwaits, FetchAwaits,
   ResumeAwaits, StoreAwaits, NotifyAwaits DEF Worker

LEMMA NextAwaits == AwaitInv /\ [Next]_vars => AwaitInv'
<1>1. ASSUME AwaitInv, UNCHANGED vars PROVE AwaitInv'
  BY <1>1 DEF vars, task, pool, AwaitInv, Typed, Once, OneHelper, ResultFirst, FrameKept,
              StealingIsFree, In, Does
<1>2. ASSUME AwaitInv, NEW c \in Tasks, PostCaller(c) \/ Create(c) \/ Call(c) \/ Caller(c)
      PROVE  AwaitInv'
  BY <1>2, PostCallerAwaits, BodyAwaits, PostHelperAwaits, CallerAwaits DEF Caller
<1>. QED BY <1>1, <1>2, WorkerAwaits DEF Next

(* The invariant holds in every state.                                     *)
THEOREM AwaitInvTheorem == Spec => []AwaitInv
BY InitAwait, NextAwaits, PTL DEF Spec

(* A get() that returns has the result of its own activity, and the helper *)
(* uses no frame that is gone, but that of a discarded task: for any       *)
(* number of threads, tasks and callers, wherever the helpers are posted   *)
(* and whoever steals them.                                                *)
THEOREM AwaitTheorem == Spec => []AwaitIsSafe
<1>1. AwaitInv => AwaitIsSafe
  BY DEF AwaitInv, FrameKept, AwaitIsSafe
<1>. QED BY <1>1, AwaitInvTheorem, PTL
=============================================================================
