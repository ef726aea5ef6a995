--------------------------- MODULE ActivityQueue ---------------------------
(***************************************************************************)
(* TA_ActivityQueue<T, N>: the lock-free ring under the thread pool, one   *)
(* action per atomic access.  push and pop first move an index by          *)
(* compare-and-swap and only then touch the slot, so a slot can be claimed *)
(* by a pop before the push that owns it has stored into it.               *)
(*                                                                         *)
(* The ghosts head and tail count the pops and the pushes that have        *)
(* claimed a slot (their tickets are 0, 1, 2, ...); the code keeps them    *)
(* modulo N only.                                                          *)
(***************************************************************************)
EXTENDS Integers, Sequences

CONSTANTS
  N,          \* slots of the ring (10240 in the pool)
  Pushers,    \* threads that call push
  Poppers,    \* threads that call pop
  Watchers,   \* threads that call top
  Null,       \* the value-initialised slot: an empty shared_ptr
  MaxCalls,   \* bound: calls of each thread
  StallFree   \* TRUE: no call stays in flight while the pushes come round
              \* the ring to the slot it loaded; FALSE: any interleaving

Threads == Pushers \union Poppers \union Watchers
Values == Pushers \X (1 .. MaxCalls)
Slots == 0 .. N - 1

ASSUME NAssumption == N \in Nat \ {0, 1}
ASSUME MaxCallsAssumption == MaxCalls \in Nat
ASSUME StallFreeAssumption == StallFree \in BOOLEAN
ASSUME ThreadsAssumption ==
  /\ Pushers \cap Poppers = {}
  /\ Watchers \cap (Pushers \union Poppers) = {}
ASSUME NullAssumption == Null \notin Values

VARIABLES
  m_data,        \* slot -> value
  m_frontIndex,
  m_rearIndex,
  pc,            \* thread -> the access it makes next
  idx,           \* thread -> the index it loaded (frontIndexOld, rearIndexOld)
  val,           \* thread -> the argument of push, the out-parameter of pop and top
  ret,           \* thread -> what its last call returned
  calls,         \* thread -> calls made
  head,          \* ghost: pops that claimed a slot
  tail,          \* ghost: pushes that claimed a slot
  ticket,        \* ghost: thread -> head or tail at the moment idx was loaded
  log,           \* ghost: log[k + 1] is the value pushed under ticket k
  witness        \* ghost: thread -> the queue was full (for a pusher) or
                 \* empty (for the others) at some moment of the call

vars == << m_data, m_frontIndex, m_rearIndex, pc, idx, val, ret, calls,
           head, tail, ticket, log, witness >>

Labels == {"idle", "checkFull", "casRear", "store",
           "checkEmpty", "casFront", "load", "topCheck", "topLoad"}

-----------------------------------------------------------------------------
Init ==
  /\ m_data = [s \in Slots |-> Null]
  /\ m_frontIndex = 0
  /\ m_rearIndex = 0
  /\ pc = [t \in Threads |-> "idle"]
  /\ idx = [t \in Threads |-> 0]
  /\ val = [t \in Threads |-> Null]
  /\ ret = [t \in Threads |-> "none"]
  /\ calls = [t \in Threads |-> 0]
  /\ head = 0
  /\ tail = 0
  /\ ticket = [t \in Threads |-> 0]
  /\ log = << >>
  /\ witness = [t \in Threads |-> FALSE]

(* Mutant: the index does not wrap. *)
next_NoWrap(i) == i + 1

next(i) == (i + 1) % N

(* The code's ring holds one element less than it has slots.               *)
Full(h, t) == t - h >= N - 1
Empty(h, t) == h = t

AtLimit(u, h, t) == IF u \in Pushers THEN Full(h, t) ELSE Empty(h, t)

(* The counts become h and t; every call observes the new occupancy.       *)
Count(h, t) ==
  /\ head' = h
  /\ tail' = t
  /\ witness' = [u \in Threads |-> witness[u] \/ AtLimit(u, h, t)]

(* What StallFree asks of the scheduler: the push that takes the count of  *)
(* pushes to t does not come round to the slot another call has loaded.    *)
Unlapped(self, t) ==
  StallFree => \A u \in Threads \ {self} : pc[u] # "idle" => t < ticket[u] + N

Jump(t, to) == pc' = [pc EXCEPT ![t] = to]

(* Thread t loads the index i, whose ghost count is k, and goes on at to.  *)
Load(t, i, k, to) ==
  /\ idx' = [idx EXCEPT ![t] = i]
  /\ ticket' = [ticket EXCEPT ![t] = k]
  /\ Jump(t, to)

(* A call of thread t begins, with v in its parameter.                     *)
Begin(t, v) ==
  /\ pc[t] = "idle"
  /\ calls[t] < MaxCalls
  /\ calls' = [calls EXCEPT ![t] = @ + 1]
  /\ val' = [val EXCEPT ![t] = v]
  /\ ret' = [ret EXCEPT ![t] = "none"]
  /\ witness' = [witness EXCEPT ![t] = AtLimit(t, head, tail)]
  /\ UNCHANGED << m_data, m_frontIndex, m_rearIndex, head, tail, log >>

(* A call of thread t ends: it leaves v in the parameter, returns r, and   *)
(* its locals are gone.                                                    *)
Return(t, v, r) ==
  /\ Load(t, 0, 0, "idle")
  /\ val' = [val EXCEPT ![t] = v]
  /\ ret' = [ret EXCEPT ![t] = r]
  /\ UNCHANGED << m_frontIndex, m_rearIndex, calls, head, tail, log, witness >>

-----------------------------------------------------------------------------
(* push                                                                    *)

PushBegin(t) ==
  /\ Begin(t, << t, calls[t] + 1 >>)
  /\ Load(t, m_rearIndex, tail, "checkFull")

(* Mutant: no full test. *)
PushCheck_Dropped(t) ==
  /\ pc[t] = "checkFull"
  /\ Jump(t, "casRear")
  /\ UNCHANGED << m_data, m_frontIndex, m_rearIndex, idx, val, ret, calls,
                  head, tail, ticket, log, witness >>

PushCheck(t) ==
  /\ pc[t] = "checkFull"
  /\ \/ /\ next(idx[t]) = m_frontIndex
        /\ Return(t, val[t], "false")
        /\ UNCHANGED m_data
     \/ /\ next(idx[t]) # m_frontIndex
        /\ Jump(t, "casRear")
        /\ UNCHANGED << m_data, m_frontIndex, m_rearIndex, idx, val, ret, calls,
                        head, tail, ticket, log, witness >>

(* Mutant: a plain store of the rear index instead of the exchange. *)
PushClaim_NoCompare(t) ==
  /\ pc[t] = "casRear"
  /\ Unlapped(t, tail + 1)
  /\ m_rearIndex' = next(idx[t])
  /\ log' = Append(log, val[t])
  /\ Count(head, tail + 1)
  /\ Jump(t, "store")
  /\ UNCHANGED << m_data, m_frontIndex, idx, val, ret, calls, ticket >>

PushClaim(t) ==
  /\ pc[t] = "casRear"
  /\ m_rearIndex = idx[t]
  /\ Unlapped(t, tail + 1)
  /\ m_rearIndex' = next(idx[t])
  /\ log' = Append(log, val[t])
  /\ Count(head, tail + 1)
  /\ Jump(t, "store")
  /\ UNCHANGED << m_data, m_frontIndex, idx, val, ret, calls, ticket >>

(* compare_exchange_weak fails, for another index or spuriously, and the   *)
(* loop loads m_rearIndex again.                                           *)
PushRetry(t) ==
  /\ pc[t] = "casRear"
  /\ Load(t, m_rearIndex, tail, "checkFull")
  /\ UNCHANGED << m_data, m_frontIndex, m_rearIndex, val, ret, calls, head, tail,
                  log, witness >>

(* Mutant: the slot is that of the present rear index, not of the one the  *)
(* exchange replaced.                                                      *)
PushStore_AtRear(t) ==
  /\ pc[t] = "store"
  /\ m_data' = [m_data EXCEPT ![m_rearIndex] = val[t]]
  /\ Return(t, val[t], "true")

PushStore(t) ==
  /\ pc[t] = "store"
  /\ m_data' = [m_data EXCEPT ![idx[t]] = val[t]]
  /\ Return(t, val[t], "true")

-----------------------------------------------------------------------------
(* pop                                                                     *)

PopBegin(t) ==
  /\ Begin(t, Null)
  /\ Load(t, m_frontIndex, head, "checkEmpty")

(* Mutant: the last element counts as none. *)
PopCheck_OffByOne(t) ==
  /\ pc[t] = "checkEmpty"
  /\ \/ /\ idx[t] = m_rearIndex \/ next(idx[t]) = m_rearIndex
        /\ Return(t, val[t], "false")
        /\ UNCHANGED m_data
     \/ /\ idx[t] # m_rearIndex
        /\ Jump(t, "casFront")
        /\ UNCHANGED << m_data, m_frontIndex, m_rearIndex, idx, val, ret, calls,
                        head, tail, ticket, log, witness >>

PopCheck(t) ==
  /\ pc[t] = "checkEmpty"
  /\ \/ /\ idx[t] = m_rearIndex
        /\ Return(t, val[t], "false")
        /\ UNCHANGED m_data
     \/ /\ idx[t] # m_rearIndex
        /\ Jump(t, "casFront")
        /\ UNCHANGED << m_data, m_frontIndex, m_rearIndex, idx, val, ret, calls,
                        head, tail, ticket, log, witness >>

(* Mutant: a plain store of the front index instead of the exchange. *)
PopClaim_NoCompare(t) ==
  /\ pc[t] = "casFront"
  /\ m_frontIndex' = next(idx[t])
  /\ Count(head + 1, tail)
  /\ Jump(t, "load")
  /\ UNCHANGED << m_data, m_rearIndex, idx, val, ret, calls, ticket, log >>

PopClaim(t) ==
  /\ pc[t] = "casFront"
  /\ m_frontIndex = idx[t]
  /\ m_frontIndex' = next(idx[t])
  /\ Count(head + 1, tail)
  /\ Jump(t, "load")
  /\ UNCHANGED << m_data, m_rearIndex, idx, val, ret, calls, ticket, log >>

PopRetry(t) ==
  /\ pc[t] = "casFront"
  /\ Load(t, m_frontIndex, head, "checkEmpty")
  /\ UNCHANGED << m_data, m_frontIndex, m_rearIndex, val, ret, calls, head, tail,
                  log, witness >>

(* The slot is read, not cleared.                                          *)
PopLoad(t) ==
  /\ pc[t] = "load"
  /\ Return(t, m_data[idx[t]], "true")
  /\ UNCHANGED m_data

-----------------------------------------------------------------------------
(* top                                                                     *)

TopBegin(t) ==
  /\ Begin(t, Null)
  /\ Load(t, m_frontIndex, head, "topCheck")

TopCheck(t) ==
  /\ pc[t] = "topCheck"
  /\ \/ /\ idx[t] = m_rearIndex
        /\ Return(t, val[t], "false")
        /\ UNCHANGED m_data
     \/ /\ idx[t] # m_rearIndex
        /\ Jump(t, "topLoad")
        /\ UNCHANGED << m_data, m_frontIndex, m_rearIndex, idx, val, ret, calls,
                        head, tail, ticket, log, witness >>

TopLoad(t) ==
  /\ pc[t] = "topLoad"
  /\ Return(t, m_data[idx[t]], "true")
  /\ UNCHANGED m_data

-----------------------------------------------------------------------------
Push(t) == PushBegin(t) \/ PushCheck(t) \/ PushClaim(t) \/ PushRetry(t) \/ PushStore(t)
Pop(t) == PopBegin(t) \/ PopCheck(t) \/ PopClaim(t) \/ PopRetry(t) \/ PopLoad(t)
Top(t) == TopBegin(t) \/ TopCheck(t) \/ TopLoad(t)

Next ==
  \/ \E t \in Pushers : Push(t)
  \/ \E t \in Poppers : Pop(t)
  \/ \E t \in Watchers : Top(t)

Spec == Init /\ [][Next]_vars

-----------------------------------------------------------------------------
TypeOK ==
  /\ m_data \in [Slots -> Values \union {Null}]
  /\ m_frontIndex \in Slots /\ m_rearIndex \in Slots
  /\ pc \in [Threads -> Labels]
  /\ idx \in [Threads -> Slots]
  /\ val \in [Threads -> Values \union {Null}]
  /\ ret \in [Threads -> {"none", "true", "false"}]
  /\ calls \in [Threads -> 0 .. MaxCalls]
  /\ head \in Nat /\ tail \in Nat
  /\ ticket \in [Threads -> Nat]
  /\ log \in Seq(Values) /\ Len(log) = tail
  /\ witness \in [Threads -> BOOLEAN]

(* The ring never wraps onto itself: pops never overtake pushes and at     *)
(* most N - 1 elements are outstanding, although push compares the front   *)
(* index with a rear index that may be out of date (the CAS at line 70     *)
(* must catch every case that matters).                                    *)
Occupancy == head <= tail /\ tail - head <= N - 1

Stored(k) == \A t \in Pushers : pc[t] = "store" => ticket[t] # k

(* A pushed element stays in its slot until a pop claims it: no late or    *)
(* concurrent store of another push lands on a slot that is in the queue.  *)
StoredUntilClaimed ==
  \A k \in head .. tail - 1 : Stored(k) => m_data[k % N] = log[k + 1]

(* What a pop (or a top) that has claimed ticket k is about to read: the   *)
(* element pushed under k or, when that push has not stored yet, what the  *)
(* slot held a lap before, an empty pointer on the first lap.              *)
ReadBack ==
  \A t \in Threads : pc[t] = "load" =>
    LET k == ticket[t] IN
    m_data[idx[t]] = IF Stored(k) THEN log[k + 1]
                     ELSE IF k < N THEN Null ELSE log[k - N + 1]

(* pop and top return false only if the queue was empty at some moment of  *)
(* the call ("Queue is empty", line 105), although the two indices are     *)
(* read one after the other.                                               *)
FalseMeansEmpty ==
  \A t \in Poppers \union Watchers : ret[t] = "false" => witness[t]

(* The claims, seen as operations of a FIFO of N - 1 elements.             *)
Abstract == INSTANCE BoundedFifo
  WITH Bound <- N - 1, Elements <- Values, fifo <- SubSeq(log, head + 1, tail)

ClaimsAreFifo == Abstract!Spec
=============================================================================
