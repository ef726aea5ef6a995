------------------------ MODULE ActivityQueue_proofs ------------------------
(***************************************************************************)
(* Theorems about the ring of module ActivityQueue, for every number of    *)
(* slots from two on, every number of threads and of calls.  All but type  *)
(* correctness hold under StallFree.                                       *)
(*                                                                         *)
(* The code sees the counts of pushes and pops modulo N only.  The         *)
(* invariant ties every index to the count it stands for, and says that    *)
(* no call is a lap behind: then equal indices are equal counts.           *)
(***************************************************************************)
EXTENDS ActivityQueue, RingArithmetic, SequenceTheorems, TLAPS

(* Arithmetic of the ring                                                  *)

LEMMA SlotsAssumption == N \in Nat \ {0}
BY NAssumption

LEMMA SlotOf ==
  ASSUME NEW a \in Nat
  PROVE  /\ a % N \in Slots
         /\ a < N => a % N = a
         /\ (a + N) % N = a % N
         /\ next(a % N) = (a + 1) % N
         /\ next(a % N) \in Slots
<1>1. N \in Nat \ {0}
  BY SlotsAssumption
<1>2. \A i \in Nat : i % N \in Slots
  BY <1>1 DEF Slots
<1>3. a < N => a % N = a
  BY <1>1, Below
<1>4. (a + N) % N = a % N /\ next(a % N) = (a + 1) % N
  BY <1>1, NextLap, NextIndex DEF next
<1>. QED BY <1>2, <1>3, <1>4

-----------------------------------------------------------------------------
(* Types                                                                   *)

(* Who is where, and a push has a value to store.                          *)
Roles ==
  \A t \in Threads :
    /\ pc[t] \in {"checkFull", "casRear", "store"} => t \in Pushers /\ val[t] \in Values
    /\ pc[t] \in {"checkEmpty", "casFront", "load"} => t \in Poppers
    /\ pc[t] \in {"topCheck", "topLoad"} => t \in Watchers

TypeInv == TypeOK /\ Roles

LEMMA TypeInit == Init => TypeInv
<1>1. 0 \in Slots /\ N \in Nat
  BY NAssumption DEF Slots
<1>. QED BY <1>1, MaxCallsAssumption DEF Init, TypeInv, TypeOK, Roles, Labels

LEMMA TypeStep == TypeInv /\ [Next]_vars => TypeInv'
<1> SUFFICES ASSUME TypeInv, [Next]_vars PROVE TypeInv'
  OBVIOUS
<1>. USE DEF TypeInv, TypeOK
<1>0. /\ 0 \in Slots /\ N \in Nat /\ \A s \in Slots : next(s) \in Slots
      /\ Pushers \cap Poppers = {} /\ Watchers \cap (Pushers \union Poppers) = {}
      /\ MaxCalls \in Nat
  <2>1. N \in Nat /\ 0 \in Slots /\ \A s \in Slots : s \in Nat /\ s < N
    BY NAssumption DEF Slots
  <2>2. \A s \in Slots : next(s) \in Slots
    BY <2>1, SlotOf
  <2>. QED BY <2>1, <2>2, ThreadsAssumption, MaxCallsAssumption
<1>. USE <1>0
<1>1. ASSUME NEW t \in Pushers, PushBegin(t) PROVE TypeInv'
  <2>1. << t, calls[t] + 1 >> \in Values /\ calls[t] + 1 \in 0 .. MaxCalls /\ t \in Threads
    BY <1>1 DEF Values, PushBegin, Begin, Threads
  <2>2. TypeOK'
    BY <1>1, <2>1 DEF PushBegin, Begin, Load, Jump, Labels, AtLimit, Full, Empty
  <2>. QED BY <1>1, <2>1, <2>2 DEF PushBegin, Begin, Load, Jump, Roles
<1>2. ASSUME NEW t \in Pushers, PushCheck(t) PROVE TypeInv'
  <2>1. t \in Threads
    BY DEF Threads
  <2>2. CASE Return(t, val[t], "false") /\ UNCHANGED m_data
    BY <2>1, <2>2 DEF Return, Load, Jump, Labels, Roles
  <2>3. CASE Jump(t, "casRear") /\ UNCHANGED << m_data, m_frontIndex, m_rearIndex, idx, val, ret,
                                      calls, head, tail, ticket, log, witness >>
    BY <1>2, <2>1, <2>3 DEF PushCheck, Jump, Labels, Roles
  <2>. QED BY <1>2, <2>2, <2>3 DEF PushCheck
<1>3. ASSUME NEW t \in Pushers, PushClaim(t) PROVE TypeInv'
  <2>1. t \in Threads /\ val[t] \in Values
    BY <1>3 DEF Roles, PushClaim, Threads
  <2>2. log' \in Seq(Values) /\ Len(log') = tail'
    <3>1. log' = Append(log, val[t]) /\ tail' = tail + 1
      BY <1>3 DEF PushClaim, Count
    <3>2. log \in Seq(Values) /\ Len(log) = tail
      OBVIOUS
    <3>. HIDE DEF TypeInv, TypeOK
    <3>. QED BY <2>1, <3>1, <3>2
  <2>. QED BY <1>3, <2>1, <2>2 DEF PushClaim, Jump, Count, Labels, Roles, AtLimit, Full, Empty
<1>4. ASSUME NEW t \in Pushers, PushRetry(t) PROVE TypeInv'
  BY <1>4 DEF PushRetry, Load, Jump, Labels, Threads, Roles
<1>5. ASSUME NEW t \in Pushers, PushStore(t) PROVE TypeInv'
  BY <1>5 DEF PushStore, Return, Load, Jump, Labels, Threads, Roles
<1>6. ASSUME NEW t \in Poppers, PopBegin(t) PROVE TypeInv'
  <2>1. calls[t] + 1 \in 0 .. MaxCalls /\ t \in Threads
    BY <1>6 DEF PopBegin, Begin, Threads
  <2>2. TypeOK'
    BY <1>6, <2>1 DEF PopBegin, Begin, Load, Jump, Labels, AtLimit, Full, Empty
  <2>. QED BY <1>6, <2>1, <2>2 DEF PopBegin, Begin, Load, Jump, Roles
<1>7. ASSUME NEW t \in Poppers, PopCheck(t) PROVE TypeInv'
  <2>1. t \in Threads
    BY DEF Threads
  <2>2. CASE Return(t, val[t], "false") /\ UNCHANGED m_data
    BY <2>1, <2>2 DEF Return, Load, Jump, Labels, Roles
  <2>3. CASE Jump(t, "casFront") /\ UNCHANGED << m_data, m_frontIndex, m_rearIndex, idx, val, ret,
                                      calls, head, tail, ticket, log, witness >>
    BY <1>7, <2>1, <2>3 DEF PopCheck, Jump, Labels, Roles
  <2>. QED BY <1>7, <2>2, <2>3 DEF PopCheck
<1>8. ASSUME NEW t \in Poppers, PopClaim(t) PROVE TypeInv'
  BY <1>8 DEF PopClaim, Jump, Count, Labels, Threads, Roles, AtLimit, Full, Empty
<1>9. ASSUME NEW t \in Poppers, PopRetry(t) PROVE TypeInv'
  BY <1>9 DEF PopRetry, Load, Jump, Labels, Threads, Roles
<1>10. ASSUME NEW t \in Poppers, PopLoad(t) PROVE TypeInv'
  BY <1>10 DEF PopLoad, Return, Load, Jump, Labels, Threads, Roles
<1>11. ASSUME NEW t \in Watchers, TopBegin(t) PROVE TypeInv'
  <2>1. calls[t] + 1 \in 0 .. MaxCalls /\ t \in Threads
    BY <1>11 DEF TopBegin, Begin, Threads
  <2>2. TypeOK'
    BY <1>11, <2>1 DEF TopBegin, Begin, Load, Jump, Labels, AtLimit, Full, Empty
  <2>. QED BY <1>11, <2>1, <2>2 DEF TopBegin, Begin, Load, Jump, Roles
<1>12. ASSUME NEW t \in Watchers, TopCheck(t) PROVE TypeInv'
  <2>1. t \in Threads
    BY DEF Threads
  <2>2. CASE Return(t, val[t], "false") /\ UNCHANGED m_data
    BY <2>1, <2>2 DEF Return, Load, Jump, Labels, Roles
  <2>3. CASE Jump(t, "topLoad") /\ UNCHANGED << m_data, m_frontIndex, m_rearIndex, idx, val, ret,
                                      calls, head, tail, ticket, log, witness >>
    BY <1>12, <2>1, <2>3 DEF TopCheck, Jump, Labels, Roles
  <2>. QED BY <1>12, <2>2, <2>3 DEF TopCheck
<1>13. ASSUME NEW t \in Watchers, TopLoad(t) PROVE TypeInv'
  BY <1>13 DEF TopLoad, Return, Load, Jump, Labels, Threads, Roles
<1>14. CASE UNCHANGED vars
  BY <1>14 DEF vars, Roles
<1>. QED
  BY <1>1, <1>2, <1>3, <1>4, <1>5, <1>6, <1>7, <1>8, <1>9, <1>10, <1>11, <1>12, <1>13, <1>14
  DEF Next, Push, Pop, Top

(* Every variable keeps its type; the log is as long as the pushes that    *)
(* have claimed a slot.                                                    *)
THEOREM TypeCorrect == Spec => []TypeOK
<1>1. Init => TypeInv
  BY TypeInit
<1>2. TypeInv /\ [Next]_vars => TypeInv'
  BY TypeStep
<1>3. TypeInv => TypeOK
  BY DEF TypeInv
<1>. QED BY <1>1, <1>2, <1>3, PTL DEF Spec

-----------------------------------------------------------------------------
(* The ring                                                                *)

(* What a call in flight knows: the index it loaded is that of its ticket, *)
(* no lap behind.  A test that has succeeded stays true as long as the     *)
(* index it was made for is the present one.                               *)
Near(t) ==
  /\ pc[t] # "idle" => idx[t] = ticket[t] % N /\ tail < ticket[t] + N
  /\ pc[t] \in {"checkFull", "casRear"} => ticket[t] <= tail
  /\ pc[t] = "store" => ticket[t] < tail /\ log[ticket[t] + 1] = val[t]
  /\ pc[t] \in {"checkEmpty", "casFront", "topCheck", "topLoad"} => ticket[t] <= head
  /\ pc[t] = "load" => ticket[t] < head
  /\ pc[t] = "casRear" /\ ticket[t] = tail => tail - head <= N - 2
  /\ pc[t] = "casFront" /\ ticket[t] = head => head < tail

Indices == m_frontIndex = head % N /\ m_rearIndex = tail % N

RingInv == TypeInv /\ Indices /\ Occupancy /\ \A t \in Threads : Near(t)

LEMMA RingInit == Init => RingInv
<1>. SUFFICES ASSUME Init PROVE RingInv
  OBVIOUS
<1>1. 0 % N = 0 /\ N \in Nat /\ N >= 2
  BY SlotOf, NAssumption
<1>. QED BY <1>1, TypeInit DEF Init, RingInv, Indices, Occupancy, Near

(* A step that changes neither count only concerns the thread that makes it. *)
LEMMA OwnStep ==
  ASSUME RingInv, TypeInv', NEW t \in Threads, Near(t)',
         UNCHANGED << m_frontIndex, m_rearIndex, head, tail, log >>,
         \A u \in Threads \ {t} : /\ pc'[u] = pc[u] /\ idx'[u] = idx[u]
                                  /\ ticket'[u] = ticket[u] /\ val'[u] = val[u]
  PROVE  RingInv'
<1>1. \A u \in Threads \ {t} : Near(u)'
  BY DEF RingInv, Near
<1>. QED BY <1>1 DEF RingInv, Indices, Occupancy

(* A claim of the rear index that succeeds is one of the present count.    *)
LEMMA RearIsPresent ==
  ASSUME RingInv, NEW t \in Threads, pc[t] \in {"casRear", "checkFull"}, m_rearIndex = idx[t]
  PROVE  ticket[t] = tail
<1>1. ticket[t] \in Nat /\ tail \in Nat
  BY DEF RingInv, TypeInv, TypeOK
<1>2. ticket[t] <= tail /\ tail < ticket[t] + N /\ ticket[t] % N = tail % N
  BY DEF RingInv, Near, Indices
<1>. QED BY <1>1, <1>2, SlotsAssumption, SameSlot

(* So is a claim of the front index.                                       *)
LEMMA FrontIsPresent ==
  ASSUME RingInv, NEW t \in Threads, pc[t] \in {"casFront", "checkEmpty"}, m_frontIndex = idx[t]
  PROVE  ticket[t] = head
<1>1. ticket[t] \in Nat /\ head \in Nat /\ tail \in Nat /\ N \in Nat
  BY NAssumption DEF RingInv, TypeInv, TypeOK
<1>2. ticket[t] <= head /\ head <= tail /\ tail < ticket[t] + N /\ ticket[t] % N = head % N
  BY DEF RingInv, Near, Indices, Occupancy
<1>3. head < ticket[t] + N
  BY <1>1, <1>2
<1>. QED BY <1>1, <1>2, <1>3, SlotsAssumption, SameSlot

(* A full test that is passed at the present count leaves room for one.    *)
LEMMA NotFull ==
  ASSUME RingInv, next(m_rearIndex) # m_frontIndex
  PROVE  tail - head <= N - 2
<1>1. head \in Nat /\ tail \in Nat /\ N \in Nat /\ N >= 2
  BY NAssumption DEF RingInv, TypeInv, TypeOK
<1>2. next(m_rearIndex) = (tail + 1) % N /\ m_frontIndex = (head + N) % N
  BY <1>1, SlotOf DEF RingInv, Indices
<1>3. tail + 1 # head + N
  BY <1>2
<1>. QED BY <1>1, <1>3 DEF RingInv, Occupancy

LEMMA NotEmpty ==
  ASSUME RingInv, m_frontIndex # m_rearIndex
  PROVE  head < tail
<1>1. head \in Nat /\ tail \in Nat
  BY DEF RingInv, TypeInv, TypeOK
<1>. QED BY <1>1 DEF RingInv, Occupancy, Indices

LEMMA PushClaimKeepsRing ==
  ASSUME StallFree, RingInv, TypeInv', NEW t \in Pushers, PushClaim(t)
  PROVE  /\ RingInv'
         /\ ticket[t] = tail /\ tail - head <= N - 2
<1>. t \in Threads
  BY DEF Threads
<1>0. /\ head \in Nat /\ tail \in Nat /\ N \in Nat /\ N >= 2 /\ \A u \in Threads : ticket[u] \in Nat
      /\ \A u \in Threads : pc[u] \in Labels
      /\ tail' = tail + 1 /\ head' = head /\ m_frontIndex' = m_frontIndex
      /\ ticket' = ticket /\ idx' = idx /\ val' = val
  BY NAssumption DEF RingInv, TypeInv, TypeOK, PushClaim, Count
<1>1. ticket[t] = tail
  BY RearIsPresent DEF PushClaim
<1>2. tail - head <= N - 2
  BY <1>1 DEF RingInv, Near, PushClaim
<1>3. Indices'
  BY <1>0, SlotOf DEF RingInv, Indices, PushClaim
<1>4. Occupancy'
  BY <1>0, <1>2 DEF RingInv, Occupancy
<1>5. \A k \in 1 .. tail : log'[k] = log[k]
  BY DEF RingInv, TypeInv, TypeOK, PushClaim
<1>6. log'[tail + 1] = val[t]
  BY DEF RingInv, TypeInv, TypeOK, PushClaim
<1>7. ASSUME NEW u \in Threads \ {t} PROVE Near(u)'
  <2>1. pc'[u] = pc[u] /\ Near(u)
    BY DEF RingInv, TypeInv, TypeOK, PushClaim, Jump
  <2>2. pc[u] # "idle" => tail + 1 < ticket[u] + N
    BY DEF PushClaim, Unlapped
  <2>3. pc[u] = "store" => log'[ticket[u] + 1] = val[u]
    BY <1>0, <1>5, <2>1 DEF Near
  <2>. QED BY <1>0, <2>1, <2>2, <2>3 DEF Near
<1>8. Near(t)'
  <2>1. pc'[t] = "store"
    BY DEF RingInv, TypeInv, TypeOK, PushClaim, Jump
  <2>2. idx[t] = ticket[t] % N
    BY DEF RingInv, Near, PushClaim
  <2>. QED BY <1>0, <1>1, <1>6, <2>1, <2>2 DEF Near
<1>. QED BY <1>1, <1>2, <1>3, <1>4, <1>7, <1>8 DEF RingInv

LEMMA PopClaimKeepsRing ==
  ASSUME RingInv, TypeInv', NEW t \in Poppers, PopClaim(t)
  PROVE  /\ RingInv'
         /\ ticket[t] = head /\ head < tail
<1>. t \in Threads
  BY DEF Threads
<1>0. /\ head \in Nat /\ tail \in Nat /\ N \in Nat /\ N >= 2 /\ \A u \in Threads : ticket[u] \in Nat
      /\ \A u \in Threads : pc[u] \in Labels
      /\ tail' = tail /\ head' = head + 1 /\ m_rearIndex' = m_rearIndex /\ log' = log
      /\ ticket' = ticket /\ idx' = idx /\ val' = val
  BY NAssumption DEF RingInv, TypeInv, TypeOK, PopClaim, Count
<1>1. ticket[t] = head
  BY FrontIsPresent DEF PopClaim
<1>2. head < tail
  BY <1>1 DEF RingInv, Near, PopClaim
<1>3. Indices'
  BY <1>0, SlotOf DEF RingInv, Indices, PopClaim
<1>4. Occupancy'
  BY <1>0, <1>2 DEF RingInv, Occupancy
<1>7. ASSUME NEW u \in Threads \ {t} PROVE Near(u)'
  <2>1. pc'[u] = pc[u] /\ Near(u)
    BY DEF RingInv, TypeInv, TypeOK, PopClaim, Jump
  <2>. QED BY <1>0, <2>1 DEF Near
<1>8. Near(t)'
  <2>1. pc'[t] = "load"
    BY DEF RingInv, TypeInv, TypeOK, PopClaim, Jump
  <2>2. idx[t] = ticket[t] % N /\ tail < ticket[t] + N
    BY DEF RingInv, Near, PopClaim
  <2>. QED BY <1>0, <1>1, <2>1, <2>2 DEF Near
<1>. QED BY <1>1, <1>2, <1>3, <1>4, <1>7, <1>8 DEF RingInv

LEMMA RingStep == ASSUME StallFree PROVE RingInv /\ [Next]_vars => RingInv'
<1> SUFFICES ASSUME RingInv, [Next]_vars PROVE RingInv'
  OBVIOUS
<1>0. TypeInv'
  BY TypeStep DEF RingInv
<1>. USE <1>0
<1>a. /\ head \in Nat /\ tail \in Nat /\ N \in Nat /\ N >= 2 /\ tail < head + N /\ head <= tail
      /\ m_frontIndex = head % N /\ m_rearIndex = tail % N
      /\ Pushers \subseteq Threads /\ Poppers \subseteq Threads /\ Watchers \subseteq Threads
  BY NAssumption DEF RingInv, TypeInv, TypeOK, Occupancy, Indices, Threads
<1>b. pc \in [Threads -> Labels] /\ idx \in [Threads -> Slots] /\ ticket \in [Threads -> Nat]
      /\ val \in [Threads -> Values \union {Null}]
  BY DEF RingInv, TypeInv, TypeOK
<1>1. ASSUME NEW t \in Pushers, PushBegin(t) \/ PushRetry(t) PROVE RingInv'
  <2>1. Near(t)'
    BY <1>1, <1>a, <1>b DEF PushBegin, PushRetry, Begin, Load, Jump, Near
  <2>. QED BY <1>1, <1>a, <1>b, <2>1, OwnStep DEF PushBegin, PushRetry, Begin, Load, Jump
<1>2. ASSUME NEW t \in Poppers, PopBegin(t) \/ PopRetry(t) PROVE RingInv'
  <2>1. Near(t)'
    BY <1>2, <1>a, <1>b DEF PopBegin, PopRetry, Begin, Load, Jump, Near
  <2>. QED BY <1>2, <1>a, <1>b, <2>1, OwnStep DEF PopBegin, PopRetry, Begin, Load, Jump
<1>3. ASSUME NEW t \in Watchers, TopBegin(t) PROVE RingInv'
  <2>1. Near(t)'
    BY <1>3, <1>a, <1>b DEF TopBegin, Begin, Load, Jump, Near
  <2>. QED BY <1>3, <1>a, <1>b, <2>1, OwnStep DEF TopBegin, Begin, Load, Jump
<1>4. ASSUME NEW t \in Threads, NEW v, NEW r, Return(t, v, r) PROVE RingInv'
  <2>1. Near(t)'
    BY <1>4, <1>b DEF Return, Load, Jump, Near
  <2>. QED BY <1>4, <1>b, <2>1, OwnStep DEF Return, Load, Jump
<1>5. ASSUME NEW t \in Pushers, PushCheck(t) PROVE RingInv'
  <2>1. CASE Return(t, val[t], "false")
    BY <1>4, <1>a, <2>1
  <2>2. CASE /\ next(idx[t]) # m_frontIndex
             /\ Jump(t, "casRear")
             /\ UNCHANGED << m_data, m_frontIndex, m_rearIndex, idx, val, ret, calls,
                             head, tail, ticket, log, witness >>
    <3>1. pc[t] = "checkFull" /\ t \in Threads /\ Near(t)
      BY <1>5, <1>a DEF PushCheck, RingInv
    <3>2. ticket[t] = tail => tail - head <= N - 2
      <4>1. HAVE ticket[t] = tail
      <4>2. idx[t] = m_rearIndex
        BY <3>1, <4>1, <1>a DEF Near
      <4>. QED BY <2>2, <4>2, NotFull
    <3>3. Near(t)'
      BY <1>b, <2>2, <3>1, <3>2 DEF Near, Jump
    <3>. QED BY <1>b, <2>2, <3>1, <3>3, OwnStep DEF Jump
  <2>. QED BY <1>5, <2>1, <2>2 DEF PushCheck
<1>6. ASSUME NEW t \in Poppers, PopCheck(t) PROVE RingInv'
  <2>1. CASE Return(t, val[t], "false")
    BY <1>4, <1>a, <2>1
  <2>2. CASE /\ idx[t] # m_rearIndex
             /\ Jump(t, "casFront")
             /\ UNCHANGED << m_data, m_frontIndex, m_rearIndex, idx, val, ret, calls,
                             head, tail, ticket, log, witness >>
    <3>1. pc[t] = "checkEmpty" /\ t \in Threads /\ Near(t)
      BY <1>6, <1>a DEF PopCheck, RingInv
    <3>2. ticket[t] = head => head < tail
      <4>1. HAVE ticket[t] = head
      <4>2. idx[t] = m_frontIndex
        BY <3>1, <4>1, <1>a DEF Near
      <4>. QED BY <2>2, <4>2, NotEmpty
    <3>3. Near(t)'
      BY <1>b, <2>2, <3>1, <3>2 DEF Near, Jump
    <3>. QED BY <1>b, <2>2, <3>1, <3>3, OwnStep DEF Jump
  <2>. QED BY <1>6, <2>1, <2>2 DEF PopCheck
<1>7. ASSUME NEW t \in Watchers, TopCheck(t) PROVE RingInv'
  <2>1. CASE Return(t, val[t], "false")
    BY <1>4, <1>a, <2>1
  <2>2. CASE /\ Jump(t, "topLoad")
             /\ UNCHANGED << m_data, m_frontIndex, m_rearIndex, idx, val, ret, calls,
                             head, tail, ticket, log, witness >>
    <3>1. pc[t] = "topCheck" /\ t \in Threads /\ Near(t)
      BY <1>7, <1>a DEF TopCheck, RingInv
    <3>2. Near(t)'
      BY <1>b, <2>2, <3>1 DEF Near, Jump
    <3>. QED BY <1>b, <2>2, <3>1, <3>2, OwnStep DEF Jump
  <2>. QED BY <1>7, <2>1, <2>2 DEF TopCheck
<1>8. ASSUME NEW t \in Pushers, PushClaim(t) PROVE RingInv'
  BY <1>8, PushClaimKeepsRing
<1>9. ASSUME NEW t \in Poppers, PopClaim(t) PROVE RingInv'
  BY <1>9, PopClaimKeepsRing
<1>10. ASSUME NEW t \in Threads, PushStore(t) \/ PopLoad(t) \/ TopLoad(t) PROVE RingInv'
  BY <1>4, <1>10 DEF PushStore, PopLoad, TopLoad
<1>11. CASE UNCHANGED vars
  BY <1>11 DEF vars, RingInv, Indices, Occupancy, Near
<1>. QED
  BY <1>a, <1>1, <1>2, <1>3, <1>5, <1>6, <1>7, <1>8, <1>9, <1>10, <1>11 DEF Next, Push, Pop, Top

THEOREM RingTheorem == ASSUME StallFree PROVE Spec => []RingInv
<1>1. Init => RingInv
  BY RingInit
<1>2. RingInv /\ [Next]_vars => RingInv'
  BY RingStep
<1>. QED BY <1>1, <1>2, PTL DEF Spec

(* The ring never wraps onto itself: pops do not pass pushes, and at most  *)
(* N - 1 elements are outstanding.                                         *)
THEOREM OccupancyTheorem == ASSUME StallFree PROVE Spec => []Occupancy
<1>1. RingInv => Occupancy
  BY DEF RingInv
<1>. QED BY <1>1, RingTheorem, PTL

-----------------------------------------------------------------------------
(* The slots                                                               *)

(* No two pushes have claimed the same place.                              *)
Distinct ==
  \A t, u \in Pushers : pc[t] = "store" /\ pc[u] = "store" /\ ticket[t] = ticket[u] => t = u

Before(k) == IF k < N THEN Null ELSE log[k - N + 1]

(* The last N pushes are in their slots or, where a push has yet to store, *)
(* the one a lap before is; slots nobody has claimed are empty.            *)
Contents ==
  /\ \A k \in Nat : k < tail /\ tail <= k + N =>
       m_data[k % N] = IF Stored(k) THEN log[k + 1] ELSE Before(k)
  /\ \A s \in Slots : tail <= s => m_data[s] = Null

SlotsInv == RingInv /\ Distinct /\ Contents

LEMMA SlotsInit == Init => SlotsInv
<1>. SUFFICES ASSUME Init PROVE SlotsInv
  OBVIOUS
<1>1. RingInv
  BY RingInit
<1>2. \A t \in Pushers : pc[t] = "idle"
  BY DEF Init, Threads
<1>. QED BY <1>1, <1>2 DEF Init, SlotsInv, Distinct, Contents

(* Most steps neither store nor come to a store.                           *)
LEMMA NoStore ==
  ASSUME SlotsInv, RingInv', UNCHANGED << m_data, tail, log >>,
         \A u \in Pushers : pc'[u] = "store" <=> pc[u] = "store",
         \A u \in Pushers : pc[u] = "store" => ticket'[u] = ticket[u]
  PROVE  SlotsInv'
<1>1. \A k \in Nat : Stored(k)' <=> Stored(k)
  BY DEF Stored
<1>2. Contents'
  BY <1>1 DEF SlotsInv, Contents, Before
<1>. QED BY <1>2 DEF SlotsInv, Distinct

LEMMA ClaimKeepsSlots ==
  ASSUME StallFree, SlotsInv, RingInv', NEW t \in Pushers, PushClaim(t)
  PROVE  SlotsInv'
<1>. t \in Threads /\ Pushers \subseteq Threads
  BY DEF Threads
<1>0. /\ head \in Nat /\ tail \in Nat /\ N \in Nat /\ N >= 2 /\ \A u \in Threads : ticket[u] \in Nat
      /\ tail' = tail + 1 /\ ticket' = ticket /\ m_data' = m_data
      /\ m_data \in [Slots -> Values \union {Null}]
  BY NAssumption DEF SlotsInv, RingInv, TypeInv, TypeOK, PushClaim, Count
<1>1. ticket[t] = tail
  BY RearIsPresent DEF PushClaim, SlotsInv
<1>2. \A k \in 1 .. tail : log'[k] = log[k]
  BY DEF SlotsInv, RingInv, TypeInv, TypeOK, PushClaim
<1>3. pc[t] = "casRear" /\ pc'[t] = "store" /\ \A u \in Threads \ {t} : pc'[u] = pc[u]
  BY DEF SlotsInv, RingInv, TypeInv, TypeOK, PushClaim, Jump
<1>4. \A u \in Pushers \ {t} : pc[u] = "store" => ticket[u] < tail /\ tail + 1 < ticket[u] + N
  BY DEF SlotsInv, RingInv, Near, PushClaim, Unlapped
<1>5. Distinct'
  BY <1>0, <1>1, <1>3, <1>4 DEF SlotsInv, Distinct
<1>6. \A k \in Nat : k # tail => (Stored(k)' <=> Stored(k))
  BY <1>0, <1>1, <1>3 DEF Stored
<1>7. \A k \in Nat : k = tail => ~ Stored(k)'
  BY <1>0, <1>1, <1>3 DEF Stored
<1>8. m_data[tail % N] = IF tail < N THEN Null ELSE log[tail - N + 1]
  <2>1. CASE tail < N
    <3>1. tail % N = tail /\ tail \in Slots
      BY <1>0, <2>1, SlotOf DEF Slots
    <3>. QED BY <1>0, <2>1, <3>1 DEF SlotsInv, Contents
  <2>2. CASE tail >= N
    <3>. DEFINE k == tail - N
    <3>1. k \in Nat /\ k < tail /\ tail <= k + N /\ k + N = tail
      BY <1>0, <2>2
    <3>2. k % N = tail % N
      BY <3>1, SlotOf
    <3>3. Stored(k)
      BY <1>0, <1>3, <1>4, <3>1 DEF Stored
    <3>4. m_data[k % N] = log[k + 1]
      BY <3>1, <3>3 DEF SlotsInv, Contents
    <3>. QED BY <1>0, <2>2, <3>2, <3>4
  <2>. QED BY <1>0, <2>1, <2>2
<1>9. ASSUME NEW k \in Nat, k < tail', tail' <= k + N
      PROVE  m_data'[k % N] = IF Stored(k)' THEN log'[k + 1] ELSE Before(k)'
  <2>0. k >= N => k - N + 1 \in 1 .. tail
    BY <1>0, <1>9
  <2>1. CASE k = tail
    <3>1. Before(k)' = IF k < N THEN Null ELSE log[k - N + 1]
      BY <1>2, <2>0, <1>0 DEF Before
    <3>. QED BY <1>0, <1>7, <1>8, <2>1, <3>1
  <2>2. CASE k < tail
    <3>1. k + 1 \in 1 .. tail /\ tail <= k + N
      BY <1>0, <1>9, <2>2
    <3>2. Before(k)' = Before(k)
      BY <1>2, <2>0, <1>0 DEF Before
    <3>3. Stored(k)' <=> Stored(k)
      BY <1>0, <1>6, <2>2
    <3>. QED BY <1>0, <1>2, <2>2, <3>1, <3>2, <3>3 DEF SlotsInv, Contents
  <2>. QED BY <1>0, <1>9, <2>1, <2>2
<1>10. \A s \in Slots : tail' <= s => m_data'[s] = Null
  BY <1>0 DEF SlotsInv, Contents, Slots
<1>. QED BY <1>5, <1>9, <1>10 DEF SlotsInv, Contents

LEMMA StoreKeepsSlots ==
  ASSUME SlotsInv, RingInv', NEW t \in Pushers, PushStore(t)
  PROVE  SlotsInv'
<1>. PICK j : j = ticket[t]
  OBVIOUS
<1>. t \in Threads /\ Pushers \subseteq Threads
  BY DEF Threads
<1>0. /\ tail \in Nat /\ N \in Nat /\ N >= 2 /\ j \in Nat
      /\ tail' = tail /\ log' = log
      /\ m_data \in [Slots -> Values \union {Null}]
  BY NAssumption DEF SlotsInv, RingInv, TypeInv, TypeOK, PushStore, Return
<1>1. idx[t] = j % N /\ j < tail /\ tail < j + N /\ log[j + 1] = val[t]
  BY DEF SlotsInv, RingInv, Near, PushStore
<1>2. m_data' = [m_data EXCEPT ![j % N] = log[j + 1]] /\ j % N \in Slots
  BY <1>0, <1>1, SlotOf DEF PushStore
<1>3. /\ pc[t] = "store" /\ pc'[t] = "idle"
      /\ \A u \in Threads \ {t} : pc'[u] = pc[u] /\ ticket'[u] = ticket[u]
  BY DEF SlotsInv, RingInv, TypeInv, TypeOK, PushStore, Return, Load, Jump
<1>4. Distinct'
  BY <1>3 DEF SlotsInv, Distinct
<1>5. Stored(j)'
  BY <1>3 DEF SlotsInv, Distinct, Stored
<1>6. \A k \in Nat : k # j => (Stored(k)' <=> Stored(k))
  BY <1>3 DEF Stored
<1>7. ASSUME NEW k \in Nat, k < tail, tail <= k + N
      PROVE  m_data'[k % N] = IF Stored(k)' THEN log[k + 1] ELSE Before(k)
  <2>1. CASE k = j
    BY <1>0, <1>2, <1>5, <2>1
  <2>2. CASE k # j
    <3>1. k % N # j % N
      <4>1. CASE k <= j
        <5>1. j < k + N
          BY <1>0, <1>1, <1>7
        <5>. QED BY <1>0, <2>2, <4>1, <5>1, SlotsAssumption, SameSlot
      <4>2. CASE j <= k
        <5>1. k < j + N
          BY <1>0, <1>1, <1>7
        <5>. QED BY <1>0, <2>2, <4>2, <5>1, SlotsAssumption, SameSlot
      <4>. QED BY <1>0, <4>1, <4>2
    <3>2. m_data'[k % N] = m_data[k % N]
      BY <1>2, <3>1, <1>0, SlotOf
    <3>. QED BY <1>6, <1>7, <2>2, <3>2 DEF SlotsInv, Contents
  <2>. QED BY <2>1, <2>2
<1>8. ASSUME NEW s \in Slots, tail <= s PROVE m_data'[s] = Null
  <2>1. s \in Nat /\ s < N
    BY <1>0 DEF Slots
  <2>2. j % N = j /\ j # s
    <3>1. j < N /\ j # s
      BY <1>0, <1>1, <1>8, <2>1
    <3>2. j < N => j % N = j
      BY <1>0, SlotOf
    <3>. QED BY <3>1, <3>2
  <2>3. m_data'[s] = m_data[s]
    BY <1>0, <1>2, <2>2
  <2>. QED BY <1>8, <2>3 DEF SlotsInv, Contents
<1>9. Contents'
  <2>1. \A k \in Nat : Before(k)' = Before(k)
    BY <1>0 DEF Before
  <2>. QED BY <1>0, <1>7, <1>8, <2>1 DEF Contents
<1>. QED BY <1>4, <1>9 DEF SlotsInv

LEMMA SlotsStep == ASSUME StallFree PROVE SlotsInv /\ [Next]_vars => SlotsInv'
<1> SUFFICES ASSUME SlotsInv, [Next]_vars PROVE SlotsInv'
  OBVIOUS
<1>0. RingInv'
  BY RingStep DEF SlotsInv
<1>. USE <1>0
<1>a. /\ Pushers \subseteq Threads /\ Poppers \subseteq Threads /\ Watchers \subseteq Threads
      /\ Pushers \cap (Poppers \union Watchers) = {}
      /\ pc \in [Threads -> Labels] /\ ticket \in [Threads -> Nat]
  BY ThreadsAssumption DEF Threads, SlotsInv, RingInv, TypeInv, TypeOK
<1>1. ASSUME NEW t \in Pushers, PushBegin(t) \/ PushRetry(t) PROVE SlotsInv'
  BY <1>1, <1>a, NoStore DEF PushBegin, PushRetry, Begin, Load, Jump
<1>2. ASSUME NEW t \in Pushers, PushCheck(t) PROVE SlotsInv'
  <2>1. CASE Return(t, val[t], "false") /\ UNCHANGED m_data
    BY <1>2, <1>a, <2>1, NoStore DEF PushCheck, Return, Load, Jump
  <2>2. CASE /\ Jump(t, "casRear")
             /\ UNCHANGED << m_data, m_frontIndex, m_rearIndex, idx, val, ret, calls,
                             head, tail, ticket, log, witness >>
    BY <1>2, <1>a, <2>2, NoStore DEF PushCheck, Jump
  <2>. QED BY <1>2, <2>1, <2>2 DEF PushCheck
<1>3. ASSUME NEW t \in Poppers \union Watchers, Pop(t) \/ Top(t) PROVE SlotsInv'
  <2>1. UNCHANGED << m_data, tail, log >>
    BY <1>3 DEF Pop, Top, PopBegin, PopCheck, PopClaim, PopRetry, PopLoad, TopBegin, TopCheck,
                TopLoad, Begin, Load, Return, Count
  <2>2. \A u \in Pushers : pc'[u] = pc[u]
    <3>1. \E l : pc' = [pc EXCEPT ![t] = l]
      BY <1>3 DEF Pop, Top, PopBegin, PopCheck, PopClaim, PopRetry, PopLoad, TopBegin, TopCheck,
                  TopLoad, Load, Return, Jump
    <3>. QED BY <1>a, <3>1
  <2>3. \A u \in Pushers : ticket'[u] = ticket[u]
    <3>1. ticket' = ticket \/ \E k : ticket' = [ticket EXCEPT ![t] = k]
      BY <1>3 DEF Pop, Top, PopBegin, PopCheck, PopClaim, PopRetry, PopLoad, TopBegin, TopCheck,
                  TopLoad, Load, Return, Jump
    <3>. QED BY <1>a, <3>1
  <2>. QED BY <2>1, <2>2, <2>3, NoStore
<1>4. ASSUME NEW t \in Pushers, PushClaim(t) PROVE SlotsInv'
  BY <1>4, ClaimKeepsSlots
<1>5. ASSUME NEW t \in Pushers, PushStore(t) PROVE SlotsInv'
  BY <1>5, StoreKeepsSlots
<1>6. CASE UNCHANGED vars
  BY <1>6, NoStore DEF vars
<1>. QED BY <1>1, <1>2, <1>3, <1>4, <1>5, <1>6 DEF Next, Push

THEOREM SlotsTheorem == ASSUME StallFree PROVE Spec => []SlotsInv
<1>1. Init => SlotsInv
  BY SlotsInit
<1>2. SlotsInv /\ [Next]_vars => SlotsInv'
  BY SlotsStep
<1>. QED BY <1>1, <1>2, PTL DEF Spec

(* An element stays in its slot from its store until a pop claims it.      *)
THEOREM StoredTheorem == ASSUME StallFree PROVE Spec => []StoredUntilClaimed
<1>1. SlotsInv => StoredUntilClaimed
  <2>. SUFFICES ASSUME SlotsInv, NEW k \in head .. tail - 1, Stored(k)
                PROVE  m_data[k % N] = log[k + 1]
    BY DEF StoredUntilClaimed
  <2>1. head \in Nat /\ tail \in Nat /\ N \in Nat /\ head <= tail /\ tail - head <= N - 1
    BY NAssumption DEF SlotsInv, RingInv, TypeInv, TypeOK, Occupancy
  <2>2. k \in Nat /\ k < tail /\ tail <= k + N
    BY <2>1
  <2>. QED BY <2>2 DEF SlotsInv, Contents
<1>. QED BY <1>1, SlotsTheorem, PTL

(* A pop that has claimed its place reads its own element or, when that    *)
(* has not been stored yet, what the slot held a lap before.               *)
THEOREM ReadBackTheorem == ASSUME StallFree PROVE Spec => []ReadBack
<1>1. SlotsInv => ReadBack
  <2>. SUFFICES ASSUME SlotsInv, NEW t \in Threads, pc[t] = "load"
                PROVE  LET k == ticket[t] IN
                       m_data[idx[t]] = IF Stored(k) THEN log[k + 1]
                                        ELSE IF k < N THEN Null ELSE log[k - N + 1]
    BY DEF ReadBack
  <2>1. head \in Nat /\ tail \in Nat /\ N \in Nat /\ head <= tail /\ ticket[t] \in Nat
    BY NAssumption DEF SlotsInv, RingInv, TypeInv, TypeOK, Occupancy
  <2>2. ticket[t] < head /\ tail < ticket[t] + N /\ idx[t] = ticket[t] % N
    BY DEF SlotsInv, RingInv, Near
  <2>3. ticket[t] < tail /\ tail <= ticket[t] + N
    BY <2>1, <2>2
  <2>. QED BY <2>1, <2>2, <2>3 DEF SlotsInv, Contents, Before
<1>. QED BY <1>1, SlotsTheorem, PTL

-----------------------------------------------------------------------------
(* The results                                                             *)

(* A call has seen the queue at its limit if it is, and one that failed    *)
(* has.                                                                    *)
Witnessed ==
  /\ \A t \in Threads : pc[t] # "idle" /\ AtLimit(t, head, tail) => witness[t]
  /\ FalseMeansEmpty

WitnessInv == RingInv /\ Witnessed

LEMMA WitnessInit == Init => WitnessInv
<1>. SUFFICES ASSUME Init PROVE WitnessInv
  OBVIOUS
<1>1. RingInv
  BY RingInit
<1>. QED BY <1>1 DEF Init, WitnessInv, Witnessed, FalseMeansEmpty, Threads

(* A test for emptiness that succeeds has its front and its rear index at  *)
(* one moment.                                                             *)
LEMMA EmptyNow ==
  ASSUME RingInv, NEW t \in Threads, pc[t] \in {"checkEmpty", "topCheck"}, idx[t] = m_rearIndex
  PROVE  head = tail
<1>1. ticket[t] \in Nat /\ tail \in Nat /\ head \in Nat /\ N \in Nat
  BY NAssumption DEF RingInv, TypeInv, TypeOK
<1>2. ticket[t] <= head /\ head <= tail /\ tail < ticket[t] + N /\ ticket[t] % N = tail % N
  BY DEF RingInv, Near, Indices, Occupancy
<1>3. ticket[t] <= tail
  BY <1>1, <1>2
<1>4. ticket[t] = tail
  BY <1>1, <1>2, <1>3, SlotsAssumption, SameSlot
<1>. QED BY <1>1, <1>2, <1>4

LEMMA WitnessStep == ASSUME StallFree PROVE WitnessInv /\ [Next]_vars => WitnessInv'
<1> SUFFICES ASSUME WitnessInv, [Next]_vars PROVE WitnessInv'
  OBVIOUS
<1>0. RingInv'
  BY RingStep DEF WitnessInv
<1>a. /\ Pushers \subseteq Threads /\ Poppers \union Watchers \subseteq Threads
      /\ Pushers \cap (Poppers \union Watchers) = {}
      /\ pc \in [Threads -> Labels] /\ ret \in [Threads -> {"none", "true", "false"}]
      /\ witness \in [Threads -> BOOLEAN]
  BY ThreadsAssumption DEF Threads, WitnessInv, RingInv, TypeInv, TypeOK
<1>. USE <1>a
<1>1. ASSUME NEW t \in Threads, NEW v, Begin(t, v), NEW i, NEW k, NEW to, Load(t, i, k, to)
      PROVE  Witnessed'
  <2>1. /\ head' = head /\ tail' = tail
        /\ \A u \in Threads \ {t} : pc'[u] = pc[u] /\ witness'[u] = witness[u] /\ ret'[u] = ret[u]
        /\ witness'[t] = AtLimit(t, head, tail) /\ ret'[t] = "none"
    BY <1>1 DEF Begin, Load, Jump
  <2>. QED BY <2>1 DEF WitnessInv, Witnessed, FalseMeansEmpty, AtLimit, Full, Empty
<1>2. ASSUME NEW t \in Threads, pc[t] # "idle", UNCHANGED << head, tail, witness >>,
             ret' = [ret EXCEPT ![t] = ret'[t]], pc' = [pc EXCEPT ![t] = pc'[t]],
             t \in Poppers \union Watchers /\ ret'[t] = "false" => witness[t] \/ ret[t] = "false"
      PROVE  Witnessed'
  BY <1>2 DEF WitnessInv, Witnessed, FalseMeansEmpty, AtLimit, Full, Empty
<1>3. ASSUME NEW t \in Threads, pc[t] # "idle", NEW v, NEW r, Return(t, v, r),
             t \in Poppers \union Watchers /\ r = "false" => witness[t]
      PROVE  Witnessed'
  <2>1. ret'[t] = r /\ ret' = [ret EXCEPT ![t] = ret'[t]] /\ pc' = [pc EXCEPT ![t] = pc'[t]]
    BY <1>3 DEF Return, Load, Jump
  <2>. QED BY <1>2, <1>3, <2>1 DEF Return
<1>4. ASSUME NEW t \in Threads, pc[t] # "idle", NEW h, NEW k, Count(h, k), ret' = ret,
             NEW l, Jump(t, l)
      PROVE  Witnessed'
  <2>1. /\ head' = h /\ tail' = k
        /\ \A u \in Threads : witness'[u] = (witness[u] \/ AtLimit(u, h, k))
        /\ \A u \in Threads : pc'[u] # "idle" => pc[u] # "idle"
    BY <1>4 DEF Count, Jump
  <2>. QED BY <1>4, <2>1 DEF WitnessInv, Witnessed, FalseMeansEmpty, AtLimit, Full, Empty
<1>5. ASSUME NEW t \in Threads, pc[t] # "idle", NEW l, Jump(t, l),
             UNCHANGED << head, tail, witness, ret >>
      PROVE  Witnessed'
  BY <1>2, <1>5 DEF Jump, WitnessInv, Witnessed, FalseMeansEmpty
<1>6. ASSUME NEW t \in Pushers, Push(t) PROVE Witnessed'
  <2>1. CASE PushBegin(t)
    BY <1>1, <2>1 DEF PushBegin
  <2>2. CASE PushCheck(t)
    BY <1>3, <1>5, <2>2 DEF PushCheck
  <2>3. CASE PushClaim(t)
    BY <1>4, <2>3 DEF PushClaim
  <2>4. CASE PushRetry(t)
    BY <1>5, <2>4 DEF PushRetry, Load
  <2>5. CASE PushStore(t)
    BY <1>3, <2>5 DEF PushStore
  <2>. QED BY <1>6, <2>1, <2>2, <2>3, <2>4, <2>5 DEF Push
<1>7. ASSUME NEW t \in Poppers, Pop(t) PROVE Witnessed'
  <2>1. CASE PopBegin(t)
    BY <1>1, <2>1 DEF PopBegin
  <2>2. CASE PopCheck(t)
    <3>1. idx[t] = m_rearIndex => witness[t]
      BY <2>2, EmptyNow, ThreadsAssumption DEF PopCheck, WitnessInv, Witnessed, AtLimit, Empty
    <3>. QED BY <1>3, <1>5, <2>2, <3>1 DEF PopCheck
  <2>3. CASE PopClaim(t)
    BY <1>4, <2>3 DEF PopClaim
  <2>4. CASE PopRetry(t)
    BY <1>5, <2>4 DEF PopRetry, Load
  <2>5. CASE PopLoad(t)
    BY <1>3, <2>5 DEF PopLoad
  <2>. QED BY <1>7, <2>1, <2>2, <2>3, <2>4, <2>5 DEF Pop
<1>8. ASSUME NEW t \in Watchers, Top(t) PROVE Witnessed'
  <2>1. CASE TopBegin(t)
    BY <1>1, <2>1 DEF TopBegin
  <2>2. CASE TopCheck(t)
    <3>1. idx[t] = m_rearIndex => witness[t]
      BY <2>2, EmptyNow, ThreadsAssumption DEF TopCheck, WitnessInv, Witnessed, AtLimit, Empty
    <3>. QED BY <1>3, <1>5, <2>2, <3>1 DEF TopCheck
  <2>3. CASE TopLoad(t)
    BY <1>3, <2>3 DEF TopLoad
  <2>. QED BY <1>8, <2>1, <2>2, <2>3 DEF Top
<1>9. CASE UNCHANGED vars
  <2>1. pc' = pc /\ ret' = ret /\ witness' = witness /\ head' = head /\ tail' = tail
    BY <1>9 DEF vars
  <2>2. Witnessed'
    BY <2>1 DEF WitnessInv, Witnessed, FalseMeansEmpty, AtLimit, Full, Empty
  <2>. QED BY <1>0, <2>2 DEF WitnessInv
<1>10. CASE Next
  <2>1. Witnessed'
    BY <1>6, <1>7, <1>8, <1>10 DEF Next
  <2>. QED BY <1>0, <2>1 DEF WitnessInv
<1>. QED BY <1>9, <1>10

(* pop and top fail only if the queue was empty at some moment of the      *)
(* call, though they read its two indices one after the other.             *)
THEOREM FalseTheorem == ASSUME StallFree PROVE Spec => []FalseMeansEmpty
<1>1. Init => WitnessInv
  BY WitnessInit
<1>2. WitnessInv /\ [Next]_vars => WitnessInv'
  BY WitnessStep
<1>3. WitnessInv => FalseMeansEmpty
  BY DEF WitnessInv, Witnessed
<1>. QED BY <1>1, <1>2, <1>3, PTL DEF Spec

-----------------------------------------------------------------------------
(* The abstract queue                                                      *)

Claimed == SubSeq(log, head + 1, tail)

(* The claims of places are the operations of a FIFO of N - 1 elements: a  *)
(* push enters where its exchange succeeds, a pop takes the oldest.        *)
THEOREM FifoTheorem == ASSUME StallFree PROVE Spec => ClaimsAreFifo
<1>1. Init => Abstract!Init
  BY DEF Init, Abstract!Init
<1>2. RingInv /\ RingInv' /\ [Next]_vars => [Abstract!Next]_Claimed
  <2> SUFFICES ASSUME RingInv, RingInv', [Next]_vars PROVE [Abstract!Next]_Claimed
    OBVIOUS
  <2>0. /\ head \in Nat /\ tail \in Nat /\ N \in Nat /\ head <= tail
        /\ log \in Seq(Values) /\ Len(log) = tail
        /\ Len(Claimed) = tail - head
    <3>1. /\ head \in Nat /\ tail \in Nat /\ N \in Nat /\ head <= tail
          /\ log \in Seq(Values) /\ Len(log) = tail
      BY NAssumption DEF RingInv, TypeInv, TypeOK, Occupancy
    <3>2. \A k \in head + 1 .. tail : log[k] \in Values
      BY <3>1
    <3>3. head + 1 \in Int /\ tail \in Int
      BY <3>1
    <3>4. Len(SubSeq(log, head + 1, tail)) = IF head + 1 <= tail THEN tail - (head + 1) + 1 ELSE 0
      BY <3>2, <3>3, SubSeqProperties
    <3>. QED BY <3>1, <3>4 DEF Claimed
  <2>1. ASSUME NEW t \in Pushers, PushClaim(t) PROVE \E e \in Values : Abstract!Enqueue(e)
    <3>1. tail - head <= N - 2
      BY <2>1, PushClaimKeepsRing DEF RingInv
    <3>2. val[t] \in Values
      BY <2>1 DEF RingInv, TypeInv, Roles, PushClaim, Threads
    <3>3. /\ log' = Append(log, val[t]) /\ head' = head /\ tail' = tail + 1
          /\ log' \in Seq(Values) /\ Len(log') = tail + 1
      BY <2>1 DEF PushClaim, Count, RingInv, TypeInv, TypeOK
    <3>4. Claimed' = Append(Claimed, val[t])
      BY <2>0, <3>2, <3>3 DEF Claimed
    <3>5. Len(Claimed) < N - 1
      BY <2>0, <3>1
    <3>6. Abstract!Enqueue(val[t])
      BY <3>4, <3>5 DEF Abstract!Enqueue, Claimed
    <3>. QED BY <3>2, <3>6
  <2>2. ASSUME NEW t \in Poppers, PopClaim(t) PROVE Abstract!Dequeue
    <3>1. head < tail
      BY <2>2, PopClaimKeepsRing DEF RingInv
    <3>2. log' = log /\ head' = head + 1 /\ tail' = tail
      BY <2>2 DEF PopClaim, Count
    <3>3. head + 1 \in 1 .. Len(log) /\ tail \in head + 1 .. Len(log)
      BY <2>0, <3>1
    <3>4. Tail(Claimed) = SubSeq(log, head + 1 + 1, tail)
      BY <2>0, <3>3, HeadTailOfSubSeq DEF Claimed
    <3>5. Claimed # << >>
      BY <2>0, <3>1
    <3>6. Claimed' = Tail(Claimed)
      BY <2>0, <3>2, <3>4 DEF Claimed
    <3>. QED BY <3>5, <3>6 DEF Abstract!Dequeue, Claimed
  <2>3. ASSUME UNCHANGED << log, head, tail >> PROVE Claimed' = Claimed
    BY <2>3 DEF Claimed
  <2>4. ASSUME NEW t \in Threads, \/ PushBegin(t) \/ PushCheck(t) \/ PushRetry(t) \/ PushStore(t)
                                  \/ PopBegin(t) \/ PopCheck(t) \/ PopRetry(t) \/ PopLoad(t)
                                  \/ Top(t)
        PROVE  Claimed' = Claimed
    BY <2>3, <2>4 DEF PushBegin, PushCheck, PushRetry, PushStore, PopBegin, PopCheck, PopRetry,
                      PopLoad, Top, TopBegin, TopCheck, TopLoad, Begin, Return
  <2>5. CASE UNCHANGED vars
    BY <2>3, <2>5 DEF vars
  <2>. QED
    BY <2>1, <2>2, <2>4, <2>5 DEF Next, Push, Pop, Threads, Abstract!Next
<1>. QED
  <2>1. Spec => []RingInv
    BY RingTheorem
  <2>. QED BY <1>1, <1>2, <2>1, PTL DEF Spec, ClaimsAreFifo, Abstract!Spec, Claimed
=============================================================================
