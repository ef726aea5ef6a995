------------------------- MODULE Connections_proofs -------------------------
(***************************************************************************)
(* Theorems about module Connections: for any objects on any threads, any  *)
(* callers inside or outside the pool, and any number of operations.       *)
(***************************************************************************)
EXTENDS Connections, FiniteSetTheorems, TLAPS

Calls == [conn : Made, asked : Emissions, seen : 0 .. MaxCalls, thread : Threads, stray : BOOLEAN]

Typed ==
  /\ affinity \in [Objects -> Threads]
  /\ outputs \subseteq Made /\ inputs \subseteq Made /\ held \subseteq Made
  /\ para \in [Numbers -> 0 .. MaxCalls]
  /\ queue \in [Threads -> Seq(Items)]
  /\ hand \in [Threads -> Hands \union {None}]
  /\ emitting \in [Threads -> Walks \union {None}]
  /\ op \in [Callers -> Operations \union {None}]
  /\ \A k \in Callers : op[k] # None /\ op[k].what # "disconnect" => op[k].conn \in Made
  /\ owned \subseteq Objects /\ gone \subseteq Objects
  /\ calls \in 0 .. MaxCalls /\ others \in Nat
  /\ log \in Seq(Calls)

-----------------------------------------------------------------------------
LEMMA ThreadsExist == \E t \in Threads : TRUE
<1>1. SUFFICES ASSUME Threads = {} PROVE FALSE
  OBVIOUS
<1>2. Cardinality({}) = 0
  BY FS_EmptySet
<1>. QED BY <1>1, <1>2, ThreadsAssumption

(* Erasing shrinks the senders' maps and what emissions have left.         *)
Shrinks(walks, f) ==
  /\ f \in [Threads -> Walks \union {None}]
  /\ \A t \in Threads :
       \/ walks[t] = None /\ f[t] = None
       \/ /\ walks[t] # None /\ f[t] # None
          /\ f[t].src = walks[t].src /\ f[t].emission = walks[t].emission
          /\ f[t].stray = walks[t].stray /\ f[t].left \subseteq walks[t].left

LEMMA AfterShrinks ==
  ASSUME NEW walks \in [Threads -> Walks \union {None}], NEW erased, NEW f \in After(walks, erased)
  PROVE  Shrinks(walks, f)
<1>1. f = [t \in Threads |-> f[t]]
  BY DEF After
<1>2. ASSUME NEW t \in Threads, walks[t] # None
      PROVE  /\ f[t] \in Walks /\ f[t] # None
             /\ f[t].src = walks[t].src /\ f[t].emission = walks[t].emission
             /\ f[t].stray = walks[t].stray /\ f[t].left \subseteq walks[t].left
  <2>1. f[t] \in {[walks[t] EXCEPT !.left = left] : left \in Disturbed(walks[t].left, erased)}
    BY <1>2 DEF After
  <2>2. Disturbed(walks[t].left, erased) \subseteq SUBSET walks[t].left
    BY DEF Disturbed
  <2>3. PICK left \in SUBSET walks[t].left : f[t] = [walks[t] EXCEPT !.left = left]
    BY <2>1, <2>2
  <2>4. walks[t] \in Walks
    BY <1>2
  <2>5. f[t] = [src |-> walks[t].src, emission |-> walks[t].emission, left |-> left, stray |-> walks[t].stray]
    BY <2>3, <2>4 DEF Walks
  <2>6. f[t] \in Walks
    BY <2>4, <2>5 DEF Walks
  <2>. QED BY <2>5, <2>6, NoneAssumption
<1>3. \A t \in Threads : walks[t] = None => f[t] = None
  BY DEF After
<1>4. f \in [Threads -> Walks \union {None}]
  BY <1>1, <1>2, <1>3
<1>. QED BY <1>2, <1>3, <1>4 DEF Shrinks

LEMMA EraseShrinks ==
  ASSUME Typed, NEW erased, Erase(erased)
  PROVE  outputs' = outputs \ erased /\ Shrinks(emitting, emitting')
BY AfterShrinks DEF Erase, Typed

-----------------------------------------------------------------------------
(* The steps and their types                                               *)

LEMMA NewConnection ==
  ASSUME Typed, calls < MaxCalls, NEW s \in Objects, NEW r \in Objects,
         NEW type \in {"Direct", "Auto", "Queued"}, NEW slot \in {"method", "lambda", "once"}
  PROVE  /\ Connection(calls + 1, s, r, type, slot) \in Made
         /\ Connection(0, s, r, type, slot) \in Connected
<1>1. calls + 1 \in Numbers /\ Numbers \subseteq 0 .. MaxCalls /\ 0 \in 0 .. MaxCalls
  BY MaxCallsAssumption DEF Typed, Numbers
<1>. QED BY <1>1 DEF Connection, Connected, Made

(* Whoever begins an operation has its first part in op.                   *)
LEMMA HopsTyped ==
  ASSUME Typed, NEW k \in Callers, NEW what \in {"connect", "disconnect", "unhold"},
         NEW conn \in Connected, what # "disconnect" => conn \in Made, Hops(k, what, conn)
  PROVE  /\ op' \in [Callers -> Operations \union {None}]
         /\ \A j \in Callers : op'[j] # None /\ op'[j].what # "disconnect" => op'[j].conn \in Made
         /\ calls' \in 0 .. MaxCalls
<1>. DEFINE new == [what |-> what, part |-> "sender", conn |-> conn, posted |-> FALSE]
<1>1. new \in Operations
  BY DEF Operations
<1>2. op' = [op EXCEPT ![k] = new] /\ calls < MaxCalls /\ calls' = calls + 1
  BY DEF Hops, Begin, Call
<1>3. new.what = what /\ new.conn = conn
  OBVIOUS
<1>. HIDE DEF new
<1>. QED BY <1>1, <1>2, <1>3, MaxCallsAssumption DEF Typed

LEMMA OperationTyped ==
  ASSUME Typed, NEW k \in Callers, Operation(k)
  PROVE  Typed'
<1>1. CASE \E c \in held : DisconnectHolder(k, c)
  <2>1. PICK c \in held : DisconnectHolder(k, c)
    BY <1>1
  <2>2. c \in Made /\ c \in Connected
    BY DEF Typed, Made
  <2>3. Hops(k, "unhold", c)
    BY <2>1 DEF DisconnectHolder
  <2>. QED BY <2>1, <2>2, <2>3, HopsTyped DEF Typed, DisconnectHolder, Hops, objects, maps, pool
<1>2. ASSUME NEW s \in Objects, NEW type \in Types, ConnectLambda(k, s, type)
      PROVE  Typed'
  <2>1. Connection(calls + 1, s, s, type, "lambda") \in Made /\ Connection(calls + 1, s, s, type, "lambda") \in Connected
    BY <1>2, NewConnection, TypesAssumption DEF ConnectLambda, Hops, Call, Made
  <2>. QED BY <1>2, <2>1, HopsTyped DEF Typed, ConnectLambda, Hops, objects, maps, pool
<1>3. ASSUME NEW s \in Objects, Await(k, s)
      PROVE  Typed'
  <2>1. Connection(calls + 1, s, s, "Auto", "once") \in Made /\ Connection(calls + 1, s, s, "Auto", "once") \in Connected
    BY <1>3, NewConnection DEF Await, Hops, Call, Made
  <2>. QED BY <1>3, <2>1, HopsTyped DEF Typed, Await, Hops, objects, maps, pool
<1>4. ASSUME NEW s \in Objects, Emit(k, s)
      PROVE  Typed'
  <2>1. calls < MaxCalls /\ calls' = calls + 1 /\ calls' \in Numbers /\ calls' \in 0 .. MaxCalls
    BY <1>4, MaxCallsAssumption DEF Emit, Call, Typed, Numbers
  <2>2. Emission(calls', k) \in Emissions
    BY <2>1 DEF Emission, Emissions
  <2>3. From(s) \subseteq Made
    BY DEF From, Typed
  <2>4. Walk(s, Emission(calls', k), FALSE) \in Walks
    BY <2>2, <2>3 DEF Walk, Walks
  <2>5. [run |-> "emit", src |-> s, emission |-> Emission(calls', k)] \in Items
    BY <2>2 DEF Items
  <2>6. queue' \in [Threads -> Seq(Items)] /\ emitting' \in [Threads -> Walks \union {None}]
    <3>. DEFINE walk == Walk(s, Emission(calls', k), FALSE)
                item == [run |-> "emit", src |-> s, emission |-> Emission(calls', k)]
    <3>1. walk \in Walks /\ item \in Items
      BY <2>4, <2>5
    <3>2. \/ emitting' = [emitting EXCEPT ![Home[k]] = walk] /\ queue' = queue
          \/ queue' = [queue EXCEPT ![affinity[s]] = Append(@, item)] /\ emitting' = emitting
      BY <1>4 DEF Emit
    <3>. HIDE DEF walk, item
    <3>3. affinity[s] \in Threads /\ queue[affinity[s]] \in Seq(Items)
      BY DEF Typed
    <3>4. Append(queue[affinity[s]], item) \in Seq(Items)
      BY <3>1, <3>3
    <3>5. queue \in [Threads -> Seq(Items)] /\ emitting \in [Threads -> Walks \union {None}]
      BY DEF Typed
    <3>. QED BY <3>1, <3>2, <3>3, <3>4, <3>5
  <2>. QED BY <1>4, <2>1, <2>6 DEF Emit, Typed, objects, maps
<1>5. ASSUME NEW s \in Objects, NEW r \in Objects, NEW type \in Types, Connect(k, s, r, type)
      PROVE  Typed'
  <2>1. Connection(calls + 1, s, r, type, "method") \in Made /\ Connection(calls + 1, s, r, type, "method") \in Connected
    BY <1>5, NewConnection, TypesAssumption DEF Connect, Hops, Call, Made
  <2>. QED BY <1>5, <2>1, HopsTyped DEF Typed, Connect, Hops, objects, maps, pool
<1>6. ASSUME NEW s \in Objects, NEW r \in Objects, Disconnect(k, s, r)
      PROVE  Typed'
  <2>1. Connection(0, s, r, "Auto", "method") \in Connected
    BY <1>6, NewConnection DEF Disconnect, Hops, Call
  <2>. QED BY <1>6, <2>1, HopsTyped DEF Typed, Disconnect, Hops, objects, maps, pool
<1>7. \A p \in Pairs : p[1] \in Objects /\ p[2] \in Objects
  BY PairsAssumption
<1>. QED BY <1>1, <1>2, <1>3, <1>4, <1>5, <1>6, <1>7 DEF Operation

(* The operation of k in its part, spelled out.                            *)
LEMMA OpIs ==
  ASSUME Typed, NEW k \in Callers, op[k] # None
  PROVE  /\ op[k] \in Operations
         /\ op[k] = [what |-> op[k].what, part |-> op[k].part, conn |-> op[k].conn, posted |-> op[k].posted]
         /\ op[k].conn \in Connected
<1>1. op[k] \in Operations
  BY DEF Typed
<1>. QED BY <1>1 DEF Operations

(* A part erases some connections of the sender's map, or changes only the *)
(* maps; the operation ends or goes to its receiver's part.                *)
LEMMA PartTyped ==
  ASSUME Typed, NEW k \in Callers, op[k] # None, Part(k)
  PROVE  /\ outputs' \subseteq Made /\ inputs' \subseteq Made /\ held' \subseteq Made
         /\ emitting' \in [Threads -> Walks \union {None}]
         /\ op' \in [Callers -> Operations \union {None}]
         /\ \A j \in Callers : op'[j] # None /\ op'[j].what # "disconnect" => op'[j].conn \in Made
         /\ UNCHANGED << objects, para, calls, log >>
<1>. DEFINE c == op[k].conn
<1>1. c \in Connected
  BY OpIs
<1>2. ASSUME NEW d \in Connected, d \in Made \/ op[k].what = "disconnect",
             Proceed(k, d)
      PROVE  /\ op' \in [Callers -> Operations \union {None}]
             /\ \A j \in Callers : op'[j] # None /\ op'[j].what # "disconnect" => op'[j].conn \in Made
  <2>. DEFINE new == [what |-> op[k].what, part |-> "receiver", conn |-> d, posted |-> FALSE]
  <2>1. op' = [op EXCEPT ![k] = new]
    BY <1>2 DEF Proceed
  <2>2. new \in Operations /\ new.what = op[k].what /\ new.conn = d
    BY OpIs DEF Operations
  <2>. HIDE DEF new
  <2>. QED BY <1>2, <2>1, <2>2 DEF Typed
<1>3. ASSUME Finish(k)
      PROVE  /\ op' \in [Callers -> Operations \union {None}]
             /\ \A j \in Callers : op'[j] # None /\ op'[j].what # "disconnect" => op'[j].conn \in Made
  BY <1>3 DEF Finish, Typed
<1>4. ASSUME At(k, "connect", "sender"), ConnectSender(k, c)
      PROVE  /\ outputs' \subseteq Made /\ inputs' \subseteq Made /\ held' \subseteq Made
             /\ emitting' = emitting
             /\ Finish(k) \/ Proceed(k, c)
             /\ c \in Made
  <2>1. c \in Made
    BY <1>4 DEF At, Typed
  <2>. HIDE DEF c
  <2>. QED BY <1>4, <2>1 DEF ConnectSender, Typed, maps
<1>5. ASSUME At(k, "connect", "receiver"), ConnectReceiver(k, c)
      PROVE  /\ outputs' \subseteq Made /\ inputs' \subseteq Made /\ held' \subseteq Made
             /\ emitting' = emitting
             /\ Finish(k)
  <2>1. c \in Made
    BY <1>5 DEF At, Typed
  <2>. HIDE DEF c
  <2>. QED BY <1>5, <2>1 DEF ConnectReceiver, Typed
<1>6. ASSUME At(k, "disconnect", "sender"), DisconnectSender(k, c)
      PROVE  /\ outputs' \subseteq Made /\ inputs' \subseteq Made /\ held' \subseteq Made
             /\ emitting' \in [Threads -> Walks \union {None}]
             /\ \E d \in Connected : Proceed(k, d)
  <2>1. CASE \E d \in outputs : Same(c, d)
    <3>1. PICK d \in outputs : Erase({d}) /\ Proceed(k, d) /\ UNCHANGED << inputs, held >>
      BY <1>6, <2>1 DEF DisconnectSender
    <3>2. outputs' \subseteq outputs /\ emitting' \in [Threads -> Walks \union {None}]
      BY <3>1, EraseShrinks DEF Shrinks
    <3>. QED BY <3>1, <3>2 DEF Typed, Made
  <2>2. CASE ~ \E d \in outputs : Same(c, d)
    BY <1>1, <1>6, <2>2 DEF DisconnectSender, Typed
  <2>. QED BY <2>1, <2>2
<1>7. ASSUME At(k, "disconnect", "receiver"), DisconnectReceiver(k, c)
      PROVE  /\ outputs' \subseteq Made /\ inputs' \subseteq Made /\ held' \subseteq Made
             /\ emitting' = emitting
             /\ Finish(k)
  BY <1>7 DEF DisconnectReceiver, Typed
<1>8. ASSUME At(k, "unhold", "sender"), ReleaseHolder(k, c)
      PROVE  /\ outputs' \subseteq Made /\ inputs' \subseteq Made /\ held' \subseteq Made
             /\ emitting' \in [Threads -> Walks \union {None}]
             /\ Finish(k)
  <2>1. PICK e : Erase(e) /\ Finish(k) /\ UNCHANGED << inputs, held >>
    BY <1>8 DEF ReleaseHolder
  <2>. QED BY <2>1, EraseShrinks DEF Typed, Shrinks
<1>9. emitting \in [Threads -> Walks \union {None}] /\ UNCHANGED << objects, para, calls, log >>
  BY DEF Typed, Part
<1>10. At(k, "disconnect", "sender") => op[k].what = "disconnect"
  BY DEF At
<1>. HIDE DEF c
<1>. QED BY <1>1, <1>2, <1>3, <1>4, <1>5, <1>6, <1>7, <1>8, <1>9, <1>10 DEF Part, c

-----------------------------------------------------------------------------
(* What is posted and taken                                                *)

LEMMA ItemIs ==
  ASSUME NEW x \in Items
  PROVE  /\ x.run \in {"emit", "part", "slot", "other"}
         /\ x.run = "emit" => x.src \in Objects /\ x.emission \in Emissions
         /\ x.run = "part" => x.caller \in Callers
         /\ x.run = "slot" => x.conn \in Made /\ x.asked \in Emissions /\ x.stray \in BOOLEAN
BY DEF Items

LEMMA NewItems ==
  /\ [run |-> "other"] \in Items
  /\ \A k \in Callers : [run |-> "part", caller |-> k] \in Items
  /\ \A s \in Objects, e \in Emissions : [run |-> "emit", src |-> s, emission |-> e] \in Items
  /\ \A c \in Made, e \in Emissions, stray \in BOOLEAN :
       [run |-> "slot", conn |-> c, asked |-> e, stray |-> stray] \in Items
<1>1. [run |-> "other"] \in Items
  BY DEF Items
<1>2. ASSUME NEW k \in Callers
      PROVE  [run |-> "part", caller |-> k] \in Items
  BY DEF Items
<1>3. ASSUME NEW s \in Objects, NEW e \in Emissions
      PROVE  [run |-> "emit", src |-> s, emission |-> e] \in Items
  BY DEF Items
<1>4. ASSUME NEW c \in Made, NEW e \in Emissions, NEW stray \in BOOLEAN
      PROVE  [run |-> "slot", conn |-> c, asked |-> e, stray |-> stray] \in Items
  BY DEF Items
<1>. QED BY <1>1, <1>2, <1>3, <1>4

Pops(t) == queue[t] # << >> /\ queue' = [queue EXCEPT ![t] = Tail(@)]
Pushes(t, x) == queue' = [queue EXCEPT ![t] = Append(@, x)] /\ hand' = hand

(* The first entry of t is taken, the others move up.                      *)
LEMMA PopShifts ==
  ASSUME Typed, NEW t \in Threads, Pops(t)
  PROVE  /\ queue' \in [Threads -> Seq(Items)]
         /\ Len(queue[t]) \in Nat /\ 1 \in 1 .. Len(queue[t])
         /\ Head(queue[t]) \in Items /\ Head(queue[t]) = queue[t][1]
         /\ \A u \in Threads, i \in Nat :
              i \in 1 .. Len(queue'[u]) =>
                IF u = t THEN i + 1 \in 1 .. Len(queue[u]) /\ queue'[u][i] = queue[u][i + 1]
                ELSE i \in 1 .. Len(queue[u]) /\ queue'[u][i] = queue[u][i]
<1>1. queue \in [Threads -> Seq(Items)] /\ queue[t] \in Seq(Items) /\ queue[t] # << >>
  BY DEF Typed, Pops
<1>2. /\ Tail(queue[t]) \in Seq(Items) /\ Len(Tail(queue[t])) = Len(queue[t]) - 1
      /\ Len(queue[t]) \in Nat /\ Len(queue[t]) >= 1
      /\ Head(queue[t]) \in Items /\ Head(queue[t]) = queue[t][1]
      /\ \A i \in 1 .. Len(queue[t]) - 1 : Tail(queue[t])[i] = queue[t][i + 1]
  BY <1>1
<1>3. queue' = [u \in Threads |-> IF u = t THEN Tail(queue[t]) ELSE queue[u]]
  BY <1>1 DEF Pops
<1>4. queue' \in [Threads -> Seq(Items)]
  BY <1>1, <1>2, <1>3
<1>5. ASSUME NEW u \in Threads, NEW i \in Nat, i \in 1 .. Len(queue'[u])
      PROVE  IF u = t THEN i + 1 \in 1 .. Len(queue[u]) /\ queue'[u][i] = queue[u][i + 1]
             ELSE i \in 1 .. Len(queue[u]) /\ queue'[u][i] = queue[u][i]
  BY <1>2, <1>3, <1>5
<1>. QED BY <1>2, <1>4, <1>5

(* The last entry of t is new, the others stay.                            *)
LEMMA PushKeeps ==
  ASSUME Typed, NEW t \in Threads, NEW x \in Items, Pushes(t, x)
  PROVE  /\ queue' \in [Threads -> Seq(Items)]
         /\ \A u \in Threads, i \in Nat :
              i \in 1 .. Len(queue'[u]) =>
                \/ i \in 1 .. Len(queue[u]) /\ queue'[u][i] = queue[u][i]
                \/ /\ u = t /\ queue'[u][i] = x
                   /\ Len(queue[u]) \in Nat /\ i = Len(queue[u]) + 1
<1>1. queue \in [Threads -> Seq(Items)] /\ queue[t] \in Seq(Items)
  BY DEF Typed
<1>2. /\ Append(queue[t], x) \in Seq(Items) /\ Len(Append(queue[t], x)) = Len(queue[t]) + 1
      /\ Len(queue[t]) \in Nat
      /\ \A i \in 1 .. Len(queue[t]) : Append(queue[t], x)[i] = queue[t][i]
      /\ Append(queue[t], x)[Len(queue[t]) + 1] = x
  BY <1>1
<1>3. queue' = [u \in Threads |-> IF u = t THEN Append(queue[t], x) ELSE queue[u]]
  BY <1>1 DEF Pushes
<1>4. queue' \in [Threads -> Seq(Items)]
  BY <1>1, <1>2, <1>3
<1>5. ASSUME NEW u \in Threads, NEW i \in Nat, i \in 1 .. Len(queue'[u])
      PROVE  \/ i \in 1 .. Len(queue[u]) /\ queue'[u][i] = queue[u][i]
             \/ u = t /\ queue'[u][i] = x /\ Len(queue[u]) \in Nat /\ i = Len(queue[u]) + 1
  BY <1>2, <1>3, <1>5
<1>. QED BY <1>4, <1>5

(* Place 0 of a thread is its hand, the others are those of its queue.     *)
Has(t, i) == IF i = 0 THEN hand[t] # None /\ hand[t].item # None ELSE i \in 1 .. Len(queue[t])
Item(t, i) == IF i = 0 THEN hand[t].item ELSE queue[t][i]

LEMMA HandIs ==
  ASSUME Typed, NEW t \in Threads, hand[t] # None
  PROVE  /\ hand[t].from \in Threads /\ hand[t].item \in Items \union {None}
         /\ hand[t] = [from |-> hand[t].from, item |-> hand[t].item]
<1>1. hand[t] \in Hands
  BY DEF Typed
<1>. QED BY <1>1 DEF Hands

LEMMA ItemTyped ==
  ASSUME Typed, NEW t \in Threads, NEW i \in Nat, Has(t, i)
  PROVE  Item(t, i) \in Items
<1>1. CASE i = 0
  BY <1>1, HandIs DEF Has, Item
<1>2. CASE i # 0
  <2>1. queue[t] \in Seq(Items) /\ i \in 1 .. Len(queue[t])
    BY <1>2 DEF Typed, Has
  <2>. QED BY <1>2, <2>1 DEF Item
<1>. QED BY <1>1, <1>2

(* The four ways a step changes what is posted and taken.                  *)
Stays == queue' = queue /\ hand' = hand
Takes(t, u) == ~ Has(t, 0) /\ Hold(t, u)
Empties(t) ==
  queue' = queue /\ \/ hand' = [hand EXCEPT ![t] = None]
                    \/ \E u \in Threads : hand' = [hand EXCEPT ![t] = [from |-> u, item |-> None]]

LEMMA StaysPlaces ==
  ASSUME Stays, NEW v \in Threads, NEW i \in Nat
  PROVE  Has(v, i)' <=> Has(v, i) /\ Item(v, i)' = Item(v, i) /\ hand'[v] = hand[v]
BY DEF Stays, Has, Item

LEMMA PushPlaces ==
  ASSUME Typed, NEW t \in Threads, NEW x \in Items, Pushes(t, x)
  PROVE  /\ queue' \in [Threads -> Seq(Items)] /\ hand' = hand
         /\ \A v \in Threads, i \in Nat : Has(v, i)' =>
              \/ Has(v, i) /\ Item(v, i)' = Item(v, i)
              \/ v = t /\ Item(v, i)' = x /\ i # 0 /\ Len(queue[v]) \in Nat /\ i = Len(queue[v]) + 1
<1>1. hand' = hand
  BY DEF Pushes
<1>2. ASSUME NEW v \in Threads, NEW i \in Nat, Has(v, i)'
      PROVE  \/ Has(v, i) /\ Item(v, i)' = Item(v, i)
             \/ v = t /\ Item(v, i)' = x /\ i # 0 /\ Len(queue[v]) \in Nat /\ i = Len(queue[v]) + 1
  <2>1. CASE i = 0
    BY <1>1, <1>2, <2>1 DEF Has, Item
  <2>2. CASE i # 0
    <3>1. i \in 1 .. Len(queue'[v]) /\ Item(v, i)' = queue'[v][i]
      BY <1>2, <2>2 DEF Has, Item
    <3>2. \/ i \in 1 .. Len(queue[v]) /\ queue'[v][i] = queue[v][i]
          \/ v = t /\ queue'[v][i] = x /\ Len(queue[v]) \in Nat /\ i = Len(queue[v]) + 1
      BY <3>1, PushKeeps
    <3>. QED BY <2>2, <3>1, <3>2 DEF Has, Item
  <2>. QED BY <2>1, <2>2
<1>. QED BY <1>1, <1>2, PushKeeps

LEMMA TakeIs ==
  ASSUME Typed, NEW t \in Threads, NEW u \in Threads, Takes(t, u)
  PROVE  /\ queue' \in [Threads -> Seq(Items)] /\ hand' \in [Threads -> Hands \union {None}]
         /\ hand'[t] # None /\ hand'[t].from = u
         /\ \A v \in Threads : v # t => hand'[v] = hand[v]
         /\ Has(u, 1)
         /\ \A v \in Threads, i \in Nat : Has(v, i)' =>
              \/ v = t /\ i = 0 /\ Item(v, i)' = Item(u, 1)
              \/ v = u /\ i # 0 /\ Has(u, i + 1) /\ Item(v, i)' = Item(u, i + 1)
              \/ ~ (v = t /\ i = 0) /\ ~ (v = u /\ i # 0) /\ Has(v, i) /\ Item(v, i)' = Item(v, i)
<1>. DEFINE x == Head(queue[u])
            new == [from |-> u, item |-> x]
<1>1. Pops(u) /\ hand' = [hand EXCEPT ![t] = new]
  BY DEF Takes, Hold, Pops
<1>2. /\ queue' \in [Threads -> Seq(Items)]
      /\ 1 \in 1 .. Len(queue[u]) /\ x \in Items /\ x = queue[u][1]
  BY <1>1, PopShifts
<1>3. new \in Hands /\ new.from = u /\ new.item = x /\ new # None
  BY <1>2, NoneAssumption DEF Hands
<1>4. Has(u, 1) /\ Item(u, 1) = x
  BY <1>2 DEF Has, Item
<1>5. hand \in [Threads -> Hands \union {None}]
  BY DEF Typed
<1>. HIDE DEF x, new
<1>6. /\ hand' \in [Threads -> Hands \union {None}] /\ hand'[t] = new
      /\ \A v \in Threads : v # t => hand'[v] = hand[v]
  BY <1>1, <1>3, <1>5
<1>7. ASSUME NEW v \in Threads, NEW i \in Nat, Has(v, i)'
      PROVE  \/ v = t /\ i = 0 /\ Item(v, i)' = Item(u, 1)
             \/ v = u /\ i # 0 /\ Has(u, i + 1) /\ Item(v, i)' = Item(u, i + 1)
             \/ ~ (v = t /\ i = 0) /\ ~ (v = u /\ i # 0) /\ Has(v, i) /\ Item(v, i)' = Item(v, i)
  <2>1. CASE i = 0
    BY <1>3, <1>4, <1>6, <1>7, <2>1 DEF Has, Item
  <2>2. CASE i # 0
    <3>1. i \in 1 .. Len(queue'[v]) /\ Item(v, i)' = queue'[v][i] /\ i + 1 # 0
      BY <1>7, <2>2 DEF Has, Item
    <3>2. IF v = u THEN i + 1 \in 1 .. Len(queue[v]) /\ queue'[v][i] = queue[v][i + 1]
          ELSE i \in 1 .. Len(queue[v]) /\ queue'[v][i] = queue[v][i]
      BY <1>1, <3>1, PopShifts
    <3>. QED BY <2>2, <3>1, <3>2 DEF Has, Item
  <2>. QED BY <2>1, <2>2
<1>. QED BY <1>2, <1>3, <1>4, <1>6, <1>7

LEMMA TakePlaces ==
  ASSUME Typed, NEW t \in Threads, NEW u \in Threads, Takes(t, u), NEW v \in Threads, NEW i \in Nat, Has(v, i)'
  PROVE  /\ Has(u, 1)
         /\ \/ v = t /\ i = 0 /\ Item(v, i)' = Item(u, 1)
            \/ v = u /\ i # 0 /\ Has(u, i + 1) /\ Item(v, i)' = Item(u, i + 1)
            \/ ~ (v = t /\ i = 0) /\ ~ (v = u /\ i # 0) /\ Has(v, i) /\ Item(v, i)' = Item(v, i)
BY TakeIs

LEMMA EmptyPlaces ==
  ASSUME Typed, NEW t \in Threads, Empties(t)
  PROVE  /\ queue' = queue /\ hand' \in [Threads -> Hands \union {None}]
         /\ ~ Has(t, 0)'
         /\ \A v \in Threads : v # t => hand'[v] = hand[v]
         /\ \A v \in Threads, i \in Nat : Has(v, i)' => Has(v, i) /\ Item(v, i)' = Item(v, i)
<1>1. hand \in [Threads -> Hands \union {None}]
  BY DEF Typed
<1>2. PICK new \in Hands \union {None} :
        hand' = [hand EXCEPT ![t] = new] /\ (new # None => new.item = None)
  <2>1. \A u \in Threads : [from |-> u, item |-> None] \in Hands /\ [from |-> u, item |-> None].item = None
    BY DEF Hands
  <2>. QED BY <2>1 DEF Empties
<1>3. /\ hand' \in [Threads -> Hands \union {None}] /\ hand'[t] = new
      /\ \A v \in Threads : v # t => hand'[v] = hand[v]
  BY <1>1, <1>2
<1>4. queue' = queue
  BY DEF Empties
<1>5. ~ Has(t, 0)'
  BY <1>2, <1>3 DEF Has
<1>6. ASSUME NEW v \in Threads, NEW i \in Nat, Has(v, i)'
      PROVE  Has(v, i) /\ Item(v, i)' = Item(v, i)
  <2>1. CASE i = 0
    <3>1. v # t
      BY <1>5, <1>6, <2>1
    <3>. QED BY <1>3, <1>6, <2>1, <3>1 DEF Has, Item
  <2>2. CASE i # 0
    BY <1>4, <1>6, <2>2 DEF Has, Item
  <2>. QED BY <2>1, <2>2
<1>. QED BY <1>3, <1>4, <1>5, <1>6

(* A thread that begins what it has taken.                                 *)
LEMMA RunsIs ==
  ASSUME Typed, NEW t \in Threads, NEW what, Runs(t, what)
  PROVE  /\ Empties(t) /\ Has(t, 0) /\ Item(t, 0) = hand[t].item
         /\ hand[t].item \in Items /\ hand[t].item.run = what /\ others' = others
<1>1. hand[t] # None /\ hand[t].item # None /\ hand[t].item.run = what
  BY DEF Runs, Holds
<1>2. hand[t].item \in Items
  BY <1>1, HandIs
<1>3. Empties(t) /\ others' = others
  BY DEF Runs, Empties
<1>. QED BY <1>1, <1>2, <1>3 DEF Has, Item

(* The steps of a worker that do no more than take.                        *)
LEMMA TakingIs ==
  ASSUME Typed, NEW t \in Threads, Take(t) \/ Look(t) \/ Rob(t) \/ RunOther(t)
  PROVE  /\ (\E u \in Threads : Takes(t, u)) \/ Empties(t)
         /\ UNCHANGED << objects, maps, para, others, emitting, op, held, calls, log >>
<1>1. CASE Take(t)
  BY <1>1 DEF Take, Free, Takes, Has
<1>2. CASE Look(t)
  <2>1. Victims[t] \subseteq Threads
    BY VictimsAssumption
  <2>. QED BY <1>2, <2>1 DEF Look, Empties
<1>3. CASE Rob(t)
  <2>1. hand[t] # None /\ ~ Has(t, 0)
    BY <1>3 DEF Rob, Has
  <2>2. hand[t].from \in Threads
    BY <2>1, HandIs
  <2>. QED BY <1>3, <2>1, <2>2 DEF Rob, Takes, Empties
<1>4. CASE RunOther(t)
  <2>1. Runs(t, "other")
    BY <1>4 DEF RunOther
  <2>. QED BY <1>4, <2>1, RunsIs DEF RunOther
<1>. QED BY <1>1, <1>2, <1>3, <1>4

(* A part that is posted is an operation's that waits for it, once.        *)
PartAt(t, i) == Has(t, i) /\ Item(t, i).run = "part"

Waited ==
  /\ \A t \in Threads, i \in Nat : PartAt(t, i) =>
       op[Item(t, i).caller] # None /\ op[Item(t, i).caller].posted
  /\ \A t, u \in Threads, i, j \in Nat :
       PartAt(t, i) /\ PartAt(u, j) /\ Item(t, i).caller = Item(u, j).caller => t = u /\ i = j

LEMMA OwnerTyped ==
  ASSUME Typed, NEW k \in Callers, op[k] # None
  PROVE  Owner(op[k]) \in Threads
<1>1. op[k].conn \in Connected
  BY OpIs
<1>2. op[k].conn.src \in Objects /\ op[k].conn.dst \in Objects
  BY <1>1 DEF Connected
<1>. QED BY <1>2 DEF Owner, Typed

LEMMA RunPartTyped ==
  ASSUME Typed, Waited, NEW t \in Threads, RunPart(t)
  PROVE  /\ Typed'
         /\ Empties(t) /\ PartAt(t, 0) /\ Item(t, 0).caller \in Callers
         /\ op[Item(t, 0).caller] # None /\ Part(Item(t, 0).caller) /\ others' = others
<1>1. Runs(t, "part") /\ Part(hand[t].item.caller)
  BY DEF RunPart
<1>2. /\ Empties(t) /\ Has(t, 0) /\ Item(t, 0) = hand[t].item
      /\ Item(t, 0) \in Items /\ Item(t, 0).run = "part" /\ others' = others
  BY <1>1, RunsIs
<1>. DEFINE k == Item(t, 0).caller
<1>3. k \in Callers /\ op[k] # None /\ Part(k)
  BY <1>1, <1>2, ItemIs DEF Waited, PartAt
<1>. HIDE DEF k
<1>4. queue' = queue /\ hand' \in [Threads -> Hands \union {None}]
  BY <1>2, EmptyPlaces
<1>5. Typed'
  BY <1>2, <1>3, <1>4, PartTyped DEF Typed, objects
<1>. QED BY <1>2, <1>3, <1>5 DEF k, PartAt

LEMMA PostPartIs ==
  ASSUME Typed, NEW k \in Callers, PostPart(k)
  PROVE  /\ op[k] # None /\ ~ op[k].posted
         /\ \E t \in Threads : Pushes(t, [run |-> "part", caller |-> k])
         /\ UNCHANGED << objects, maps, para, others, emitting, held, calls, log >>
         /\ op'[k] \in Operations /\ op'[k] # None /\ op'[k].posted
         /\ op'[k].what = op[k].what /\ op'[k].part = op[k].part /\ op'[k].conn = op[k].conn
         /\ op' = [op EXCEPT ![k] = op'[k]] /\ \A j \in Callers : j # k => op'[j] = op[j]
<1>1. op[k] # None /\ ~ op[k].posted
  BY DEF PostPart
<1>2. Routes(k) \subseteq Threads
  BY <1>1, OwnerTyped DEF Routes
<1>3. \E t \in Threads : Pushes(t, [run |-> "part", caller |-> k])
  BY <1>2 DEF PostPart, Pushes
<1>. DEFINE new == [op[k] EXCEPT !.posted = TRUE]
<1>4. op[k] \in Operations
  BY <1>1, OpIs
<1>5. new \in Operations /\ new.posted /\ new.what = op[k].what /\ new.part = op[k].part /\ new.conn = op[k].conn
  BY <1>4 DEF Operations
<1>6. op' = [op EXCEPT ![k] = new] /\ UNCHANGED << objects, maps, para, others, emitting, held, calls, log >>
  BY DEF PostPart
<1>7. new # None
  BY <1>5, NoneAssumption
<1>. HIDE DEF new
<1>8. op'[k] = new /\ \A j \in Callers : j # k => op'[j] = op[j]
  BY <1>6 DEF Typed
<1>. QED BY <1>1, <1>3, <1>5, <1>6, <1>7, <1>8

LEMMA CallerTyped ==
  ASSUME Typed, NEW k \in Callers, Caller(k)
  PROVE  Typed' /\ op[k] # None /\ ~ op[k].posted
<1>1. CASE InlinePart(k)
  BY <1>1, PartTyped DEF InlinePart, Typed, objects, pool
<1>2. CASE PostPart(k)
  <2>1. PICK t \in Threads : Pushes(t, [run |-> "part", caller |-> k])
    BY <1>2, PostPartIs
  <2>2. queue' \in [Threads -> Seq(Items)] /\ hand' = hand
    BY <2>1, NewItems, PushPlaces
  <2>3. /\ UNCHANGED << objects, maps, para, others, emitting, held, calls, log >>
        /\ op'[k] \in Operations /\ op'[k].what = op[k].what /\ op'[k].conn = op[k].conn
        /\ op[k] # None /\ ~ op[k].posted
        /\ op' = [op EXCEPT ![k] = op'[k]] /\ \A j \in Callers : j # k => op'[j] = op[j]
    BY <1>2, PostPartIs
  <2>4. op' \in [Callers -> Operations \union {None}]
    BY <2>3 DEF Typed
  <2>5. \A j \in Callers : op'[j] # None /\ op'[j].what # "disconnect" => op'[j].conn \in Made
    BY <2>3 DEF Typed
  <2>. QED BY <2>2, <2>3, <2>4, <2>5 DEF Typed, objects, maps
<1>. QED BY <1>1, <1>2 DEF Caller

LEMMA WalkIs ==
  ASSUME Typed, NEW t \in Threads, emitting[t] # None
  PROVE  /\ emitting[t] \in Walks /\ emitting[t].src \in Objects /\ emitting[t].emission \in Emissions
         /\ emitting[t].left \subseteq Made /\ emitting[t].stray \in BOOLEAN
<1>1. emitting[t] \in Walks
  BY DEF Typed
<1>. QED BY <1>1 DEF Walks

(* A walk with fewer connections left.                                     *)
LEMMA LeftShrinks ==
  ASSUME Typed, NEW t \in Threads, emitting[t] # None, NEW c,
         NEW walks, walks = [emitting EXCEPT ![t].left = @ \ {c}]
  PROVE  Shrinks(emitting, walks) /\ walks[t].left = emitting[t].left \ {c}
<1>. DEFINE new == [emitting[t] EXCEPT !.left = @ \ {c}]
<1>1. emitting[t] \in Walks
  BY WalkIs
<1>2. /\ new \in Walks /\ new.left = emitting[t].left \ {c} /\ new.stray = emitting[t].stray
      /\ new.src = emitting[t].src /\ new.emission = emitting[t].emission
  BY <1>1 DEF Walks
<1>3. walks = [emitting EXCEPT ![t] = new]
  OBVIOUS
<1>4. new # None
  BY <1>2, NoneAssumption
<1>5. emitting \in [Threads -> Walks \union {None}]
  BY DEF Typed
<1>. HIDE DEF new
<1>6. walks \in [Threads -> Walks \union {None}] /\ walks[t] = new /\ \A u \in Threads : u # t => walks[u] = emitting[u]
  BY <1>2, <1>3, <1>5
<1>. QED BY <1>2, <1>4, <1>6 DEF Shrinks

LEMMA ShrinksFurther ==
  ASSUME NEW f, NEW g, NEW h, Shrinks(f, g), Shrinks(g, h)
  PROVE  Shrinks(f, h) /\ \A t \in Threads : f[t] # None => h[t].left \subseteq g[t].left
<1>1. ASSUME NEW t \in Threads
      PROVE  \/ f[t] = None /\ h[t] = None
             \/ /\ f[t] # None /\ h[t] # None
                /\ h[t].src = f[t].src /\ h[t].emission = f[t].emission
                /\ h[t].stray = f[t].stray /\ h[t].left \subseteq f[t].left /\ h[t].left \subseteq g[t].left
  BY DEF Shrinks
<1>. QED BY <1>1 DEF Shrinks

(* What CallSlot does with a connection: its slot runs, is posted, or is   *)
(* not called.                                                             *)
SlotItem(c, e, stray) == [run |-> "slot", conn |-> c, asked |-> e, stray |-> stray]

CallsSlot(t, c) ==
  LET e == emitting[t].emission
      stray == emitting[t].stray
  IN
  \/ ~ Referenced(c.dst) /\ log' = log /\ Stays
  \/ /\ Referenced(c.dst) /\ Inline(c)
     /\ log' = Append(log, SlotCall(c, e, e.number, t, stray)) /\ Stays
  \/ /\ Referenced(c.dst) /\ ~ Inline(c)
     /\ \E u \in SlotRoutes(c, t) : Pushes(u, SlotItem(c, e, stray))
     /\ log' = log

LEMMA CallSlotIs ==
  ASSUME Typed, NEW t \in Threads, CallSlot(t)
  PROVE  /\ emitting[t] # None
         /\ \E c \in emitting[t].left :
              /\ para' = [para EXCEPT ![c.id] = emitting[t].emission.number]
              /\ CallsSlot(t, c)
              /\ outputs' \subseteq outputs
              /\ Shrinks(emitting, emitting')
              /\ emitting'[t] # None /\ emitting'[t].left \subseteq emitting[t].left \ {c}
         /\ UNCHANGED << objects, inputs, others, op, held, calls >>
<1>1. emitting[t] # None /\ UNCHANGED << objects, inputs, others, op, held, calls >> /\ hand' = hand
  BY DEF CallSlot
<1>. DEFINE walks(c) == [emitting EXCEPT ![t].left = @ \ {c}]
<1>2. PICK c \in emitting[t].left :
         /\ para' = [para EXCEPT ![c.id] = emitting[t].emission.number]
         /\ CallsSlot(t, c)
         /\ IF c.slot = "once" /\ Removable(c) # {}
            THEN \E d \in Removable(c) : outputs' = outputs \ {d} /\ emitting' \in After(walks(c), {d})
            ELSE emitting' = walks(c) /\ UNCHANGED outputs
  BY <1>1 DEF CallSlot, CallsSlot, Pushes, Stays, SlotItem
<1>3. Shrinks(emitting, walks(c)) /\ walks(c)[t].left = emitting[t].left \ {c}
  BY <1>1, LeftShrinks
<1>4. walks(c) \in [Threads -> Walks \union {None}]
  BY <1>3 DEF Shrinks
<1>5. outputs' \subseteq outputs
  BY <1>2
<1>6. emitting' = walks(c) \/ \E d : emitting' \in After(walks(c), {d})
  BY <1>2
<1>. HIDE DEF walks
<1>7. emitting' = walks(c) \/ Shrinks(walks(c), emitting')
  BY <1>4, <1>6, AfterShrinks
<1>8. Shrinks(emitting, emitting') /\ emitting'[t].left \subseteq emitting[t].left \ {c}
  <2>1. CASE emitting' = walks(c)
    BY <1>3, <2>1
  <2>2. CASE Shrinks(walks(c), emitting')
    BY <1>1, <1>3, <2>2, ShrinksFurther
  <2>. QED BY <1>7, <2>1, <2>2
<1>9. emitting'[t] # None
  BY <1>1, <1>8 DEF Shrinks
<1>. QED BY <1>1, <1>2, <1>5, <1>8, <1>9

LEMMA SlotCallTyped ==
  ASSUME NEW c \in Made, NEW e \in Emissions, NEW seen \in 0 .. MaxCalls, NEW t \in Threads, NEW stray \in BOOLEAN
  PROVE  /\ SlotCall(c, e, seen, t, stray) \in Calls
         /\ SlotItem(c, e, stray) \in Items /\ SlotItem(c, e, stray).run = "slot"
BY NewItems DEF SlotCall, Calls, SlotItem

LEMMA RoutesTyped ==
  ASSUME Typed, NEW c \in Made, NEW t \in Threads
  PROVE  SlotRoutes(c, t) \subseteq Threads /\ c.id \in Numbers /\ c.src \in Objects /\ c.dst \in Objects
<1>1. c \in Connected /\ c.id \in Numbers
  BY DEF Made
<1>2. c.src \in Objects /\ c.dst \in Objects
  BY <1>1 DEF Connected
<1>. QED BY <1>1, <1>2 DEF SlotRoutes, Typed

LEMMA LogTyped ==
  ASSUME log \in Seq(Calls), NEW x \in Calls, log' = Append(log, x)
  PROVE  log' \in Seq(Calls)
OBVIOUS

LEMMA CallSlotTyped ==
  ASSUME Typed, NEW t \in Threads, CallSlot(t)
  PROVE  Typed'
<1>. DEFINE e == emitting[t].emission
            stray == emitting[t].stray
<1>1. emitting[t] # None /\ UNCHANGED << objects, inputs, others, op, held, calls >>
  BY CallSlotIs
<1>2. PICK c \in emitting[t].left :
         /\ para' = [para EXCEPT ![c.id] = e.number]
         /\ CallsSlot(t, c)
         /\ outputs' \subseteq outputs
         /\ Shrinks(emitting, emitting')
  BY CallSlotIs
<1>3. c \in Made /\ e \in Emissions /\ stray \in BOOLEAN
  BY <1>1, WalkIs
<1>4. e.number \in 0 .. MaxCalls
  BY <1>3, MaxCallsAssumption DEF Emissions, Numbers
<1>5. para' \in [Numbers -> 0 .. MaxCalls]
  BY <1>2, <1>4 DEF Typed
<1>. DEFINE x == SlotCall(c, e, e.number, t, stray)
<1>6. x \in Calls /\ SlotItem(c, e, stray) \in Items
  BY <1>3, <1>4, SlotCallTyped
<1>7. SlotRoutes(c, t) \subseteq Threads
  BY <1>3, RoutesTyped
<1>8. \/ log' = log /\ Stays
      \/ log' = Append(log, x) /\ Stays
      \/ log' = log /\ \E u \in SlotRoutes(c, t) : Pushes(u, SlotItem(c, e, stray))
  BY <1>2 DEF CallsSlot
<1>. HIDE DEF x
<1>9. log' \in Seq(Calls) /\ queue' \in [Threads -> Seq(Items)] /\ hand' = hand
  <2>1. CASE log' = log /\ Stays
    BY <2>1 DEF Typed, Stays
  <2>2. CASE log' = Append(log, x) /\ Stays
    BY <1>6, <2>2, LogTyped DEF Typed, Stays
  <2>3. CASE log' = log /\ \E u \in SlotRoutes(c, t) : Pushes(u, SlotItem(c, e, stray))
    BY <1>6, <1>7, <2>3, PushPlaces DEF Typed
  <2>. QED BY <1>8, <2>1, <2>2, <2>3
<1>. QED BY <1>1, <1>2, <1>5, <1>9 DEF Typed, objects, Shrinks

LEMMA RunEmitTyped ==
  ASSUME Typed, NEW t \in Threads, RunEmit(t)
  PROVE  /\ Typed' /\ Empties(t) /\ Has(t, 0) /\ Item(t, 0).run = "emit" /\ others' = others
         /\ Item(t, 0).src \in Objects /\ Item(t, 0).emission \in Emissions
         /\ Walk(Item(t, 0).src, Item(t, 0).emission, Stolen(t)) \in Walks
         /\ emitting' = [emitting EXCEPT ![t] = Walk(Item(t, 0).src, Item(t, 0).emission, Stolen(t))]
         /\ UNCHANGED << objects, maps, para, op, held, calls, log >>
<1>1. Runs(t, "emit") /\ UNCHANGED << objects, maps, para, op, held, calls, log >>
  BY DEF RunEmit
<1>2. /\ Empties(t) /\ Has(t, 0) /\ Item(t, 0) = hand[t].item /\ Item(t, 0) \in Items
      /\ Item(t, 0).run = "emit" /\ others' = others
  BY <1>1, RunsIs
<1>3. Item(t, 0).src \in Objects /\ Item(t, 0).emission \in Emissions
  BY <1>2, ItemIs
<1>4. From(Item(t, 0).src) \subseteq Made
  BY DEF From, Typed
<1>. DEFINE walk == Walk(Item(t, 0).src, Item(t, 0).emission, Stolen(t))
<1>5. walk \in Walks
  BY <1>3, <1>4 DEF Walk, Walks, Stolen
<1>6. emitting' = [emitting EXCEPT ![t] = walk]
  BY <1>2 DEF RunEmit
<1>7. emitting' \in [Threads -> Walks \union {None}]
  <2>. HIDE DEF walk
  <2>. QED BY <1>5, <1>6 DEF Typed
<1>8. queue' = queue /\ hand' \in [Threads -> Hands \union {None}]
  BY <1>2, EmptyPlaces
<1>9. Typed'
  BY <1>1, <1>2, <1>7, <1>8 DEF Typed, objects, maps
<1>. QED BY <1>1, <1>2, <1>3, <1>5, <1>6, <1>9

LEMMA RunSlotTyped ==
  ASSUME Typed, NEW t \in Threads, RunSlot(t)
  PROVE  /\ Typed' /\ Empties(t) /\ Has(t, 0) /\ Item(t, 0).run = "slot" /\ others' = others
         /\ Item(t, 0).conn \in Made /\ Item(t, 0).asked \in Emissions /\ Item(t, 0).stray \in BOOLEAN
         /\ UNCHANGED << objects, maps, para, emitting, op, held, calls >>
         /\ \/ log' = log
            \/ \E x \in Calls :
                 /\ x.conn = Item(t, 0).conn /\ x.asked = Item(t, 0).asked /\ x.thread = t
                 /\ x.stray = (Item(t, 0).stray \/ Stolen(t))
                 /\ log' = Append(log, x)
<1>. DEFINE h == Item(t, 0)
<1>1. Runs(t, "slot") /\ UNCHANGED << objects, maps, para, emitting, op, held, calls >>
  BY DEF RunSlot
<1>2. Empties(t) /\ Has(t, 0) /\ h = hand[t].item /\ h \in Items /\ h.run = "slot" /\ others' = others
  BY <1>1, RunsIs
<1>3. h.conn \in Made /\ h.asked \in Emissions /\ h.stray \in BOOLEAN
  BY <1>2, ItemIs
<1>. DEFINE stray == h.stray \/ Stolen(t)
            x == SlotCall(h.conn, h.asked, para[h.conn.id], t, stray)
<1>4. para[h.conn.id] \in 0 .. MaxCalls
  BY <1>3, RoutesTyped DEF Typed
<1>5. x \in Calls
  BY <1>3, <1>4, SlotCallTyped DEF Stolen
<1>6. x.conn = h.conn /\ x.asked = h.asked /\ x.thread = t /\ x.stray = stray
  BY DEF SlotCall
<1>7. log' = log \/ log' = Append(log, x)
  BY <1>2 DEF RunSlot
<1>. HIDE DEF x
<1>8. log' \in Seq(Calls)
  BY <1>5, <1>7, LogTyped DEF Typed
<1>9. queue' = queue /\ hand' \in [Threads -> Hands \union {None}]
  BY <1>2, EmptyPlaces
<1>10. Typed'
  BY <1>1, <1>2, <1>8, <1>9 DEF Typed, objects, maps
<1>. QED BY <1>1, <1>2, <1>3, <1>5, <1>6, <1>7, <1>10

LEMMA OtherTyped ==
  ASSUME Typed
  PROVE  /\ \A t \in Threads : EmitEnds(t) \/ PostOther(t) => Typed'
         /\ \A t \in Threads : Take(t) \/ Look(t) \/ Rob(t) \/ RunOther(t) => Typed'
         /\ \A o \in Objects : Drop(o) \/ Destroy(o) => Typed'
<1>1. ASSUME NEW t \in Threads, EmitEnds(t)
      PROVE  Typed'
  BY <1>1 DEF EmitEnds, Typed, objects, maps, pool
<1>2. ASSUME NEW t \in Threads, PostOther(t)
      PROVE  Typed'
  <2>1. Pushes(t, [run |-> "other"]) /\ others' = others + 1
    BY <1>2 DEF PostOther, Pushes
  <2>2. queue' \in [Threads -> Seq(Items)] /\ hand' = hand
    BY <2>1, NewItems, PushPlaces
  <2>3. others' \in Nat
    BY <2>1 DEF Typed
  <2>. QED BY <1>2, <2>2, <2>3 DEF PostOther, Typed, objects, maps
<1>3. ASSUME NEW t \in Threads, Take(t) \/ Look(t) \/ Rob(t) \/ RunOther(t)
      PROVE  Typed'
  <2>1. (\E u \in Threads : Takes(t, u)) \/ Empties(t)
    BY <1>3, TakingIs
  <2>2. UNCHANGED << objects, maps, para, others, emitting, op, held, calls, log >>
    BY <1>3, TakingIs
  <2>3. queue \in [Threads -> Seq(Items)]
    BY DEF Typed
  <2>4. queue' \in [Threads -> Seq(Items)] /\ hand' \in [Threads -> Hands \union {None}]
    BY <2>1, <2>3, TakeIs, EmptyPlaces
  <2>. QED BY <2>2, <2>4 DEF Typed, objects, maps
<1>4. ASSUME NEW o \in Objects, Drop(o)
      PROVE  Typed'
  BY <1>4 DEF Drop, Typed, maps, pool
<1>5. ASSUME NEW o \in Objects, Destroy(o)
      PROVE  Typed'
  <2>1. PICK e : Erase(e)
    BY <1>5 DEF Destroy
  <2>2. outputs' \subseteq outputs /\ emitting' \in [Threads -> Walks \union {None}]
    BY <2>1, EraseShrinks DEF Shrinks
  <2>. QED BY <1>5, <2>2 DEF Destroy, Typed, pool
<1>. QED BY <1>1, <1>2, <1>3, <1>4, <1>5

-----------------------------------------------------------------------------
(* Waited goes on: a part is posted by an operation that was not, moves    *)
(* from queue to hand, and is taken by the step that ends it or sends it   *)
(* on.                                                                     *)

LEMMA TypedStep ==
  ASSUME Typed, Waited, [Next]_vars
  PROVE  Typed'
<1>1. ASSUME NEW t \in Threads, PostOther(t) \/ Worker(t)
      PROVE  Typed'
  BY <1>1, RunPartTyped, RunEmitTyped, CallSlotTyped, RunSlotTyped, OtherTyped DEF Worker
<1>2. ASSUME UNCHANGED vars
      PROVE  Typed'
  BY <1>2 DEF vars, Typed, objects, maps, pool
<1>. QED BY <1>1, <1>2, OperationTyped, CallerTyped, OtherTyped DEF Next

(* A part that is taken is in a hand instead of a queue.                   *)
LEMMA WaitedTaken ==
  ASSUME Typed, Waited, NEW t \in Threads, NEW u \in Threads, Takes(t, u), op' = op
  PROVE  Waited'
<1>1. ASSUME NEW v \in Threads, NEW i \in Nat, Has(v, i)'
      PROVE  /\ Has(u, 1)
             /\ \/ v = t /\ i = 0 /\ Item(v, i)' = Item(u, 1)
                \/ v = u /\ i # 0 /\ Has(u, i + 1) /\ Item(v, i)' = Item(u, i + 1)
                \/ ~ (v = t /\ i = 0) /\ ~ (v = u /\ i # 0) /\ Has(v, i) /\ Item(v, i)' = Item(v, i)
  BY <1>1, TakePlaces
<1>. DEFINE f(v, i) == IF v = t /\ i = 0 THEN u ELSE v
            g(v, i) == IF v = t /\ i = 0 THEN 1 ELSE IF v = u /\ i # 0 THEN i + 1 ELSE i
<1>2. ASSUME NEW v \in Threads, NEW i \in Nat, PartAt(v, i)'
      PROVE  /\ f(v, i) \in Threads /\ g(v, i) \in Nat
             /\ PartAt(f(v, i), g(v, i)) /\ Item(v, i)' = Item(f(v, i), g(v, i))
  <2>1. Has(v, i)' /\ Item(v, i)'.run = "part"
    BY <1>2 DEF PartAt
  <2>2. Has(f(v, i), g(v, i)) /\ Item(v, i)' = Item(f(v, i), g(v, i))
    BY <1>1, <2>1
  <2>. QED BY <2>1, <2>2 DEF PartAt
<1>3. ASSUME NEW v \in Threads, NEW w \in Threads, NEW i \in Nat, NEW j \in Nat,
             f(v, i) = f(w, j), g(v, i) = g(w, j)
      PROVE  v = w /\ i = j
  <2>1. \A k \in Nat : k # 0 => k + 1 # 1 /\ k + 1 # 0
    OBVIOUS
  <2>. QED BY <1>3, <2>1
<1>. HIDE DEF f, g
<1>4. ASSUME NEW v \in Threads, NEW i \in Nat, PartAt(v, i)'
      PROVE  op'[Item(v, i)'.caller] # None /\ op'[Item(v, i)'.caller].posted
  BY <1>2, <1>4 DEF Waited
<1>5. ASSUME NEW v \in Threads, NEW w \in Threads, NEW i \in Nat, NEW j \in Nat,
             PartAt(v, i)', PartAt(w, j)', Item(v, i)'.caller = Item(w, j)'.caller
      PROVE  v = w /\ i = j
  <2>1. /\ f(v, i) \in Threads /\ g(v, i) \in Nat
        /\ PartAt(f(v, i), g(v, i)) /\ Item(v, i)' = Item(f(v, i), g(v, i))
    BY <1>2, <1>5
  <2>2. /\ f(w, j) \in Threads /\ g(w, j) \in Nat
        /\ PartAt(f(w, j), g(w, j)) /\ Item(w, j)' = Item(f(w, j), g(w, j))
    BY <1>2, <1>5
  <2>3. f(v, i) = f(w, j) /\ g(v, i) = g(w, j)
    BY <1>5, <2>1, <2>2 DEF Waited
  <2>. QED BY <1>3, <2>3
<1>. QED BY <1>4, <1>5 DEF Waited

(* Nothing is taken, and no part posted.                                   *)
LEMMA WaitedKept ==
  ASSUME Typed, Waited,
         \A v \in Threads, i \in Nat : PartAt(v, i)' =>
           /\ PartAt(v, i) /\ Item(v, i)' = Item(v, i)
           /\ op'[Item(v, i).caller] = op[Item(v, i).caller]
  PROVE  Waited'
<1>1. ASSUME NEW v \in Threads, NEW i \in Nat, PartAt(v, i)'
      PROVE  op'[Item(v, i)'.caller] # None /\ op'[Item(v, i)'.caller].posted
  BY <1>1 DEF Waited
<1>2. ASSUME NEW u \in Threads, NEW v \in Threads, NEW i \in Nat, NEW j \in Nat,
             PartAt(u, i)', PartAt(v, j)', Item(u, i)'.caller = Item(v, j)'.caller
      PROVE  u = v /\ i = j
  BY <1>2 DEF Waited
<1>. QED BY <1>1, <1>2 DEF Waited

LEMMA PushWaited ==
  ASSUME Typed, Waited, NEW t \in Threads, NEW x \in Items, x.run # "part", Pushes(t, x),
         \A k \in Callers : op'[k] = op[k] \/ op[k] = None
  PROVE  Waited'
<1>1. ASSUME NEW v \in Threads, NEW i \in Nat, PartAt(v, i)'
      PROVE  /\ PartAt(v, i) /\ Item(v, i)' = Item(v, i)
             /\ op'[Item(v, i).caller] = op[Item(v, i).caller]
  <2>1. PartAt(v, i) /\ Item(v, i)' = Item(v, i)
    BY <1>1, PushPlaces DEF PartAt
  <2>2. Item(v, i) \in Items
    BY <2>1, ItemTyped DEF PartAt
  <2>3. Item(v, i).caller \in Callers
    BY <2>1, <2>2, ItemIs DEF PartAt
  <2>4. op[Item(v, i).caller] # None
    BY <2>1 DEF Waited
  <2>. QED BY <2>1, <2>3, <2>4
<1>. QED BY <1>1, WaitedKept

LEMMA StaysWaited ==
  ASSUME Typed, Waited, Stays,
         \A k \in Callers : op'[k] = op[k] \/ op[k] = None \/ ~ op[k].posted
  PROVE  Waited'
<1>1. ASSUME NEW v \in Threads, NEW i \in Nat, PartAt(v, i)'
      PROVE  /\ PartAt(v, i) /\ Item(v, i)' = Item(v, i)
             /\ op'[Item(v, i).caller] = op[Item(v, i).caller]
  <2>1. PartAt(v, i) /\ Item(v, i)' = Item(v, i)
    BY <1>1 DEF PartAt, Stays, Has, Item
  <2>2. Item(v, i) \in Items
    BY <2>1, ItemTyped DEF PartAt
  <2>3. Item(v, i).caller \in Callers
    BY <2>1, <2>2, ItemIs DEF PartAt
  <2>4. op[Item(v, i).caller] # None /\ op[Item(v, i).caller].posted
    BY <2>1 DEF Waited
  <2>. QED BY <2>1, <2>3, <2>4
<1>. QED BY <1>1, WaitedKept

(* A hand that is emptied may have held the part that changes its          *)
(* operation.                                                              *)
LEMMA EmptyWaited ==
  ASSUME Typed, Waited, NEW t \in Threads, Empties(t),
         \A k \in Callers : op'[k] = op[k] \/ (PartAt(t, 0) /\ Item(t, 0).caller = k)
  PROVE  Waited'
<1>1. ASSUME NEW v \in Threads, NEW i \in Nat, PartAt(v, i)'
      PROVE  /\ PartAt(v, i) /\ Item(v, i)' = Item(v, i)
             /\ op'[Item(v, i).caller] = op[Item(v, i).caller]
  <2>1. PartAt(v, i) /\ Item(v, i)' = Item(v, i) /\ ~ (v = t /\ i = 0)
    BY <1>1, EmptyPlaces DEF PartAt
  <2>2. Item(v, i) \in Items
    BY <2>1, ItemTyped DEF PartAt
  <2>3. Item(v, i).caller \in Callers
    BY <2>1, <2>2, ItemIs DEF PartAt
  <2>4. ~ (PartAt(t, 0) /\ Item(t, 0).caller = Item(v, i).caller)
    BY <2>1 DEF Waited
  <2>. QED BY <2>1, <2>3, <2>4
<1>. QED BY <1>1, WaitedKept

LEMMA PartOp ==
  ASSUME Typed, NEW k \in Callers, op[k] # None, Part(k)
  PROVE  \A j \in Callers : j # k => op'[j] = op[j]
<1>1. \/ Finish(k)
      \/ \E c : Proceed(k, c)
  BY DEF Part, ConnectSender, ConnectReceiver, DisconnectSender, DisconnectReceiver, ReleaseHolder
<1>. QED BY <1>1 DEF Finish, Proceed, Typed

(* An operation that begins changes no other; an emission only, the queue. *)
EmitItem(k, s) == [run |-> "emit", src |-> s, emission |-> Emission(calls + 1, k)]

LEMMA EmitIs ==
  ASSUME Typed, NEW k \in Callers, NEW s \in Objects, Emit(k, s)
  PROVE  /\ calls' = calls + 1 /\ EmitItem(k, s) \in Items /\ Emission(calls + 1, k) \in Emissions
         /\ affinity[s] \in Threads /\ op[k] = None
         /\ UNCHANGED << objects, maps, para, others, op, held, log >>
         /\ \/ /\ Home[k] = affinity[s] /\ Free(affinity[s]) /\ Stays
               /\ emitting' = [emitting EXCEPT ![affinity[s]] = Walk(s, Emission(calls + 1, k), FALSE)]
            \/ /\ Home[k] # affinity[s] /\ Pushes(affinity[s], EmitItem(k, s))
               /\ UNCHANGED emitting
<1>1. calls < MaxCalls /\ calls' = calls + 1 /\ calls + 1 \in Numbers /\ op[k] = None
  BY MaxCallsAssumption DEF Emit, Call, Typed, Numbers
<1>2. Emission(calls + 1, k) \in Emissions
  BY <1>1 DEF Emission, Emissions
<1>3. EmitItem(k, s) \in Items
  BY <1>2, NewItems DEF EmitItem
<1>4. affinity[s] \in Threads /\ affinity[s] # Outside
  BY OutsideAssumption DEF Typed
<1>5. UNCHANGED << objects, maps, para, hand, others, op, held, log >>
  BY DEF Emit
<1>6. Home[k] = affinity[s] => Free(affinity[s])
  BY <1>4 DEF Emit, Call
<1>7. IF Home[k] = affinity[s]
      THEN /\ emitting' = [emitting EXCEPT ![Home[k]] = Walk(s, Emission(calls', k), FALSE)]
           /\ UNCHANGED queue
      ELSE /\ queue' = [queue EXCEPT ![affinity[s]] =
                          Append(@, [run |-> "emit", src |-> s, emission |-> Emission(calls', k)])]
           /\ UNCHANGED emitting
  BY DEF Emit
<1>. QED BY <1>1, <1>2, <1>3, <1>4, <1>5, <1>6, <1>7 DEF Stays, Pushes, EmitItem

LEMMA OperationIs ==
  ASSUME Typed, NEW k \in Callers, Operation(k)
  PROVE  /\ \A j \in Callers : j # k => op'[j] = op[j]
         /\ op[k] = None /\ others' = others /\ log' = log
         /\ \/ Stays /\ emitting' = emitting /\ calls' = calls + 1
            \/ \E s \in owned : s \in Objects /\ Emit(k, s)
<1>1. ASSUME NEW what, NEW conn, Hops(k, what, conn)
      PROVE  /\ \A j \in Callers : j # k => op'[j] = op[j]
             /\ op[k] = None /\ others' = others /\ log' = log
             /\ Stays /\ emitting' = emitting /\ calls' = calls + 1
  BY <1>1 DEF Hops, Call, Begin, Typed, pool, Stays
<1>2. ASSUME NEW s \in Objects, Emit(k, s)
      PROVE  /\ \A j \in Callers : j # k => op'[j] = op[j]
             /\ op[k] = None /\ others' = others /\ log' = log
  BY <1>2, EmitIs
<1>3. \A p \in Pairs : p[1] \in Objects
  BY PairsAssumption
<1>. QED BY <1>1, <1>2, <1>3
         DEF Operation, DisconnectHolder, ConnectLambda, Await, Connect, Disconnect

LEMMA CallSlotPool ==
  ASSUME Typed, NEW t \in Threads, CallSlot(t)
  PROVE  Stays \/ \E u \in Threads, x \in Items : x.run = "slot" /\ Pushes(u, x)
<1>1. emitting[t] # None
  BY CallSlotIs
<1>2. PICK c \in emitting[t].left : CallsSlot(t, c)
  BY CallSlotIs
<1>. DEFINE x == SlotItem(c, emitting[t].emission, emitting[t].stray)
<1>3. c \in Made /\ emitting[t].emission \in Emissions /\ emitting[t].stray \in BOOLEAN
  BY <1>1, WalkIs
<1>4. x \in Items /\ x.run = "slot"
  BY <1>3, NewItems DEF SlotItem
<1>5. SlotRoutes(c, t) \subseteq Threads
  BY <1>3, RoutesTyped
<1>6. Stays \/ \E u \in SlotRoutes(c, t) : Pushes(u, x)
  BY <1>2 DEF CallsSlot
<1>. HIDE DEF x
<1>. QED BY <1>4, <1>5, <1>6

LEMMA PostPartWaited ==
  ASSUME Typed, Waited, NEW k \in Callers, PostPart(k)
  PROVE  Waited'
<1>. DEFINE x == [run |-> "part", caller |-> k]
<1>1. /\ op[k] # None /\ ~ op[k].posted /\ op'[k] # None /\ op'[k].posted
      /\ \A j \in Callers : j # k => op'[j] = op[j]
  BY PostPartIs
<1>2. PICK t \in Threads : Pushes(t, x)
  BY PostPartIs
<1>3. x \in Items /\ x.caller = k
  BY NewItems
<1>. HIDE DEF x
<1>4. ASSUME NEW u \in Threads, NEW i \in Nat, PartAt(u, i)'
      PROVE  \/ /\ PartAt(u, i) /\ Item(u, i)' = Item(u, i)
                /\ Item(u, i).caller \in Callers /\ Item(u, i).caller # k
             \/ u = t /\ Item(u, i)' = x /\ Len(queue[t]) \in Nat /\ i = Len(queue[t]) + 1
  <2>1. \/ Has(u, i) /\ Item(u, i)' = Item(u, i)
        \/ u = t /\ Item(u, i)' = x /\ Len(queue[t]) \in Nat /\ i = Len(queue[t]) + 1
    BY <1>2, <1>3, <1>4, PushPlaces DEF PartAt
  <2>2. ASSUME Has(u, i), Item(u, i)' = Item(u, i)
        PROVE  PartAt(u, i) /\ Item(u, i).caller \in Callers /\ Item(u, i).caller # k
    <3>1. PartAt(u, i) /\ Item(u, i) \in Items
      BY <1>4, <2>2, ItemTyped DEF PartAt
    <3>2. Item(u, i).caller \in Callers
      BY <3>1, ItemIs DEF PartAt
    <3>3. op[Item(u, i).caller].posted
      BY <3>1 DEF Waited
    <3>. QED BY <1>1, <3>1, <3>2, <3>3
  <2>. QED BY <2>1, <2>2
<1>5. ASSUME NEW u \in Threads, NEW i \in Nat, PartAt(u, i)'
      PROVE  op'[Item(u, i)'.caller] # None /\ op'[Item(u, i)'.caller].posted
  BY <1>1, <1>3, <1>4, <1>5 DEF Waited
<1>6. ASSUME NEW u \in Threads, NEW v \in Threads, NEW i \in Nat, NEW j \in Nat,
             PartAt(u, i)', PartAt(v, j)', Item(u, i)'.caller = Item(v, j)'.caller
      PROVE  u = v /\ i = j
  <2>1. \/ PartAt(u, i) /\ Item(u, i)' = Item(u, i) /\ Item(u, i)'.caller # k
        \/ u = t /\ Item(u, i)'.caller = k /\ i = Len(queue[t]) + 1
    BY <1>3, <1>4, <1>6
  <2>2. \/ PartAt(v, j) /\ Item(v, j)' = Item(v, j) /\ Item(v, j)'.caller # k
        \/ v = t /\ Item(v, j)'.caller = k /\ j = Len(queue[t]) + 1
    BY <1>3, <1>4, <1>6
  <2>. QED BY <1>6, <2>1, <2>2 DEF Waited
<1>. QED BY <1>5, <1>6 DEF Waited

LEMMA WaitedStep ==
  ASSUME Typed, Waited, [Next]_vars
  PROVE  Waited'
<1>1. ASSUME NEW k \in Callers, Operation(k)
      PROVE  Waited'
  <2>1. \A j \in Callers : op'[j] = op[j] \/ op[j] = None
    BY <1>1, OperationIs
  <2>2. CASE Stays
    BY <2>1, <2>2, StaysWaited
  <2>3. ASSUME NEW s \in Objects, Emit(k, s), ~ Stays
        PROVE  Waited'
    <3>1. affinity[s] \in Threads /\ EmitItem(k, s) \in Items /\ Pushes(affinity[s], EmitItem(k, s))
      BY <2>3, EmitIs
    <3>2. EmitItem(k, s).run # "part"
      BY DEF EmitItem
    <3>. QED BY <2>1, <3>1, <3>2, PushWaited
  <2>. QED BY <1>1, <2>2, <2>3, OperationIs
<1>2. ASSUME NEW k \in Callers, InlinePart(k)
      PROVE  Waited'
  <2>1. op[k] # None /\ ~ op[k].posted /\ Part(k) /\ Stays
    BY <1>2 DEF InlinePart, pool, Stays
  <2>2. \A j \in Callers : op'[j] = op[j] \/ ~ op[j].posted
    BY <2>1, PartOp
  <2>. QED BY <2>1, <2>2, StaysWaited
<1>3. ASSUME NEW t \in Threads, RunPart(t)
      PROVE  Waited'
  <2>. DEFINE k == Item(t, 0).caller
  <2>1. Empties(t) /\ PartAt(t, 0) /\ k \in Callers /\ op[k] # None /\ Part(k)
    BY <1>3, RunPartTyped
  <2>2. \A j \in Callers : op'[j] = op[j] \/ (PartAt(t, 0) /\ Item(t, 0).caller = j)
    BY <2>1, PartOp
  <2>. QED BY <2>1, <2>2, EmptyWaited
<1>4. ASSUME NEW t \in Threads, RunEmit(t) \/ RunSlot(t)
      PROVE  Waited'
  <2>1. Empties(t) /\ op' = op
    BY <1>4, RunEmitTyped, RunSlotTyped
  <2>. QED BY <2>1, EmptyWaited
<1>5. ASSUME NEW t \in Threads, CallSlot(t)
      PROVE  Waited'
  <2>1. op' = op
    BY <1>5 DEF CallSlot
  <2>2. ASSUME NEW u \in Threads, NEW x \in Items, x.run = "slot", Pushes(u, x)
        PROVE  Waited'
    BY <2>1, <2>2, PushWaited
  <2>. QED BY <1>5, <2>1, <2>2, CallSlotPool, StaysWaited
<1>6. ASSUME NEW t \in Threads, Take(t) \/ Look(t) \/ Rob(t) \/ RunOther(t)
      PROVE  Waited'
  <2>1. (\E u \in Threads : Takes(t, u)) \/ Empties(t)
    BY <1>6, TakingIs
  <2>2. op' = op
    BY <1>6, TakingIs
  <2>. QED BY <2>1, <2>2, WaitedTaken, EmptyWaited
<1>7. ASSUME NEW t \in Threads, PostOther(t)
      PROVE  Waited'
  <2>. DEFINE x == [run |-> "other"]
  <2>1. Pushes(t, x) /\ op' = op /\ x \in Items /\ x.run # "part"
    BY <1>7, NewItems DEF PostOther, Pushes
  <2>. HIDE DEF x
  <2>. QED BY <2>1, PushWaited
<1>8. ASSUME Stays, op' = op
      PROVE  Waited'
  BY <1>8, StaysWaited
<1>9. /\ \A t \in Threads : EmitEnds(t) => Stays /\ op' = op
      /\ \A o \in Objects : Drop(o) \/ Destroy(o) => Stays /\ op' = op
      /\ UNCHANGED vars => Stays /\ op' = op
  BY DEF EmitEnds, Drop, Destroy, vars, pool, Stays
<1>. QED BY <1>1, <1>2, <1>3, <1>4, <1>5, <1>6, <1>7, <1>8, <1>9, PostPartWaited DEF Next, Caller, Worker

-----------------------------------------------------------------------------
(* What a step does to the maps and the operations                         *)

Making(k) == op[k] # None /\ op[k].what = "connect"
Starts(k) == Making(k) /\ op[k].part = "sender"
Cutting(k) == op[k] # None /\ op[k].what = "disconnect" /\ op[k].part = "receiver"

(* A new operation: connect's connection is new, disconnect's is a pattern.*)
Begins(k) ==
  /\ op[k] = None
  /\ \A j \in Callers : j # k => op'[j] = op[j]
  /\ op'[k] # None /\ op'[k].part = "sender"
  /\ \/ op'[k].what = "unhold"
     \/ /\ op'[k].what = "connect" /\ op'[k].conn.id = calls + 1
        /\ op'[k].conn.slot # "method" => op'[k].conn.src = op'[k].conn.dst
     \/ op'[k].what = "disconnect" /\ op'[k].conn.id = 0
  /\ op'[k].what # "unhold" => op'[k].conn.src \in owned /\ op'[k].conn.dst \in owned
  /\ calls' = calls + 1
  /\ UNCHANGED << maps, gone >>

(* A step that may erase connections of a sender's map, but is not part of *)
(* an operation on the maps.                                               *)
Keeps ==
  /\ outputs' \subseteq outputs
  /\ calls' \in Nat /\ calls <= calls'
  /\ UNCHANGED << inputs, gone >>
  /\ \A k \in Callers :
       \/ op[k] = None /\ op'[k] = None
       \/ /\ op[k] # None /\ op'[k] # None
          /\ op'[k].what = op[k].what /\ op'[k].part = op[k].part /\ op'[k].conn = op[k].conn

LEMMA HopsBegins ==
  ASSUME Typed, NEW k \in Callers, NEW what \in {"connect", "disconnect", "unhold"},
         NEW conn \in Connected, Hops(k, what, conn),
         \/ what = "unhold"
         \/ what = "connect" /\ conn.id = calls + 1 /\ (conn.slot # "method" => conn.src = conn.dst)
         \/ what = "disconnect" /\ conn.id = 0,
         what # "unhold" => conn.src \in owned /\ conn.dst \in owned
  PROVE  Begins(k)
<1>. DEFINE new == [what |-> what, part |-> "sender", conn |-> conn, posted |-> FALSE]
<1>1. new \in Operations /\ new.what = what /\ new.part = "sender" /\ new.conn = conn
  BY DEF Operations
<1>2. new # None
  BY <1>1, NoneAssumption
<1>3. op' = [op EXCEPT ![k] = new] /\ op[k] = None
  BY DEF Hops, Begin, Call
<1>4. calls' = calls + 1 /\ UNCHANGED << maps, gone >>
  BY DEF Hops, Call, objects
<1>. HIDE DEF new
<1>5. op'[k] = new /\ \A j \in Callers : j # k => op'[j] = op[j]
  BY <1>3 DEF Typed
<1>. QED BY <1>1, <1>2, <1>3, <1>4, <1>5 DEF Begins

LEMMA ConnectionIs ==
  ASSUME NEW n, NEW s, NEW r, NEW type, NEW slot
  PROVE  /\ Connection(n, s, r, type, slot).id = n
         /\ Connection(n, s, r, type, slot).src = s
         /\ Connection(n, s, r, type, slot).dst = r
         /\ Connection(n, s, r, type, slot).slot = slot
BY DEF Connection

LEMMA OperationStep ==
  ASSUME Typed, NEW k \in Callers, Operation(k)
  PROVE  Begins(k) \/ Keeps
<1>1. ASSUME NEW c \in held, DisconnectHolder(k, c)
      PROVE  Begins(k)
  <2>1. c \in Connected
    BY DEF Typed, Made
  <2>. QED BY <1>1, <2>1, HopsBegins DEF DisconnectHolder
<1>2. ASSUME NEW s \in owned, NEW type \in Types, ConnectLambda(k, s, type)
      PROVE  Begins(k)
  <2>. DEFINE c == Connection(calls + 1, s, s, type, "lambda")
  <2>1. c \in Connected /\ Hops(k, "connect", c)
    BY <1>2, NewConnection, TypesAssumption DEF ConnectLambda, Hops, Call, Made, Typed
  <2>2. c.id = calls + 1 /\ c.src = s /\ c.dst = s
    BY ConnectionIs
  <2>. HIDE DEF c
  <2>. QED BY <2>1, <2>2, HopsBegins
<1>3. ASSUME NEW s \in owned, Await(k, s)
      PROVE  Begins(k)
  <2>. DEFINE c == Connection(calls + 1, s, s, "Auto", "once")
  <2>1. c \in Connected /\ Hops(k, "connect", c)
    BY <1>3, NewConnection DEF Await, Hops, Call, Made, Typed
  <2>2. c.id = calls + 1 /\ c.src = s /\ c.dst = s
    BY ConnectionIs
  <2>. HIDE DEF c
  <2>. QED BY <2>1, <2>2, HopsBegins
<1>4. ASSUME NEW s \in owned, Emit(k, s)
      PROVE  Keeps
  <2>1. calls' = calls + 1 /\ calls \in Nat
    BY <1>4, MaxCallsAssumption DEF Emit, Call, Typed
  <2>. QED BY <1>4, <2>1 DEF Emit, Keeps, maps, objects
<1>5. ASSUME NEW s \in owned, NEW r \in owned, NEW type \in Types, Connect(k, s, r, type)
      PROVE  Begins(k)
  <2>. DEFINE c == Connection(calls + 1, s, r, type, "method")
  <2>1. c \in Connected /\ Hops(k, "connect", c)
    BY <1>5, NewConnection, TypesAssumption DEF Connect, Hops, Call, Made, Typed
  <2>2. c.id = calls + 1 /\ c.src = s /\ c.dst = r /\ c.slot = "method"
    BY ConnectionIs
  <2>. HIDE DEF c
  <2>. QED BY <2>1, <2>2, HopsBegins
<1>6. ASSUME NEW s \in owned, NEW r \in owned, Disconnect(k, s, r)
      PROVE  Begins(k)
  <2>. DEFINE c == Connection(0, s, r, "Auto", "method")
  <2>1. c \in Connected /\ Hops(k, "disconnect", c)
    BY <1>6, NewConnection DEF Disconnect, Hops, Call, Typed
  <2>2. c.id = 0 /\ c.src = s /\ c.dst = r
    BY ConnectionIs
  <2>. HIDE DEF c
  <2>. QED BY <2>1, <2>2, HopsBegins
<1>. QED BY <1>1, <1>2, <1>3, <1>4, <1>5, <1>6 DEF Operation

LEMMA Steps ==
  ASSUME Typed, Waited, [Next]_vars
  PROVE  \/ \E k \in Callers : Begins(k)
         \/ \E k \in Callers : op[k] # None /\ Part(k)
         \/ Keeps
         \/ \E o \in Objects : Destroy(o)
<1>1. calls \in Nat
  BY MaxCallsAssumption DEF Typed
<1>2. ASSUME NEW k \in Callers, Caller(k)
      PROVE  (op[k] # None /\ Part(k)) \/ Keeps
  <2>1. CASE InlinePart(k)
    BY <2>1 DEF InlinePart
  <2>2. CASE PostPart(k)
    <3>1. UNCHANGED << outputs, inputs, gone, calls >>
      BY <2>2, PostPartIs DEF maps, objects
    <3>2. ASSUME NEW j \in Callers
          PROVE  \/ op[j] = None /\ op'[j] = None
                 \/ /\ op[j] # None /\ op'[j] # None
                    /\ op'[j].what = op[j].what /\ op'[j].part = op[j].part /\ op'[j].conn = op[j].conn
      <4>1. CASE j = k
        BY <2>2, <4>1, PostPartIs
      <4>2. CASE j # k
        <5>1. op'[j] = op[j]
          BY <2>2, <4>2, PostPartIs
        <5>. QED BY <5>1
      <4>. QED BY <4>1, <4>2
    <3>. QED BY <1>1, <3>1, <3>2 DEF Keeps
  <2>. QED BY <1>2, <2>1, <2>2 DEF Caller
<1>3. ASSUME NEW t \in Threads,
             \/ RunEmit(t) \/ RunSlot(t) \/ EmitEnds(t) \/ PostOther(t)
             \/ Take(t) \/ Look(t) \/ Rob(t) \/ RunOther(t)
      PROVE  Keeps
  <2>1. UNCHANGED << outputs, inputs, gone, calls, op >>
    BY <1>3, TakingIs DEF RunEmit, RunSlot, EmitEnds, PostOther, maps, objects
  <2>. QED BY <1>1, <2>1 DEF Keeps
<1>4. ASSUME NEW t \in Threads, CallSlot(t)
      PROVE  Keeps
  BY <1>1, <1>4, CallSlotIs DEF Keeps, objects
<1>5. ASSUME NEW t \in Threads, RunPart(t)
      PROVE  \E k \in Callers : op[k] # None /\ Part(k)
  BY <1>5, RunPartTyped
<1>6. ASSUME NEW o \in Objects, Drop(o)
      PROVE  Keeps
  BY <1>1, <1>6 DEF Keeps, Drop, maps
<1>7. ASSUME UNCHANGED vars
      PROVE  Keeps
  BY <1>1, <1>7 DEF Keeps, vars, maps, objects
<1>. QED BY <1>2, <1>3, <1>4, <1>5, <1>6, <1>7, OperationStep DEF Next, Worker

-----------------------------------------------------------------------------
(* The maps                                                                *)

(* Connections are numbered by the operations; one that is on its way to   *)
(* its sender's map has a number of its own.                               *)
Ids ==
  /\ \A d \in outputs : d.id <= calls
  /\ \A k \in Callers : op[k] # None /\ op[k].what # "unhold" => op[k].conn.id <= calls
  /\ \A k \in Callers : Starts(k) =>
       /\ \A d \in outputs : d.id # op[k].conn.id
       /\ \A j \in Callers \ {k} :
            op[j] # None /\ op[j].what # "unhold" => op[j].conn.id # op[k].conn.id

(* What a disconnect takes from the receiver's map is in no sender's map.  *)
Cut == \A k \in Callers : Cutting(k) => op[k].conn \notin outputs

(* The receiver of a lambda is its sender.                                 *)
Lambdas ==
  /\ \A c \in outputs : c.slot # "method" => c.src = c.dst
  /\ \A k \in Callers : Making(k) /\ op[k].conn.slot # "method" => op[k].conn.src = op[k].conn.dst

MapsInv == Ids /\ Cut /\ Lambdas /\ NoDuplicates /\ ReceiverKnows

LEMMA MadeIs ==
  ASSUME Typed
  PROVE  /\ \A d \in outputs : d.id \in Nat /\ d.id > 0
         /\ \A k \in Callers : op[k] # None => op[k].conn.id \in Nat
         /\ \A k \in Callers : Making(k) => op[k].conn.id > 0
<1>1. ASSUME NEW c \in Connected
      PROVE  c.id \in Nat /\ (c \in Made => c.id > 0)
  <2>1. c.id \in 0 .. MaxCalls
    BY DEF Connected
  <2>. QED BY <2>1, MaxCallsAssumption DEF Made, Numbers
<1>2. \A k \in Callers : op[k] # None => op[k].conn \in Connected
  BY OpIs
<1>3. \A k \in Callers : Making(k) => op[k].conn \in Made
  BY DEF Making, Typed
<1>4. outputs \subseteq Connected /\ outputs \subseteq Made
  BY DEF Typed, Made
<1>. QED BY <1>1, <1>2, <1>3, <1>4 DEF Making

LEMMA BeginsMaps ==
  ASSUME Typed, MapsInv, NEW k \in Callers, Begins(k)
  PROVE  MapsInv'
<1>1. outputs' = outputs /\ inputs' = inputs /\ calls' = calls + 1 /\ calls \in Nat
  BY MaxCallsAssumption DEF Begins, maps, Typed
<1>2. \A j \in Callers : j # k => op'[j] = op[j]
  BY DEF Begins
<1>3. \A j \in Callers : j # k =>
        /\ Making(j)' <=> Making(j)
        /\ Starts(j)' <=> Starts(j)
        /\ Cutting(j)' <=> Cutting(j)
  BY <1>2 DEF Making, Starts, Cutting
<1>4. /\ op'[k] # None /\ op'[k].part = "sender"
      /\ \/ op'[k].what = "unhold"
         \/ /\ op'[k].what = "connect" /\ op'[k].conn.id = calls + 1
            /\ op'[k].conn.slot # "method" => op'[k].conn.src = op'[k].conn.dst
         \/ op'[k].what = "disconnect" /\ op'[k].conn.id = 0
  BY DEF Begins
<1>5. Ids'
  <2>1. \A d \in outputs' : d.id <= calls'
    BY <1>1, MadeIs DEF MapsInv, Ids
  <2>2. \A j \in Callers : op'[j] # None /\ op'[j].what # "unhold" => op'[j].conn.id <= calls'
    <3>1. ASSUME NEW j \in Callers, j # k, op'[j] # None, op'[j].what # "unhold"
          PROVE  op'[j].conn.id <= calls'
      BY <1>1, <1>2, <3>1, MadeIs DEF MapsInv, Ids
    <3>2. op'[k].what # "unhold" => op'[k].conn.id <= calls'
      BY <1>1, <1>4
    <3>. QED BY <3>1, <3>2
  <2>3. ASSUME NEW j \in Callers, Starts(j)'
        PROVE  /\ \A d \in outputs' : d.id # op'[j].conn.id
               /\ \A i \in Callers \ {j} :
                    op'[i] # None /\ op'[i].what # "unhold" => op'[i].conn.id # op'[j].conn.id
    <3>1. CASE j = k
      <4>1. op'[k].conn.id = calls + 1
        BY <1>4, <2>3, <3>1 DEF Starts, Making
      <4>2. \A d \in outputs' : d.id # op'[j].conn.id
        BY <1>1, <3>1, <4>1, MadeIs DEF MapsInv, Ids
      <4>3. ASSUME NEW i \in Callers \ {j}, op'[i] # None, op'[i].what # "unhold"
            PROVE  op'[i].conn.id # op'[j].conn.id
        <5>1. op'[i].conn.id <= calls /\ op'[i].conn.id \in Nat
          BY <1>2, <3>1, <4>3, MadeIs DEF MapsInv, Ids
        <5>. QED BY <1>1, <3>1, <4>1, <5>1
      <4>. QED BY <4>2, <4>3
    <3>2. CASE j # k
      <4>1. Starts(j) /\ op'[j] = op[j]
        BY <1>2, <1>3, <2>3, <3>2
      <4>2. \A d \in outputs' : d.id # op'[j].conn.id
        BY <1>1, <4>1 DEF MapsInv, Ids
      <4>3. ASSUME NEW i \in Callers \ {j}, op'[i] # None, op'[i].what # "unhold"
            PROVE  op'[i].conn.id # op'[j].conn.id
        <5>1. CASE i = k
          <6>1. op[j].conn.id <= calls /\ op[j].conn.id > 0 /\ op[j].conn.id \in Nat
            BY <4>1, MadeIs DEF MapsInv, Ids, Starts, Making
          <6>2. op'[k].conn.id = calls + 1 \/ op'[k].conn.id = 0
            BY <1>4, <4>3, <5>1
          <6>. QED BY <1>1, <4>1, <5>1, <6>1, <6>2
        <5>2. CASE i # k
          BY <1>2, <4>1, <4>3, <5>2 DEF MapsInv, Ids
        <5>. QED BY <5>1, <5>2
      <4>. QED BY <4>2, <4>3
    <3>. QED BY <3>1, <3>2
  <2>. QED BY <2>1, <2>2, <2>3 DEF Ids
<1>6. Cut'
  <2>1. ~ Cutting(k)'
    BY <1>4 DEF Cutting
  <2>. QED BY <1>1, <1>2, <1>3, <2>1 DEF MapsInv, Cut
<1>7. Lambdas'
  <2>1. Making(k)' /\ op'[k].conn.slot # "method" => op'[k].conn.src = op'[k].conn.dst
    BY <1>4 DEF Making
  <2>2. ASSUME NEW j \in Callers, j # k, Making(j)', op'[j].conn.slot # "method"
        PROVE  op'[j].conn.src = op'[j].conn.dst
    BY <1>2, <1>3, <2>2 DEF MapsInv, Lambdas
  <2>3. \A c \in outputs' : c.slot # "method" => c.src = c.dst
    BY <1>1 DEF MapsInv, Lambdas
  <2>. QED BY <2>1, <2>2, <2>3 DEF Lambdas
<1>8. NoDuplicates'
  BY <1>1 DEF MapsInv, NoDuplicates, Same
<1>9. ReceiverKnows'
  <2>1. ASSUME NEW j \in Callers, NEW c, op[j] # None, op[j].what = "connect", op[j].conn = c
        PROVE  op'[j] # None /\ op'[j].what = "connect" /\ op'[j].conn = c
    <3>1. j # k
      BY <2>1 DEF Begins
    <3>. QED BY <1>2, <2>1, <3>1
  <2>. QED BY <1>1, <2>1 DEF MapsInv, ReceiverKnows
<1>. QED BY <1>5, <1>6, <1>7, <1>8, <1>9 DEF MapsInv

LEMMA KeepsMaps ==
  ASSUME Typed, MapsInv, Keeps
  PROVE  MapsInv'
<1>1. outputs' \subseteq outputs /\ inputs' = inputs /\ calls' \in Nat /\ calls <= calls' /\ calls \in Nat
  BY MaxCallsAssumption DEF Keeps, Typed
<1>2. ASSUME NEW k \in Callers
      PROVE  /\ op'[k] # None <=> op[k] # None
             /\ op[k] # None => /\ op'[k].what = op[k].what /\ op'[k].part = op[k].part
                                /\ op'[k].conn = op[k].conn
  BY DEF Keeps
<1>3. ASSUME NEW k \in Callers
      PROVE  /\ Making(k)' <=> Making(k)
             /\ Starts(k)' <=> Starts(k)
             /\ Cutting(k)' <=> Cutting(k)
  BY <1>2 DEF Making, Starts, Cutting
<1>4. Ids'
  <2>1. \A d \in outputs' : d.id <= calls'
    BY <1>1, MadeIs DEF MapsInv, Ids
  <2>2. \A k \in Callers : op'[k] # None /\ op'[k].what # "unhold" => op'[k].conn.id <= calls'
    BY <1>1, <1>2, MadeIs DEF MapsInv, Ids
  <2>3. ASSUME NEW k \in Callers, Starts(k)'
        PROVE  /\ \A d \in outputs' : d.id # op'[k].conn.id
               /\ \A j \in Callers \ {k} :
                    op'[j] # None /\ op'[j].what # "unhold" => op'[j].conn.id # op'[k].conn.id
    <3>1. Starts(k) /\ op'[k].conn = op[k].conn
      BY <1>2, <1>3, <2>3 DEF Starts, Making
    <3>. QED BY <1>1, <1>2, <3>1 DEF MapsInv, Ids
  <2>. QED BY <2>1, <2>2, <2>3 DEF Ids
<1>5. Cut'
  <2>1. ASSUME NEW k \in Callers, Cutting(k)'
        PROVE  op'[k].conn \notin outputs'
    BY <1>1, <1>2, <1>3, <2>1 DEF MapsInv, Cut, Cutting
  <2>. QED BY <2>1 DEF Cut
<1>6. Lambdas'
  <2>1. ASSUME NEW k \in Callers, Making(k)', op'[k].conn.slot # "method"
        PROVE  op'[k].conn.src = op'[k].conn.dst
    BY <1>2, <1>3, <2>1 DEF MapsInv, Lambdas, Making
  <2>. QED BY <1>1, <2>1 DEF MapsInv, Lambdas
<1>7. NoDuplicates'
  BY <1>1 DEF MapsInv, NoDuplicates, Same
<1>8. ReceiverKnows'
  BY <1>1, <1>2 DEF MapsInv, ReceiverKnows
<1>. QED BY <1>4, <1>5, <1>6, <1>7, <1>8 DEF MapsInv

LEMMA DestroyMaps ==
  ASSUME Typed, MapsInv, NEW o \in Objects, Destroy(o)
  PROVE  MapsInv' /\ outputs' = outputs \ {c \in outputs : c.src = o \/ (c.dst = o /\ c \in inputs)}
<1>. DEFINE e == {c \in outputs : c.src = o \/ (c.dst = o /\ c \in inputs)}
<1>1. Erase(e) /\ UNCHANGED << op, calls >>
      /\ inputs' = {c \in inputs : c.dst # o /\ ~ (c.src = o /\ c \in outputs)}
  BY DEF Destroy
<1>2. outputs' = outputs \ e
  BY <1>1 DEF Erase
<1>3. Ids' /\ Cut' /\ Lambdas' /\ NoDuplicates'
  BY <1>1, <1>2 DEF MapsInv, Ids, Starts, Making, Cut, Cutting, Lambdas, NoDuplicates, Same
<1>4. \A c \in outputs' : c \in outputs /\ (c \in inputs => c \in inputs')
  BY <1>1, <1>2
<1>5. ReceiverKnows'
  BY <1>1, <1>4 DEF MapsInv, ReceiverKnows
<1>. QED BY <1>2, <1>3, <1>5 DEF MapsInv

(* An operation ends: what it was doing is no longer asked of.             *)
LEMMA FinishMaps ==
  ASSUME Typed, MapsInv, NEW k \in Callers, op[k] # None, Finish(k), calls' = calls,
         outputs' \subseteq outputs,
         \A c \in outputs' : \/ c.slot # "method"
                             \/ c \in inputs'
                             \/ \E j \in Callers : j # k /\ Making(j) /\ op[j].conn = c
  PROVE  MapsInv'
<1>1. op'[k] = None /\ \A j \in Callers : j # k => op'[j] = op[j]
  BY DEF Finish, Typed
<1>2. \A j \in Callers : op'[j] # None => j # k /\ op'[j] = op[j]
  BY <1>1
<1>3. \A j \in Callers :
        /\ Making(j)' => j # k /\ Making(j)
        /\ Starts(j)' => j # k /\ Starts(j)
        /\ Cutting(j)' => j # k /\ Cutting(j)
  BY <1>2 DEF Making, Starts, Cutting
<1>4. Ids'
  <2>1. ASSUME NEW j \in Callers, Starts(j)'
        PROVE  /\ \A d \in outputs' : d.id # op'[j].conn.id
               /\ \A i \in Callers \ {j} :
                    op'[i] # None /\ op'[i].what # "unhold" => op'[i].conn.id # op'[j].conn.id
    BY <1>1, <1>2, <1>3, <2>1 DEF MapsInv, Ids
  <2>2. \A d \in outputs' : d.id <= calls'
    BY DEF MapsInv, Ids
  <2>3. \A j \in Callers : op'[j] # None /\ op'[j].what # "unhold" => op'[j].conn.id <= calls'
    BY <1>2 DEF MapsInv, Ids
  <2>. QED BY <2>1, <2>2, <2>3 DEF Ids
<1>5. Cut'
  <2>1. ASSUME NEW j \in Callers, Cutting(j)'
        PROVE  op'[j].conn \notin outputs'
    BY <1>1, <1>3, <2>1 DEF MapsInv, Cut
  <2>. QED BY <2>1 DEF Cut
<1>6. Lambdas'
  <2>1. ASSUME NEW j \in Callers, Making(j)', op'[j].conn.slot # "method"
        PROVE  op'[j].conn.src = op'[j].conn.dst
    BY <1>1, <1>3, <2>1 DEF MapsInv, Lambdas
  <2>2. \A c \in outputs' : c.slot # "method" => c.src = c.dst
    BY DEF MapsInv, Lambdas
  <2>. QED BY <2>1, <2>2 DEF Lambdas
<1>7. NoDuplicates'
  BY DEF MapsInv, NoDuplicates, Same
<1>8. ReceiverKnows'
  <2>1. ASSUME NEW j \in Callers, NEW c, j # k, Making(j), op[j].conn = c
        PROVE  op'[j] # None /\ op'[j].what = "connect" /\ op'[j].conn = c
    BY <1>1, <2>1 DEF Making
  <2>. QED BY <2>1 DEF ReceiverKnows
<1>. QED BY <1>4, <1>5, <1>6, <1>7, <1>8 DEF MapsInv

LEMMA ProceedIs ==
  ASSUME Typed, NEW k \in Callers, op[k] # None, NEW c \in Connected, Proceed(k, c)
  PROVE  /\ op'[k] # None /\ op'[k].what = op[k].what
         /\ op'[k].part = "receiver" /\ op'[k].conn = c
<1>. DEFINE new == [what |-> op[k].what, part |-> "receiver", conn |-> c, posted |-> FALSE]
<1>1. new \in Operations /\ new.what = op[k].what /\ new.part = "receiver" /\ new.conn = c
  BY OpIs DEF Operations
<1>2. op' = [op EXCEPT ![k] = new]
  BY DEF Proceed
<1>3. new # None
  BY <1>1, NoneAssumption
<1>. HIDE DEF new
<1>. QED BY <1>1, <1>2, <1>3 DEF Typed

(* A new connection in its sender's map.                                   *)
LEMMA AddMaps ==
  ASSUME Typed, MapsInv, NEW k \in Callers, Starts(k), calls' = calls,
         ~ \E d \in outputs : Same(op[k].conn, d),
         outputs' = outputs \union {op[k].conn},
         \/ /\ inputs' = IF op[k].conn.slot = "method" THEN inputs \union {op[k].conn} ELSE inputs
            /\ Finish(k)
         \/ Proceed(k, op[k].conn) /\ UNCHANGED inputs
  PROVE  MapsInv'
<1>. DEFINE c == op[k].conn
<1>1. op[k] # None /\ op[k].what = "connect" /\ c \in Connected
  BY OpIs DEF Starts, Making
<1>2. \A j \in Callers : j # k => op'[j] = op[j]
  BY DEF Finish, Proceed, Typed
<1>3. \/ op'[k] = None /\ (c.slot = "method" => c \in inputs')
      \/ /\ op'[k] # None /\ op'[k].what = "connect" /\ op'[k].part = "receiver" /\ op'[k].conn = c
  <2>1. ASSUME Proceed(k, c)
        PROVE  /\ op'[k] # None /\ op'[k].what = "connect" /\ op'[k].part = "receiver" /\ op'[k].conn = c
    BY <1>1, <2>1, ProceedIs
  <2>2. Finish(k) => op'[k] = None
    BY DEF Finish, Typed
  <2>. HIDE DEF c
  <2>3. \/ /\ inputs' = IF c.slot = "method" THEN inputs \union {c} ELSE inputs
           /\ Finish(k)
        \/ Proceed(k, c)
    BY DEF c
  <2>. QED BY <2>1, <2>2, <2>3
<1>4. /\ \A d \in outputs : d.id # c.id
      /\ \A j \in Callers \ {k} : op[j] # None /\ op[j].what # "unhold" => op[j].conn.id # c.id
      /\ c.id <= calls
  BY <1>1 DEF MapsInv, Ids
<1>5. outputs' = outputs \union {c} /\ inputs \subseteq inputs'
  OBVIOUS
<1>6. /\ c.slot # "method" => c.src = c.dst
      /\ ~ \E d \in outputs : Same(c, d)
  BY DEF MapsInv, Lambdas, Starts
<1>. HIDE DEF c
<1>7. \A j \in Callers :
        /\ Making(j)' => Making(j) /\ op'[j].conn = op[j].conn
        /\ Starts(j)' => j # k /\ Starts(j)
        /\ Cutting(j)' => j # k /\ Cutting(j)
  <2>1. \A j \in Callers : j # k => (Making(j)' => Making(j) /\ op'[j].conn = op[j].conn)
                                     /\ (Starts(j)' => Starts(j)) /\ (Cutting(j)' => Cutting(j))
    BY <1>2 DEF Making, Starts, Cutting
  <2>2. (Making(k)' => Making(k) /\ op'[k].conn = op[k].conn) /\ ~ Starts(k)' /\ ~ Cutting(k)'
    BY <1>1, <1>3 DEF Making, Starts, Cutting, c
  <2>. QED BY <2>1, <2>2
<1>8. Ids'
  <2>1. \A d \in outputs' : d.id <= calls'
    BY <1>4, <1>5 DEF MapsInv, Ids
  <2>2. \A j \in Callers : op'[j] # None /\ op'[j].what # "unhold" => op'[j].conn.id <= calls'
    <3>1. ASSUME NEW j \in Callers, j # k, op'[j] # None, op'[j].what # "unhold"
          PROVE  op'[j].conn.id <= calls'
      BY <1>2, <3>1 DEF MapsInv, Ids
    <3>2. op'[k] # None => op'[k].conn.id <= calls'
      BY <1>3, <1>4
    <3>. QED BY <3>1, <3>2
  <2>3. ASSUME NEW j \in Callers, Starts(j)'
        PROVE  /\ \A d \in outputs' : d.id # op'[j].conn.id
               /\ \A i \in Callers \ {j} :
                    op'[i] # None /\ op'[i].what # "unhold" => op'[i].conn.id # op'[j].conn.id
    <3>1. j # k /\ Starts(j) /\ op'[j] = op[j]
      BY <1>2, <1>7, <2>3
    <3>2. op[j] # None /\ op[j].what # "unhold"
      BY <3>1 DEF Starts, Making
    <3>3. c.id # op[j].conn.id
      BY <1>4, <3>1, <3>2
    <3>4. \A d \in outputs' : d.id # op'[j].conn.id
      BY <1>5, <3>1, <3>3 DEF MapsInv, Ids
    <3>5. ASSUME NEW i \in Callers \ {j}, op'[i] # None, op'[i].what # "unhold"
          PROVE  op'[i].conn.id # op'[j].conn.id
      <4>1. CASE i = k
        BY <1>3, <3>1, <3>3, <3>5, <4>1
      <4>2. CASE i # k
        BY <1>2, <3>1, <3>5, <4>2 DEF MapsInv, Ids
      <4>. QED BY <4>1, <4>2
    <3>. QED BY <3>4, <3>5
  <2>. QED BY <2>1, <2>2, <2>3 DEF Ids
<1>9. Cut'
  <2>1. ASSUME NEW j \in Callers, Cutting(j)'
        PROVE  op'[j].conn \notin outputs'
    <3>1. j # k /\ Cutting(j) /\ op'[j] = op[j]
      BY <1>2, <1>7, <2>1
    <3>2. op[j].conn.id # c.id
      BY <1>4, <3>1 DEF Cutting
    <3>3. op[j].conn \notin outputs
      BY <3>1 DEF MapsInv, Cut
    <3>. QED BY <1>5, <3>1, <3>2, <3>3
  <2>. QED BY <2>1 DEF Cut
<1>10. Lambdas'
  <2>1. ASSUME NEW j \in Callers, Making(j)', op'[j].conn.slot # "method"
        PROVE  op'[j].conn.src = op'[j].conn.dst
    BY <1>7, <2>1 DEF MapsInv, Lambdas
  <2>2. \A d \in outputs' : d.slot # "method" => d.src = d.dst
    BY <1>5, <1>6 DEF MapsInv, Lambdas
  <2>. QED BY <2>1, <2>2 DEF Lambdas
<1>11. NoDuplicates'
  BY <1>5, <1>6 DEF MapsInv, NoDuplicates, Same
<1>12. ReceiverKnows'
  <2>1. ASSUME NEW j \in Callers, NEW d, d # c, op[j] # None, op[j].what = "connect", op[j].conn = d
        PROVE  op'[j] # None /\ op'[j].what = "connect" /\ op'[j].conn = d
    <3>1. j # k
      BY <2>1 DEF c
    <3>. QED BY <1>2, <2>1, <3>1
  <2>2. ASSUME NEW d \in outputs', d # c
        PROVE  \/ d.slot # "method" \/ d \in inputs'
               \/ \E j \in Callers : op'[j] # None /\ op'[j].what = "connect" /\ op'[j].conn = d
    BY <1>5, <2>1, <2>2 DEF MapsInv, ReceiverKnows
  <2>3. \/ c.slot # "method" \/ c \in inputs'
        \/ op'[k] # None /\ op'[k].what = "connect" /\ op'[k].conn = c
    BY <1>3
  <2>. QED BY <2>2, <2>3 DEF ReceiverKnows
<1>. QED BY <1>8, <1>9, <1>10, <1>11, <1>12 DEF MapsInv

(* A disconnect goes on to the receiver with what is no longer connected.  *)
LEMMA CutMaps ==
  ASSUME Typed, MapsInv, NEW k \in Callers, op[k] # None, op[k].what = "disconnect",
         NEW d \in Connected, d \in outputs \/ d = op[k].conn, d \notin outputs',
         Proceed(k, d), outputs' \subseteq outputs, UNCHANGED << inputs, calls >>
  PROVE  MapsInv'
<1>1. \A j \in Callers : j # k => op'[j] = op[j]
  BY DEF Proceed, Typed
<1>2. op'[k] # None /\ op'[k].what = "disconnect" /\ op'[k].part = "receiver" /\ op'[k].conn = d
  BY ProceedIs
<1>3. \A j \in Callers :
        /\ Making(j)' => j # k /\ Making(j)
        /\ Starts(j)' => j # k /\ Starts(j)
        /\ Cutting(j)' => j = k \/ Cutting(j)
  BY <1>1, <1>2 DEF Making, Starts, Cutting
<1>4. Ids'
  <2>1. \A c \in outputs' : c.id <= calls'
    BY DEF MapsInv, Ids
  <2>2. d.id <= calls
    BY DEF MapsInv, Ids
  <2>3. \A j \in Callers : op'[j] # None /\ op'[j].what # "unhold" => op'[j].conn.id <= calls'
    <3>1. ASSUME NEW j \in Callers, j # k, op'[j] # None, op'[j].what # "unhold"
          PROVE  op'[j].conn.id <= calls'
      BY <1>1, <3>1 DEF MapsInv, Ids
    <3>. QED BY <1>2, <2>2, <3>1
  <2>4. ASSUME NEW j \in Callers, Starts(j)'
        PROVE  /\ \A c \in outputs' : c.id # op'[j].conn.id
               /\ \A i \in Callers \ {j} :
                    op'[i] # None /\ op'[i].what # "unhold" => op'[i].conn.id # op'[j].conn.id
    <3>1. j # k /\ Starts(j) /\ op'[j] = op[j]
      BY <1>1, <1>3, <2>4
    <3>2. d.id # op[j].conn.id
      BY <3>1 DEF MapsInv, Ids
    <3>3. \A c \in outputs' : c.id # op'[j].conn.id
      BY <3>1 DEF MapsInv, Ids
    <3>4. ASSUME NEW i \in Callers \ {j}, op'[i] # None, op'[i].what # "unhold"
          PROVE  op'[i].conn.id # op'[j].conn.id
      <4>1. CASE i = k
        BY <1>2, <3>1, <3>2, <4>1
      <4>2. CASE i # k
        BY <1>1, <3>1, <3>4, <4>2 DEF MapsInv, Ids
      <4>. QED BY <4>1, <4>2
    <3>. QED BY <3>3, <3>4
  <2>. QED BY <2>1, <2>3, <2>4 DEF Ids
<1>5. Cut'
  <2>1. ASSUME NEW j \in Callers, j # k, Cutting(j)'
        PROVE  op'[j].conn \notin outputs'
    BY <1>1, <1>3, <2>1 DEF MapsInv, Cut
  <2>. QED BY <1>2, <2>1 DEF Cut
<1>6. Lambdas'
  <2>1. ASSUME NEW j \in Callers, Making(j)', op'[j].conn.slot # "method"
        PROVE  op'[j].conn.src = op'[j].conn.dst
    BY <1>1, <1>3, <2>1 DEF MapsInv, Lambdas
  <2>2. \A c \in outputs' : c.slot # "method" => c.src = c.dst
    BY DEF MapsInv, Lambdas
  <2>. QED BY <2>1, <2>2 DEF Lambdas
<1>7. NoDuplicates'
  BY DEF MapsInv, NoDuplicates, Same
<1>8. ReceiverKnows'
  <2>1. ASSUME NEW j \in Callers, NEW c, op[j] # None, op[j].what = "connect", op[j].conn = c
        PROVE  op'[j] # None /\ op'[j].what = "connect" /\ op'[j].conn = c
    <3>1. j # k
      BY <2>1
    <3>. QED BY <1>1, <2>1, <3>1
  <2>. QED BY <2>1 DEF MapsInv, ReceiverKnows
<1>. QED BY <1>4, <1>5, <1>6, <1>7, <1>8 DEF MapsInv

LEMMA PartMaps ==
  ASSUME Typed, MapsInv, NEW k \in Callers, op[k] # None, Part(k)
  PROVE  MapsInv'
<1>. DEFINE c == op[k].conn
<1>1. c \in Connected /\ calls' = calls
  BY OpIs DEF Part
<1>2. ASSUME At(k, "connect", "sender"), ConnectSender(k, c)
      PROVE  MapsInv'
  <2>1. Starts(k)
    BY <1>2 DEF At, Starts, Making
  <2>2. CASE \E d \in outputs : Same(c, d)
    <3>1. Finish(k) /\ UNCHANGED maps
      BY <1>2, <2>2 DEF ConnectSender
    <3>2. ASSUME NEW d \in outputs'
          PROVE  \/ d.slot # "method" \/ d \in inputs'
                 \/ \E j \in Callers : j # k /\ Making(j) /\ op[j].conn = d
      <4>1. d \in outputs /\ inputs' = inputs
        BY <3>1 DEF maps
      <4>2. d # op[k].conn
        BY <2>1, <4>1 DEF MapsInv, Ids
      <4>. QED BY <4>1, <4>2 DEF MapsInv, ReceiverKnows, Making
    <3>. QED BY <1>1, <3>1, <3>2, FinishMaps DEF maps
  <2>3. CASE ~ \E d \in outputs : Same(c, d)
    <3>1. /\ outputs' = outputs \union {c}
          /\ \/ /\ inputs' = IF c.slot = "method" THEN inputs \union {c} ELSE inputs
                /\ Finish(k)
             \/ Proceed(k, c) /\ UNCHANGED inputs
      BY <1>2, <2>3 DEF ConnectSender
    <3>. QED BY <1>1, <2>1, <2>3, <3>1, AddMaps
  <2>. QED BY <2>2, <2>3
<1>3. ASSUME At(k, "connect", "receiver"), ConnectReceiver(k, c)
      PROVE  MapsInv'
  <2>1. outputs' = outputs /\ inputs' = inputs \union {c} /\ Finish(k)
    BY <1>3 DEF ConnectReceiver
  <2>2. ASSUME NEW d \in outputs'
        PROVE  \/ d.slot # "method" \/ d \in inputs'
               \/ \E j \in Callers : j # k /\ Making(j) /\ op[j].conn = d
    BY <2>1 DEF MapsInv, ReceiverKnows, Making
  <2>. QED BY <1>1, <2>1, <2>2, FinishMaps
<1>4. ASSUME At(k, "disconnect", "sender"), DisconnectSender(k, c)
      PROVE  MapsInv'
  <2>1. op[k].what = "disconnect" /\ inputs' = inputs
    BY <1>4 DEF At, DisconnectSender
  <2>2. CASE \E d \in outputs : Same(c, d)
    <3>1. PICK d \in outputs : Erase({d}) /\ Proceed(k, d)
      BY <1>4, <2>2 DEF DisconnectSender
    <3>2. outputs' = outputs \ {d} /\ d \in Connected
      BY <3>1 DEF Erase, Typed, Made
    <3>. QED BY <1>1, <2>1, <3>1, <3>2, CutMaps
  <2>3. CASE ~ \E d \in outputs : Same(c, d)
    <3>1. Proceed(k, c) /\ outputs' = outputs
      BY <1>4, <2>3 DEF DisconnectSender
    <3>2. c \notin outputs
      BY <2>3 DEF Same
    <3>. QED BY <1>1, <2>1, <3>1, <3>2, CutMaps
  <2>. QED BY <2>2, <2>3
<1>5. ASSUME At(k, "disconnect", "receiver"), DisconnectReceiver(k, c)
      PROVE  MapsInv'
  <2>1. outputs' = outputs /\ inputs' = inputs \ {c} /\ Finish(k)
    BY <1>5 DEF DisconnectReceiver
  <2>2. c \notin outputs /\ ~ Making(k)
    BY <1>5 DEF At, MapsInv, Cut, Cutting, Making
  <2>3. ASSUME NEW d \in outputs'
        PROVE  \/ d.slot # "method" \/ d \in inputs'
               \/ \E j \in Callers : j # k /\ Making(j) /\ op[j].conn = d
    BY <2>1, <2>2 DEF MapsInv, ReceiverKnows, Making
  <2>. QED BY <1>1, <2>1, <2>3, FinishMaps
<1>6. ASSUME At(k, "unhold", "sender"), ReleaseHolder(k, c)
      PROVE  MapsInv'
  <2>1. outputs' \subseteq outputs /\ inputs' = inputs /\ Finish(k)
    BY <1>6 DEF ReleaseHolder, Erase
  <2>2. ~ Making(k)
    BY <1>6 DEF At, Making
  <2>3. ASSUME NEW d \in outputs'
        PROVE  \/ d.slot # "method" \/ d \in inputs'
               \/ \E j \in Callers : j # k /\ Making(j) /\ op[j].conn = d
    BY <2>1, <2>2 DEF MapsInv, ReceiverKnows, Making
  <2>. QED BY <1>1, <2>1, <2>3, FinishMaps
<1>. QED BY <1>2, <1>3, <1>4, <1>5, <1>6 DEF Part

LEMMA MapsStep ==
  ASSUME Typed, Waited, MapsInv, [Next]_vars
  PROVE  MapsInv'
BY Steps, BeginsMaps, PartMaps, KeepsMaps, DestroyMaps
-----------------------------------------------------------------------------
(* References                                                              *)

OpRefers(o) ==
  \E k \in Callers : op[k] # None /\ op[k].what # "unhold" /\ o \in {op[k].conn.src, op[k].conn.dst}
WalkRefers(o) == \E t \in Threads : emitting[t] # None /\ emitting[t].src = o
ItemRefers(o) ==
  \E t \in Threads, i \in Nat : Has(t, i) /\ Item(t, i).run = "emit" /\ Item(t, i).src = o

LEMMA ReferencedIs ==
  ASSUME Typed, NEW o \in Objects
  PROVE  Referenced(o) <=> o \in owned \/ OpRefers(o) \/ WalkRefers(o) \/ ItemRefers(o)
<1>. DEFINE inHand == \E t \in Threads : Holds(t, "emit") /\ hand[t].item.src = o
            inQueue == \E t \in Threads : \E j \in 1 .. Len(queue[t]) : queue[t][j].run = "emit" /\ queue[t][j].src = o
<1>1. ASSUME NEW t \in Threads, Holds(t, "emit"), hand[t].item.src = o
      PROVE  ItemRefers(o)
  <2>1. Has(t, 0) /\ Item(t, 0).run = "emit" /\ Item(t, 0).src = o
    BY <1>1 DEF Holds, Has, Item
  <2>. QED BY <2>1 DEF ItemRefers
<1>2. ASSUME NEW t \in Threads, NEW j \in 1 .. Len(queue[t]), queue[t][j].run = "emit", queue[t][j].src = o
      PROVE  ItemRefers(o)
  <2>1. queue[t] \in Seq(Items)
    BY DEF Typed
  <2>2. j \in Nat /\ j # 0
    BY <2>1
  <2>3. Has(t, j) /\ Item(t, j) = queue[t][j]
    BY <2>2 DEF Has, Item
  <2>. QED BY <1>2, <2>2, <2>3 DEF ItemRefers
<1>3. ASSUME NEW t \in Threads, NEW i \in Nat, Has(t, i), Item(t, i).run = "emit", Item(t, i).src = o
      PROVE  inHand \/ inQueue
  <2>1. CASE i = 0
    BY <1>3, <2>1 DEF Has, Item, Holds
  <2>2. CASE i # 0
    BY <1>3, <2>2 DEF Has, Item
  <2>. QED BY <2>1, <2>2
<1>4. ItemRefers(o) => inHand \/ inQueue
  BY <1>3 DEF ItemRefers
<1>5. inHand \/ inQueue => ItemRefers(o)
  BY <1>1, <1>2
<1>6. Referenced(o) <=> o \in owned \/ OpRefers(o) \/ WalkRefers(o) \/ inHand \/ inQueue
  BY DEF Referenced, OpRefers, WalkRefers
<1>. QED BY <1>4, <1>5, <1>6

LEMMA OpRefersStep ==
  ASSUME Typed, Waited, [Next]_vars, NEW o \in Objects, OpRefers(o)'
  PROVE  o \in owned \/ OpRefers(o)
<1>1. PICK k \in Callers : op'[k] # None /\ op'[k].what # "unhold" /\ o \in {op'[k].conn.src, op'[k].conn.dst}
  BY DEF OpRefers
<1>2. ASSUME NEW j \in Callers, Begins(j)
      PROVE  o \in owned \/ OpRefers(o)
  <2>1. CASE j = k
    BY <1>1, <1>2, <2>1 DEF Begins
  <2>2. CASE j # k
    <3>1. op'[k] = op[k]
      BY <1>2, <2>2 DEF Begins
    <3>. QED BY <1>1, <3>1 DEF OpRefers
  <2>. QED BY <2>1, <2>2
<1>3. ASSUME NEW j \in Callers, op[j] # None, Part(j)
      PROVE  OpRefers(o)
  <2>1. CASE j # k
    <3>1. op'[k] = op[k]
      BY <1>3, <2>1, PartOp
    <3>. QED BY <1>1, <3>1 DEF OpRefers
  <2>2. CASE j = k
    <3>1. Finish(k) \/ Proceed(k, op[k].conn) \/ \E d \in outputs : Same(op[k].conn, d) /\ Proceed(k, d)
      BY <1>3, <2>2 DEF Part, ConnectSender, ConnectReceiver, DisconnectSender, DisconnectReceiver, ReleaseHolder
    <3>2. ~ Finish(k)
      BY <1>1 DEF Finish, Typed
    <3>3. PICK d \in Connected : Proceed(k, d) /\ d.src = op[k].conn.src /\ d.dst = op[k].conn.dst
      BY <1>3, <2>2, <3>1, <3>2, OpIs DEF Same, Typed, Made
    <3>4. op'[k].what = op[k].what /\ op'[k].conn = d
      BY <1>3, <2>2, <3>3, ProceedIs
    <3>. QED BY <1>1, <1>3, <2>2, <3>3, <3>4 DEF OpRefers
  <2>. QED BY <2>1, <2>2
<1>4. ASSUME Keeps
      PROVE  OpRefers(o)
  BY <1>1, <1>4 DEF Keeps, OpRefers
<1>5. ASSUME NEW p \in Objects, Destroy(p)
      PROVE  OpRefers(o)
  BY <1>1, <1>5 DEF Destroy, OpRefers
<1>. QED BY <1>2, <1>3, <1>4, <1>5, Steps

-----------------------------------------------------------------------------
(* What a step does to the emissions                                       *)

(* Emissions that run go on with what they have left, or end.              *)
WalksKept ==
  \A t \in Threads : emitting'[t] # None =>
    /\ emitting[t] # None
    /\ emitting'[t].src = emitting[t].src /\ emitting'[t].emission = emitting[t].emission
    /\ emitting'[t].stray = emitting[t].stray /\ emitting'[t].left \subseteq emitting[t].left

(* No emission is posted.                                                  *)
EmitsKept ==
  \A t \in Threads, i \in Nat : Has(t, i)' /\ Item(t, i)'.run = "emit" =>
    \E u \in Threads, j \in Nat : Has(u, j) /\ Item(u, j) = Item(t, i)'

(* What is on its way: what a thread has of its own, in its queue or taken *)
(* from it.  What a thief has taken is not.                                *)
Own(t, i) == Has(t, i) /\ (i = 0 => hand[t].from = t)
SlotAt(t, i) == Own(t, i) /\ Item(t, i).run = "slot" /\ ~ Item(t, i).stray
EmitAt(t, i) == Own(t, i) /\ Item(t, i).run = "emit"

(* It goes from place to place in its order.                               *)
Shifts ==
  {m \in [Threads -> [Nat -> Nat]] : \A u \in Threads, i, j \in Nat : i < j => m[u][i] < m[u][j]}

Moved(m) ==
  \A u \in Threads, i \in Nat :
    /\ SlotAt(u, i)' => SlotAt(u, m[u][i]) /\ Item(u, i)' = Item(u, m[u][i])
    /\ EmitAt(u, i)' => EmitAt(u, m[u][i]) /\ Item(u, i)' = Item(u, m[u][i])

Quiet ==
  /\ log' = log
  /\ WalksKept /\ EmitsKept
  /\ \E m \in Shifts : Moved(m)
  /\ calls' \in Nat /\ calls <= calls'

LEMMA KeptMoves ==
  ASSUME \A u \in Threads, i \in Nat :
           /\ SlotAt(u, i)' => SlotAt(u, i) /\ Item(u, i)' = Item(u, i)
           /\ EmitAt(u, i)' => EmitAt(u, i) /\ Item(u, i)' = Item(u, i)
  PROVE  \E m \in Shifts : Moved(m)
<1>. DEFINE m == [u \in Threads |-> [i \in Nat |-> i]]
<1>1. m \in [Threads -> [Nat -> Nat]] /\ \A u \in Threads, i \in Nat : m[u][i] = i
  OBVIOUS
<1>. HIDE DEF m
<1>2. m \in Shifts
  BY <1>1 DEF Shifts
<1>3. Moved(m)
  BY <1>1 DEF Moved
<1>. QED BY <1>2, <1>3

LEMMA NotMoved ==
  ASSUME Stays
  PROVE  EmitsKept /\ \E m \in Shifts : Moved(m)
<1>1. ASSUME NEW u \in Threads, NEW i \in Nat
      PROVE  (Has(u, i)' => Has(u, i)) /\ (Own(u, i)' => Own(u, i)) /\ Item(u, i)' = Item(u, i)
  BY DEF Stays, Has, Own, Item
<1>2. EmitsKept
  BY <1>1 DEF EmitsKept
<1>3. ASSUME NEW u \in Threads, NEW i \in Nat
      PROVE  /\ SlotAt(u, i)' => SlotAt(u, i) /\ Item(u, i)' = Item(u, i)
             /\ EmitAt(u, i)' => EmitAt(u, i) /\ Item(u, i)' = Item(u, i)
  BY <1>1 DEF SlotAt, EmitAt
<1>. QED BY <1>2, <1>3, KeptMoves

LEMMA PushMoves ==
  ASSUME Typed, NEW t \in Threads, NEW x \in Items, Pushes(t, x), x.run # "emit",
         x.run = "slot" => x.stray
  PROVE  EmitsKept /\ \E m \in Shifts : Moved(m)
<1>1. ASSUME NEW u \in Threads, NEW i \in Nat, Has(u, i)'
      PROVE  \/ Has(u, i) /\ Item(u, i)' = Item(u, i) /\ hand'[u] = hand[u]
             \/ Item(u, i)' = x
  BY <1>1, PushPlaces
<1>2. EmitsKept
  BY <1>1 DEF EmitsKept
<1>3. ASSUME NEW u \in Threads, NEW i \in Nat
      PROVE  /\ SlotAt(u, i)' => SlotAt(u, i) /\ Item(u, i)' = Item(u, i)
             /\ EmitAt(u, i)' => EmitAt(u, i) /\ Item(u, i)' = Item(u, i)
  BY <1>1 DEF SlotAt, EmitAt, Own
<1>. QED BY <1>2, <1>3, KeptMoves

LEMMA EmptyMoves ==
  ASSUME Typed, NEW t \in Threads, Empties(t)
  PROVE  EmitsKept /\ \E m \in Shifts : Moved(m)
<1>1. ASSUME NEW u \in Threads, NEW i \in Nat, Has(u, i)'
      PROVE  Has(u, i) /\ Item(u, i)' = Item(u, i) /\ (i = 0 => hand'[u] = hand[u])
  <2>1. Has(u, i) /\ Item(u, i)' = Item(u, i)
    BY <1>1, EmptyPlaces
  <2>2. i = 0 => u # t
    BY <1>1, EmptyPlaces
  <2>3. \A v \in Threads : v # t => hand'[v] = hand[v]
    BY EmptyPlaces
  <2>. QED BY <2>1, <2>2, <2>3
<1>2. EmitsKept
  BY <1>1 DEF EmitsKept
<1>3. ASSUME NEW u \in Threads, NEW i \in Nat
      PROVE  /\ SlotAt(u, i)' => SlotAt(u, i) /\ Item(u, i)' = Item(u, i)
             /\ EmitAt(u, i)' => EmitAt(u, i) /\ Item(u, i)' = Item(u, i)
  BY <1>1 DEF SlotAt, EmitAt, Own
<1>. QED BY <1>2, <1>3, KeptMoves

(* A thread that takes its own has the places of its queue shifted up by   *)
(* one; a thief leaves the hand of whom it robs alone.                     *)
LEMMA TakeMoves ==
  ASSUME Typed, NEW t \in Threads, NEW u \in Threads, Takes(t, u)
  PROVE  EmitsKept /\ \E m \in Shifts : Moved(m)
<1>1. EmitsKept
  <2>1. ASSUME NEW v \in Threads, NEW i \in Nat, Has(v, i)'
        PROVE  \E w \in Threads, j \in Nat : Has(w, j) /\ Item(w, j) = Item(v, i)'
    <3>1. 1 \in Nat /\ i + 1 \in Nat
      OBVIOUS
    <3>. QED BY <2>1, <3>1, TakePlaces
  <2>. QED BY <2>1 DEF EmitsKept
<1>. DEFINE g(v, i) == IF v = u /\ (i # 0 \/ t = u) THEN i + 1 ELSE i
            m == [v \in Threads |-> [i \in Nat |-> g(v, i)]]
<1>2. \A v \in Threads, i \in Nat : g(v, i) \in Nat
  OBVIOUS
<1>3. \A v \in Threads, i, j \in Nat : i < j => g(v, i) < g(v, j)
  OBVIOUS
<1>4. ASSUME NEW v \in Threads, NEW i \in Nat, Own(v, i)'
      PROVE  Own(v, g(v, i)) /\ Item(v, i)' = Item(v, g(v, i))
  <2>1. Has(v, i)' /\ (i = 0 => hand'[v].from = v)
    BY <1>4 DEF Own
  <2>2. hand'[t].from = u /\ \A w \in Threads : w # t => hand'[w] = hand[w]
    BY TakeIs
  <2>3. CASE v = t /\ i = 0
    <3>1. t = u /\ g(v, i) = 1 /\ 1 # 0
      BY <2>1, <2>2, <2>3
    <3>2. Has(u, 1) /\ Item(v, i)' = Item(u, 1)
      BY <2>1, <2>3, TakePlaces
    <3>. QED BY <2>3, <3>1, <3>2 DEF Own
  <2>4. CASE v = u /\ i # 0
    <3>1. g(v, i) = i + 1 /\ i + 1 # 0
      BY <2>4
    <3>2. Has(u, i + 1) /\ Item(v, i)' = Item(u, i + 1)
      BY <2>1, <2>4, TakePlaces
    <3>. QED BY <2>4, <3>1, <3>2 DEF Own
  <2>5. CASE ~ (v = t /\ i = 0) /\ ~ (v = u /\ i # 0)
    <3>1. g(v, i) = i
      BY <2>5
    <3>2. Has(v, i) /\ Item(v, i)' = Item(v, i)
      BY <2>1, <2>5, TakePlaces
    <3>3. i = 0 => hand[v].from = v
      BY <2>1, <2>2, <2>5
    <3>. QED BY <3>1, <3>2, <3>3 DEF Own
  <2>. QED BY <2>3, <2>4, <2>5
<1>. HIDE DEF g
<1>5. m \in [Threads -> [Nat -> Nat]] /\ \A v \in Threads, i \in Nat : m[v][i] = g(v, i)
  BY <1>2
<1>. HIDE DEF m
<1>6. m \in Shifts
  BY <1>3, <1>5 DEF Shifts
<1>7. ASSUME NEW v \in Threads, NEW i \in Nat
      PROVE  /\ SlotAt(v, i)' => SlotAt(v, m[v][i]) /\ Item(v, i)' = Item(v, m[v][i])
             /\ EmitAt(v, i)' => EmitAt(v, m[v][i]) /\ Item(v, i)' = Item(v, m[v][i])
  BY <1>4, <1>5 DEF SlotAt, EmitAt
<1>8. Moved(m)
  BY <1>7 DEF Moved
<1>. QED BY <1>1, <1>6, <1>8

LEMMA EraseKeepsWalks ==
  ASSUME Typed, NEW e, Erase(e)
  PROVE  WalksKept
BY EraseShrinks DEF WalksKept, Shrinks

LEMMA PartQuiet ==
  ASSUME Typed, NEW k \in Callers, op[k] # None, Part(k)
  PROVE  WalksKept /\ log' = log /\ calls' = calls
<1>1. emitting' = emitting \/ \E e : Erase(e)
  BY DEF Part, ConnectSender, ConnectReceiver, DisconnectSender, DisconnectReceiver, ReleaseHolder
<1>2. emitting' = emitting => WalksKept
  BY DEF WalksKept
<1>. QED BY <1>1, <1>2, EraseKeepsWalks DEF Part

LEMMA Flow ==
  ASSUME Typed, Waited, [Next]_vars
  PROVE  /\ affinity' = affinity /\ owned' \subseteq owned
         /\ \/ Quiet
            \/ \E k \in Callers, s \in owned : s \in Objects /\ Emit(k, s)
            \/ \E t \in Threads : RunEmit(t) \/ CallSlot(t) \/ RunSlot(t)
<1>0. calls \in Nat
  BY MaxCallsAssumption DEF Typed
<1>1. affinity' = affinity /\ owned' \subseteq owned
  BY DEF Next, Operation, DisconnectHolder, ConnectLambda, Await, Connect, Disconnect, Hops, Emit,
         Caller, InlinePart, PostPart, PostOther, Worker, Take, Look, Rob, RunOther, RunPart, Part, RunEmit,
         CallSlot, EmitEnds, RunSlot, Drop, Destroy, vars, objects
<1>2. ASSUME NEW k \in Callers, Operation(k)
      PROVE  Quiet \/ \E s \in owned : s \in Objects /\ Emit(k, s)
  <2>1. ASSUME Stays, emitting' = emitting, calls' = calls + 1
        PROVE  Quiet
    BY <1>0, <1>2, <2>1, OperationIs, NotMoved DEF Quiet, WalksKept
  <2>. QED BY <1>2, <2>1, OperationIs
<1>3. ASSUME NEW k \in Callers, InlinePart(k)
      PROVE  Quiet
  <2>1. op[k] # None /\ Part(k) /\ Stays
    BY <1>3 DEF InlinePart, pool, Stays
  <2>. QED BY <1>0, <2>1, PartQuiet, NotMoved DEF Quiet
<1>4. ASSUME NEW t \in Threads, NEW x \in Items, Pushes(t, x), x.run \in {"part", "other"},
             UNCHANGED << emitting, calls, log >>
      PROVE  Quiet
  <2>1. EmitsKept /\ \E m \in Shifts : Moved(m)
    BY <1>4, PushMoves
  <2>2. WalksKept
    BY <1>4 DEF WalksKept
  <2>. QED BY <1>0, <1>4, <2>1, <2>2 DEF Quiet
<1>5. ASSUME NEW k \in Callers, PostPart(k)
      PROVE  Quiet
  <2>. DEFINE x == [run |-> "part", caller |-> k]
  <2>1. x \in Items /\ x.run = "part"
    BY NewItems
  <2>2. PICK t \in Threads : Pushes(t, x)
    BY <1>5, PostPartIs
  <2>3. UNCHANGED << emitting, calls, log >>
    BY <1>5, PostPartIs
  <2>. HIDE DEF x
  <2>. QED BY <1>4, <2>1, <2>2, <2>3
<1>6. ASSUME NEW t \in Threads, PostOther(t)
      PROVE  Quiet
  <2>. DEFINE x == [run |-> "other"]
  <2>1. x \in Items /\ x.run = "other" /\ Pushes(t, x) /\ UNCHANGED << emitting, calls, log >>
    BY <1>6, NewItems DEF PostOther, Pushes
  <2>. HIDE DEF x
  <2>. QED BY <1>4, <2>1
<1>7. ASSUME NEW t \in Threads, Empties(t), WalksKept, UNCHANGED << calls, log >>
      PROVE  Quiet
  BY <1>0, <1>7, EmptyMoves DEF Quiet
<1>8. ASSUME NEW t \in Threads, RunPart(t)
      PROVE  Quiet
  <2>. DEFINE k == Item(t, 0).caller
  <2>1. Empties(t) /\ k \in Callers /\ op[k] # None /\ Part(k)
    BY <1>8, RunPartTyped
  <2>. HIDE DEF k
  <2>. QED BY <1>7, <2>1, PartQuiet
<1>9. ASSUME NEW t \in Threads, Take(t) \/ Look(t) \/ Rob(t) \/ RunOther(t)
      PROVE  Quiet
  <2>1. UNCHANGED << emitting, calls, log >>
    BY <1>9, TakingIs
  <2>2. WalksKept
    BY <2>1 DEF WalksKept
  <2>3. (\E u \in Threads : Takes(t, u)) \/ Empties(t)
    BY <1>9, TakingIs
  <2>4. ASSUME NEW u \in Threads, Takes(t, u)
        PROVE  Quiet
    BY <1>0, <2>1, <2>2, <2>4, TakeMoves DEF Quiet
  <2>. QED BY <1>7, <2>1, <2>2, <2>3, <2>4
<1>10. ASSUME Stays, WalksKept, UNCHANGED << calls, log >>
       PROVE  Quiet
  BY <1>0, <1>10, NotMoved DEF Quiet
<1>11. ASSUME NEW t \in Threads, EmitEnds(t)
       PROVE  Quiet
  <2>1. Stays /\ UNCHANGED << calls, log >>
    BY <1>11 DEF EmitEnds, pool, Stays
  <2>2. WalksKept
    BY <1>11 DEF EmitEnds, WalksKept, Typed
  <2>. QED BY <1>10, <2>1, <2>2
<1>12. ASSUME NEW o \in Objects, Drop(o) \/ Destroy(o)
       PROVE  Quiet
  <2>1. Stays /\ UNCHANGED << calls, log >>
    BY <1>12 DEF Drop, Destroy, pool, Stays
  <2>2. emitting' = emitting \/ \E e : Erase(e)
    BY <1>12 DEF Drop, Destroy
  <2>3. WalksKept
    BY <2>2, EraseKeepsWalks DEF WalksKept
  <2>. QED BY <1>10, <2>1, <2>3
<1>13. ASSUME UNCHANGED vars
       PROVE  Quiet
  <2>1. Stays /\ UNCHANGED << calls, log >> /\ emitting' = emitting
    BY <1>13 DEF vars, pool, Stays
  <2>. QED BY <1>10, <2>1 DEF WalksKept
<1>. QED BY <1>1, <1>2, <1>3, <1>5, <1>6, <1>8, <1>9, <1>11, <1>12, <1>13 DEF Next, Caller, Worker

(* No step makes a reference to an object that has none.                   *)
LEMMA KeptRefers ==
  ASSUME EmitsKept, NEW o \in Objects, ItemRefers(o)'
  PROVE  ItemRefers(o)
<1>1. PICK t \in Threads, i \in Nat : Has(t, i)' /\ Item(t, i)'.run = "emit" /\ Item(t, i)'.src = o
  BY DEF ItemRefers
<1>2. PICK u \in Threads, j \in Nat : Has(u, j) /\ Item(u, j) = Item(t, i)'
  BY <1>1 DEF EmitsKept
<1>. QED BY <1>1, <1>2 DEF ItemRefers

LEMMA PushedRefers ==
  ASSUME Typed, NEW t \in Threads, NEW x \in Items, Pushes(t, x), NEW o \in Objects, ItemRefers(o)'
  PROVE  ItemRefers(o) \/ (x.run = "emit" /\ x.src = o)
<1>1. PICK u \in Threads, i \in Nat : Has(u, i)' /\ Item(u, i)'.run = "emit" /\ Item(u, i)'.src = o
  BY DEF ItemRefers
<1>2. (Has(u, i) /\ Item(u, i)' = Item(u, i)) \/ Item(u, i)' = x
  BY <1>1, PushPlaces
<1>. QED BY <1>1, <1>2 DEF ItemRefers

LEMMA FlowRefers ==
  ASSUME Typed, Waited, [Next]_vars, NEW o \in Objects, WalkRefers(o)' \/ ItemRefers(o)'
  PROVE  o \in owned \/ WalkRefers(o) \/ ItemRefers(o)
<1>1. CASE Quiet
  <2>1. WalkRefers(o)' => WalkRefers(o)
    BY <1>1 DEF Quiet, WalksKept, WalkRefers
  <2>2. ItemRefers(o)' => ItemRefers(o)
    BY <1>1, KeptRefers DEF Quiet
  <2>. QED BY <2>1, <2>2
<1>2. ASSUME NEW t \in Threads, NEW walk \in Walks, emitting' = [emitting EXCEPT ![t] = walk], WalkRefers(o)'
      PROVE  WalkRefers(o) \/ walk.src = o
  BY <1>2 DEF WalkRefers, Typed
<1>3. ASSUME NEW k \in Callers, NEW s \in owned, s \in Objects, Emit(k, s)
      PROVE  o \in owned \/ WalkRefers(o) \/ ItemRefers(o)
  <2>. DEFINE walk == Walk(s, Emission(calls + 1, k), FALSE)
              x == EmitItem(k, s)
  <2>1. affinity[s] \in Threads /\ x \in Items /\ Emission(calls + 1, k) \in Emissions
    BY <1>3, EmitIs
  <2>2. walk \in Walks /\ walk.src = s /\ x.src = s
    <3>1. From(s) \subseteq Made
      BY DEF From, Typed
    <3>. QED BY <1>3, <2>1, <3>1 DEF Walk, Walks, EmitItem
  <2>3. \/ Stays /\ emitting' = [emitting EXCEPT ![affinity[s]] = walk]
        \/ Pushes(affinity[s], x) /\ emitting' = emitting
    BY <1>3, EmitIs
  <2>. HIDE DEF walk, x
  <2>4. CASE Stays /\ emitting' = [emitting EXCEPT ![affinity[s]] = walk]
    BY <1>2, <2>1, <2>2, <2>4, NotMoved, KeptRefers
  <2>5. CASE Pushes(affinity[s], x) /\ emitting' = emitting
    <3>1. WalkRefers(o)' => WalkRefers(o)
      BY <2>5 DEF WalkRefers
    <3>. QED BY <2>1, <2>2, <2>5, <3>1, PushedRefers
  <2>. QED BY <2>3, <2>4, <2>5
<1>4. ASSUME NEW t \in Threads, RunEmit(t)
      PROVE  WalkRefers(o) \/ ItemRefers(o)
  <2>. DEFINE walk == Walk(Item(t, 0).src, Item(t, 0).emission, Stolen(t))
  <2>1. /\ Empties(t) /\ Has(t, 0) /\ Item(t, 0).run = "emit"
        /\ walk \in Walks /\ emitting' = [emitting EXCEPT ![t] = walk]
    BY <1>4, RunEmitTyped
  <2>2. walk.src = Item(t, 0).src
    BY DEF Walk
  <2>. HIDE DEF walk
  <2>3. ItemRefers(Item(t, 0).src)
    BY <2>1 DEF ItemRefers
  <2>4. ItemRefers(o)' => ItemRefers(o)
    BY <2>1, EmptyMoves, KeptRefers
  <2>5. WalkRefers(o)' => WalkRefers(o) \/ walk.src = o
    BY <1>2, <2>1
  <2>. QED BY <2>2, <2>3, <2>4, <2>5
<1>5. ASSUME NEW t \in Threads, CallSlot(t)
      PROVE  WalkRefers(o) \/ ItemRefers(o)
  <2>1. Shrinks(emitting, emitting')
    BY <1>5, CallSlotIs
  <2>2. WalkRefers(o)' => WalkRefers(o)
    BY <2>1 DEF WalkRefers, Shrinks
  <2>3. CASE Stays
    BY <2>2, <2>3, NotMoved, KeptRefers
  <2>4. ASSUME NEW u \in Threads, NEW x \in Items, x.run = "slot", Pushes(u, x)
        PROVE  WalkRefers(o) \/ ItemRefers(o)
    BY <2>2, <2>4, PushedRefers
  <2>. QED BY <1>5, <2>3, <2>4, CallSlotPool
<1>6. ASSUME NEW t \in Threads, RunSlot(t)
      PROVE  WalkRefers(o) \/ ItemRefers(o)
  <2>1. Empties(t) /\ emitting' = emitting
    BY <1>6, RunSlotTyped
  <2>2. ItemRefers(o)' => ItemRefers(o)
    BY <2>1, EmptyMoves, KeptRefers
  <2>. QED BY <2>1, <2>2 DEF WalkRefers
<1>. QED BY <1>1, <1>3, <1>4, <1>5, <1>6, Flow

LEMMA ReferencesStep ==
  ASSUME Typed, Waited, [Next]_vars, NEW o \in Objects, Referenced(o)'
  PROVE  Referenced(o)
<1>1. Typed'
  BY TypedStep
<1>2. o \in owned' \/ OpRefers(o)' \/ WalkRefers(o)' \/ ItemRefers(o)'
  <2>1. (Typed => (Referenced(o) => o \in owned \/ OpRefers(o) \/ WalkRefers(o) \/ ItemRefers(o)))'
    BY ReferencedIs, PTL
  <2>. QED BY <1>1, <2>1
<1>3. o \in owned \/ OpRefers(o) \/ WalkRefers(o) \/ ItemRefers(o)
  BY <1>2, Flow, OpRefersStep, FlowRefers
<1>. QED BY <1>3, ReferencedIs

(* What is gone is referred to no more.                                    *)
GoneDropped == \A o \in gone : ~ Referenced(o)

GoneInv == MapsInv /\ GoneDropped /\ GoneIsCut

LEMMA GoneStep ==
  ASSUME Typed, Waited, GoneInv, [Next]_vars
  PROVE  GoneInv'
<1>1. MapsInv'
  BY MapsStep DEF GoneInv
<1>2. ASSUME NEW o \in Objects, Destroy(o)
      PROVE  GoneDropped' /\ GoneIsCut'
  <2>1. gone' = gone \union {o} /\ ~ Referenced(o) /\ gone \subseteq Objects
    BY <1>2 DEF Destroy, Typed
  <2>2. GoneDropped'
    <3>1. ASSUME NEW p \in gone'
          PROVE  ~ Referenced(p)'
      <4>1. p \in Objects /\ ~ Referenced(p)
        BY <2>1 DEF GoneInv, GoneDropped
      <4>. QED BY <4>1, ReferencesStep
    <3>. QED BY <3>1 DEF GoneDropped
  <2>3. outputs' = outputs \ {c \in outputs : c.src = o \/ (c.dst = o /\ c \in inputs)}
    BY <1>2, DestroyMaps DEF GoneInv
  <2>4. ASSUME NEW c \in outputs'
        PROVE  c.src \notin gone' /\ c.dst \notin gone'
    <3>1. c \in outputs /\ c.src # o /\ ~ (c.dst = o /\ c \in inputs)
      BY <2>3
    <3>2. \/ c.slot # "method" \/ c \in inputs
          \/ \E k \in Callers : op[k] # None /\ op[k].what = "connect" /\ op[k].conn = c
      BY <3>1 DEF GoneInv, MapsInv, ReceiverKnows
    <3>3. c.slot # "method" => c.src = c.dst
      BY <3>1 DEF GoneInv, MapsInv, Lambdas
    <3>4. (\E k \in Callers : op[k] # None /\ op[k].what = "connect" /\ op[k].conn = c) => c.dst # o
      BY <2>1 DEF Referenced
    <3>5. c.dst # o
      BY <3>1, <3>2, <3>3, <3>4
    <3>6. c.src \notin gone /\ c.dst \notin gone
      BY <3>1 DEF GoneInv, GoneIsCut
    <3>. QED BY <2>1, <3>1, <3>5, <3>6
  <2>. QED BY <2>2, <2>4 DEF GoneIsCut
<1>3. ASSUME gone' = gone
      PROVE  GoneDropped'
  <2>1. ASSUME NEW p \in gone'
        PROVE  ~ Referenced(p)'
    <3>1. p \in Objects /\ ~ Referenced(p)
      BY <1>3 DEF GoneInv, GoneDropped, Typed
    <3>. QED BY <3>1, ReferencesStep
  <2>. QED BY <2>1 DEF GoneDropped
<1>4. ASSUME gone' = gone, outputs' \subseteq outputs
      PROVE  GoneIsCut'
  BY <1>4 DEF GoneInv, GoneIsCut
<1>5. ASSUME NEW k \in Callers, op[k] # None, Part(k)
      PROVE  gone' = gone /\ GoneIsCut'
  <2>1. gone' = gone
    BY <1>5 DEF Part, objects
  <2>2. \/ outputs' \subseteq outputs
        \/ Making(k) /\ outputs' = outputs \union {op[k].conn}
    BY <1>5 DEF Part, At, ConnectSender, ConnectReceiver, DisconnectSender, DisconnectReceiver, ReleaseHolder,
       Making, Erase, maps
  <2>3. Making(k) => Referenced(op[k].conn.src) /\ Referenced(op[k].conn.dst)
    BY DEF Making, Referenced
  <2>4. Making(k) => op[k].conn.src \notin gone /\ op[k].conn.dst \notin gone
    BY <2>3 DEF GoneInv, GoneDropped
  <2>. QED BY <2>1, <2>2, <2>4 DEF GoneInv, GoneIsCut
<1>6. \A k \in Callers : Begins(k) => gone' = gone /\ outputs' \subseteq outputs
  BY DEF Begins, maps
<1>7. Keeps => gone' = gone /\ outputs' \subseteq outputs
  BY DEF Keeps
<1>. QED BY <1>1, <1>2, <1>3, <1>4, <1>5, <1>6, <1>7, Steps DEF GoneInv

-----------------------------------------------------------------------------
(* Threads                                                                 *)

Walking(t) == emitting[t] # None /\ ~ emitting[t].stray
Logged == {j \in 1 .. Len(log) : ~ log[j].stray}

(* An emission runs on its sender's thread, posted by callers of others; a *)
(* slot is posted to its receiver's, with the exception of Ordered.        *)
WalkHere(t) == affinity[emitting[t].src] = t /\ \A c \in emitting[t].left : c.src = emitting[t].src
EmitHere(t, i) == affinity[Item(t, i).src] = t /\ Home[Item(t, i).emission.by] # t
SlotHere(t, i) ==
  ~ Inline(Item(t, i).conn) /\ (Ordered(Item(t, i).conn) => affinity[Item(t, i).conn.dst] = t)
LogHere(j) == Ordered(log[j].conn) => log[j].thread = affinity[log[j].conn.dst]

Threaded ==
  /\ \A t \in Threads : Walking(t) => WalkHere(t)
  /\ \A t \in Threads, i \in Nat : EmitAt(t, i) => EmitHere(t, i)
  /\ \A t \in Threads, i \in Nat : SlotAt(t, i) => SlotHere(t, i)
  /\ \A j \in Logged : LogHere(j)

(* What steps of thieves keep, too.                                        *)
LogKept == Logged' = Logged /\ \A j \in Logged : log'[j] = log[j]

WalkKept(t) ==
  Walking(t)' =>
    /\ Walking(t)
    /\ emitting'[t].src = emitting[t].src /\ emitting'[t].emission = emitting[t].emission
    /\ emitting'[t].left \subseteq emitting[t].left

Calm ==
  /\ LogKept /\ \A t \in Threads : WalkKept(t)
  /\ \E m \in Shifts : Moved(m)
  /\ calls' \in Nat /\ calls <= calls'

LEMMA LogStays ==
  ASSUME log' = log
  PROVE  LogKept
BY DEF LogKept, Logged

LEMMA WalksStay ==
  ASSUME WalksKept
  PROVE  \A t \in Threads : WalkKept(t)
BY DEF WalksKept, WalkKept, Walking

LEMMA ShrinksStay ==
  ASSUME Shrinks(emitting, emitting')
  PROVE  \A t \in Threads : WalkKept(t)
BY DEF Shrinks, WalkKept, Walking

LEMMA QuietCalm ==
  ASSUME Quiet
  PROVE  Calm
BY LogStays, WalksStay DEF Quiet, Calm

LEMMA CallAppended ==
  ASSUME log \in Seq(Calls), NEW x \in Calls, log' = Append(log, x)
  PROVE  /\ x.stray => LogKept
         /\ Len(log) \in Nat
         /\ \A j \in Logged' : \/ j \in Logged /\ log'[j] = log[j] /\ j <= Len(log)
                               \/ j = Len(log) + 1 /\ log'[j] = x
<1>1. /\ Len(log) \in Nat /\ Len(log') = Len(log) + 1 /\ log'[Len(log) + 1] = x
      /\ \A j \in 1 .. Len(log) : log'[j] = log[j]
  OBVIOUS
<1>2. ASSUME x.stray
      PROVE  Logged' = Logged
  BY <1>1, <1>2 DEF Logged
<1>3. x.stray => LogKept
  BY <1>1, <1>2 DEF LogKept, Logged
<1>4. ASSUME NEW j \in Logged'
      PROVE  \/ j \in Logged /\ log'[j] = log[j] /\ j <= Len(log)
             \/ j = Len(log) + 1 /\ log'[j] = x
  <2>1. j \in 1 .. Len(log') /\ ~ log'[j].stray
    BY DEF Logged
  <2>. QED BY <1>1, <2>1 DEF Logged
<1>. QED BY <1>1, <1>3, <1>4

(* An emission that a thief has taken, the slots it calls and the slots a  *)
(* thief has taken leave what is on its way alone.                         *)
LEMMA StrayEmit ==
  ASSUME Typed, NEW t \in Threads, RunEmit(t), Stolen(t)
  PROVE  Calm
<1>. DEFINE walk == Walk(Item(t, 0).src, Item(t, 0).emission, Stolen(t))
<1>0. calls \in Nat
  BY MaxCallsAssumption DEF Typed
<1>1. /\ Empties(t) /\ walk \in Walks /\ emitting' = [emitting EXCEPT ![t] = walk]
      /\ log' = log /\ calls' = calls
  BY RunEmitTyped
<1>2. walk.stray
  BY DEF Walk
<1>. HIDE DEF walk
<1>3. \A u \in Threads : WalkKept(u)
  BY <1>1, <1>2 DEF WalkKept, Walking, Typed
<1>. QED BY <1>0, <1>1, <1>3, LogStays, EmptyMoves DEF Calm

LEMMA StraySlot ==
  ASSUME Typed, NEW t \in Threads, RunSlot(t), Stolen(t) \/ Item(t, 0).stray
  PROVE  Calm
<1>1. Empties(t) /\ emitting' = emitting /\ calls' = calls /\ calls \in Nat
  BY RunSlotTyped, MaxCallsAssumption DEF Typed
<1>2. log' = log \/ \E x \in Calls : x.stray /\ log' = Append(log, x)
  BY RunSlotTyped
<1>3. LogKept
  BY <1>2, LogStays, CallAppended DEF Typed
<1>4. \A u \in Threads : WalkKept(u)
  BY <1>1 DEF WalkKept, Walking
<1>. QED BY <1>1, <1>3, <1>4, EmptyMoves DEF Calm

LEMMA StrayCall ==
  ASSUME Typed, NEW t \in Threads, CallSlot(t), emitting[t].stray
  PROVE  Calm
<1>. DEFINE e == emitting[t].emission
<1>1. emitting[t] # None /\ calls' = calls /\ calls \in Nat /\ \A u \in Threads : WalkKept(u)
  BY CallSlotIs, ShrinksStay, MaxCallsAssumption DEF Typed
<1>2. PICK c \in emitting[t].left : CallsSlot(t, c)
  BY CallSlotIs
<1>3. c \in Made /\ e \in Emissions /\ emitting[t].stray = TRUE
  BY <1>1, WalkIs
<1>4. e.number \in 0 .. MaxCalls
  BY <1>3, MaxCallsAssumption DEF Emissions, Numbers
<1>. DEFINE x == SlotCall(c, e, e.number, t, TRUE)
            y == SlotItem(c, e, TRUE)
<1>5. x \in Calls /\ x.stray /\ y \in Items /\ y.run = "slot" /\ y.stray
  BY <1>3, <1>4, SlotCallTyped DEF SlotCall, SlotItem
<1>6. SlotRoutes(c, t) \subseteq Threads
  BY <1>3, RoutesTyped
<1>7. \/ log' = log /\ Stays
      \/ log' = Append(log, x) /\ Stays
      \/ log' = log /\ \E u \in SlotRoutes(c, t) : Pushes(u, y)
  BY <1>2, <1>3 DEF CallsSlot
<1>. HIDE DEF x, y
<1>8. LogKept
  BY <1>5, <1>7, LogStays, CallAppended DEF Typed
<1>9. \E m \in Shifts : Moved(m)
  BY <1>5, <1>6, <1>7, NotMoved, PushMoves
<1>. QED BY <1>1, <1>8, <1>9 DEF Calm

(* What a step does to the order, then.                                    *)
LEMMA Ways ==
  ASSUME Typed, Waited, [Next]_vars
  PROVE  /\ affinity' = affinity
         /\ \/ Calm
            \/ \E k \in Callers, s \in Objects : Emit(k, s)
            \/ \E t \in Threads : RunEmit(t) /\ ~ Stolen(t)
            \/ \E t \in Threads : CallSlot(t) /\ Walking(t)
            \/ \E t \in Threads : RunSlot(t) /\ ~ Stolen(t) /\ ~ Item(t, 0).stray
<1>1. \A t \in Threads : CallSlot(t) => Walking(t) \/ emitting[t].stray
  BY CallSlotIs DEF Walking
<1>. QED BY <1>1, Flow, QuietCalm, StrayEmit, StraySlot, StrayCall

(* What is at a place after a step, if none is new.                        *)
LEMMA MovedAt ==
  ASSUME NEW m \in Shifts, Moved(m), NEW t \in Threads, NEW i \in Nat
  PROVE  /\ m[t][i] \in Nat
         /\ SlotAt(t, i)' => SlotAt(t, m[t][i]) /\ Item(t, i)' = Item(t, m[t][i])
         /\ EmitAt(t, i)' => EmitAt(t, m[t][i]) /\ Item(t, i)' = Item(t, m[t][i])
BY DEF Shifts, Moved

LEMMA PushedAt ==
  ASSUME Typed, NEW t \in Threads, NEW x \in Items, Pushes(t, x), NEW u \in Threads, NEW i \in Nat
  PROVE  /\ SlotAt(u, i)' => \/ SlotAt(u, i) /\ Item(u, i)' = Item(u, i)
                             \/ /\ u = t /\ Item(u, i)' = x /\ x.run = "slot"
                                /\ Len(queue[u]) \in Nat /\ i = Len(queue[u]) + 1
         /\ EmitAt(u, i)' => \/ EmitAt(u, i) /\ Item(u, i)' = Item(u, i)
                             \/ /\ u = t /\ Item(u, i)' = x /\ x.run = "emit"
                                /\ Len(queue[u]) \in Nat /\ i = Len(queue[u]) + 1
<1>1. ASSUME Own(u, i)'
      PROVE  \/ Own(u, i) /\ Item(u, i)' = Item(u, i)
             \/ u = t /\ Item(u, i)' = x /\ Len(queue[u]) \in Nat /\ i = Len(queue[u]) + 1
  <2>1. \/ Has(u, i) /\ Item(u, i)' = Item(u, i)
        \/ u = t /\ Item(u, i)' = x /\ Len(queue[u]) \in Nat /\ i = Len(queue[u]) + 1
    BY <1>1, PushPlaces DEF Own
  <2>2. hand' = hand
    BY DEF Pushes
  <2>. QED BY <1>1, <2>1, <2>2 DEF Own
<1>. QED BY <1>1 DEF SlotAt, EmitAt

(* A place is at most the last.                                            *)
LEMMA PlaceIs ==
  ASSUME Typed, NEW u \in Threads, NEW i \in Nat, Has(u, i)
  PROVE  Len(queue[u]) \in Nat /\ i <= Len(queue[u])
<1>1. queue[u] \in Seq(Items)
  BY DEF Typed
<1>. QED BY <1>1 DEF Has

(* A hand that is emptied leaves the places of its thread's queue.         *)
LEMMA EmptiedAt ==
  ASSUME Typed, NEW t \in Threads, Empties(t), NEW u \in Threads, NEW i \in Nat
  PROVE  /\ SlotAt(u, i)' => SlotAt(u, i) /\ Item(u, i)' = Item(u, i) /\ (u = t => 0 < i)
         /\ EmitAt(u, i)' => EmitAt(u, i) /\ Item(u, i)' = Item(u, i) /\ (u = t => 0 < i)
<1>1. ASSUME Own(u, i)'
      PROVE  Own(u, i) /\ Item(u, i)' = Item(u, i) /\ (u = t => 0 < i)
  <2>1. Has(u, i)' /\ ~ Has(t, 0)'
    BY <1>1, EmptyPlaces DEF Own
  <2>2. Has(u, i) /\ Item(u, i)' = Item(u, i)
    BY <2>1, EmptyPlaces
  <2>3. i = 0 => u # t
    BY <2>1
  <2>4. u # t => hand'[u] = hand[u]
    BY EmptyPlaces
  <2>. QED BY <1>1, <2>2, <2>3, <2>4 DEF Own
<1>. QED BY <1>1 DEF SlotAt, EmitAt

LEMMA MovedThreads ==
  ASSUME Typed, Threaded, affinity' = affinity, NEW m \in Shifts, Moved(m)
  PROVE  /\ \A t \in Threads, i \in Nat : EmitAt(t, i)' => EmitHere(t, i)'
         /\ \A t \in Threads, i \in Nat : SlotAt(t, i)' => SlotHere(t, i)'
<1>1. ASSUME NEW t \in Threads, NEW i \in Nat, EmitAt(t, i)'
      PROVE  EmitHere(t, i)'
  BY <1>1, MovedAt DEF Threaded, EmitHere
<1>2. ASSUME NEW t \in Threads, NEW i \in Nat, SlotAt(t, i)'
      PROVE  SlotHere(t, i)'
  <2>. DEFINE j == m[t][i]
  <2>1. j \in Nat /\ SlotAt(t, j) /\ Item(t, i)' = Item(t, j)
    BY <1>2, MovedAt
  <2>2. ~ Inline(Item(t, j).conn) /\ (Ordered(Item(t, j).conn) => affinity[Item(t, j).conn.dst] = t)
    BY <2>1 DEF Threaded, SlotHere
  <2>. QED BY <2>1, <2>2 DEF SlotHere, Inline, Ordered, OnePart
<1>. QED BY <1>1, <1>2

LEMMA LogThreads ==
  ASSUME Typed, Threaded, affinity' = affinity
  PROVE  /\ LogKept => \A j \in Logged' : LogHere(j)'
         /\ \A x \in Calls :
              log' = Append(log, x) /\ (Ordered(x.conn) => x.thread = affinity[x.conn.dst]) =>
                \A j \in Logged' : LogHere(j)'
<1>1. ASSUME LogKept, NEW j \in Logged'
      PROVE  LogHere(j)'
  BY <1>1 DEF LogKept, Threaded, LogHere, Ordered, OnePart
<1>2. ASSUME NEW x \in Calls, log' = Append(log, x), Ordered(x.conn) => x.thread = affinity[x.conn.dst],
             NEW j \in Logged'
      PROVE  LogHere(j)'
  <2>1. (j \in Logged /\ log'[j] = log[j]) \/ log'[j] = x
    BY <1>2, CallAppended DEF Typed
  <2>. QED BY <1>2, <2>1 DEF Threaded, LogHere, Ordered, OnePart
<1>. QED BY <1>1, <1>2

LEMMA WalksThreads ==
  ASSUME Typed, Threaded, affinity' = affinity
  PROVE  /\ (\A t \in Threads : WalkKept(t)) => \A t \in Threads : Walking(t)' => WalkHere(t)'
         /\ \A s \in Objects : \A n :
              emitting' = [emitting EXCEPT ![affinity[s]] = Walk(s, n, FALSE)] =>
                \A t \in Threads : Walking(t)' => WalkHere(t)'
<1>1. ASSUME \A t \in Threads : WalkKept(t), NEW t \in Threads, Walking(t)'
      PROVE  WalkHere(t)'
  <2>1. Walking(t) /\ emitting'[t].src = emitting[t].src /\ emitting'[t].left \subseteq emitting[t].left
    BY <1>1 DEF WalkKept
  <2>2. WalkHere(t)
    BY <2>1 DEF Threaded
  <2>. QED BY <2>1, <2>2 DEF WalkHere
<1>2. ASSUME NEW s \in Objects, NEW n, emitting' = [emitting EXCEPT ![affinity[s]] = Walk(s, n, FALSE)],
             NEW t \in Threads, Walking(t)'
      PROVE  WalkHere(t)'
  <2>1. CASE t = affinity[s]
    <3>1. emitting'[t] = Walk(s, n, FALSE)
      BY <1>2, <2>1 DEF Typed
    <3>2. emitting'[t].src = s /\ emitting'[t].left = From(s)
      BY <3>1 DEF Walk
    <3>3. \A c \in From(s) : c.src = s
      BY DEF From
    <3>. QED BY <2>1, <3>2, <3>3 DEF WalkHere
  <2>2. CASE t # affinity[s]
    <3>1. emitting'[t] = emitting[t]
      BY <1>2, <2>2 DEF Typed
    <3>2. Walking(t)
      BY <1>2, <3>1 DEF Walking
    <3>3. WalkHere(t)
      BY <3>2 DEF Threaded
    <3>. QED BY <3>1, <3>3 DEF WalkHere
  <2>. QED BY <2>1, <2>2
<1>. QED BY <1>1, <1>2

(* The new place is where it should be.                                    *)
LEMMA PushedThreads ==
  ASSUME Typed, Threaded, affinity' = affinity, NEW t \in Threads, NEW x \in Items, Pushes(t, x),
         x.run = "emit" => affinity[x.src] = t /\ Home[x.emission.by] # t,
         x.run = "slot" => ~ Inline(x.conn) /\ (Ordered(x.conn) => affinity[x.conn.dst] = t)
  PROVE  /\ \A u \in Threads, i \in Nat : EmitAt(u, i)' => EmitHere(u, i)'
         /\ \A u \in Threads, i \in Nat : SlotAt(u, i)' => SlotHere(u, i)'
<1>1. ASSUME NEW u \in Threads, NEW i \in Nat, EmitAt(u, i)'
      PROVE  EmitHere(u, i)'
  <2>1. \/ EmitAt(u, i) /\ Item(u, i)' = Item(u, i)
        \/ u = t /\ Item(u, i)' = x /\ x.run = "emit"
    BY <1>1, PushedAt
  <2>. QED BY <2>1 DEF Threaded, EmitHere
<1>2. ASSUME NEW u \in Threads, NEW i \in Nat, SlotAt(u, i)'
      PROVE  SlotHere(u, i)'
  <2>1. \/ SlotAt(u, i) /\ Item(u, i)' = Item(u, i)
        \/ u = t /\ Item(u, i)' = x /\ x.run = "slot"
    BY <1>2, PushedAt
  <2>2. /\ ~ Inline(Item(u, i)'.conn)
        /\ Ordered(Item(u, i)'.conn) => affinity[Item(u, i)'.conn.dst] = u
    BY <2>1 DEF Threaded, SlotHere
  <2>. QED BY <2>2 DEF SlotHere, Inline, Ordered, OnePart
<1>. QED BY <1>1, <1>2

LEMMA OwnHand ==
  ASSUME NEW t \in Threads, Has(t, 0), ~ Stolen(t)
  PROVE  Own(t, 0)
BY DEF Own, Stolen

LEMMA CalmThreads ==
  ASSUME Typed, Threaded, affinity' = affinity, Calm
  PROVE  Threaded'
<1>1. PICK m \in Shifts : Moved(m)
  BY DEF Calm
<1>2. /\ \A t \in Threads, i \in Nat : EmitAt(t, i)' => EmitHere(t, i)'
      /\ \A t \in Threads, i \in Nat : SlotAt(t, i)' => SlotHere(t, i)'
  BY <1>1, MovedThreads
<1>3. LogKept /\ \A t \in Threads : WalkKept(t)
  BY DEF Calm
<1>. QED BY <1>2, <1>3, LogThreads, WalksThreads DEF Threaded

LEMMA ThreadedStep ==
  ASSUME Typed, Waited, Threaded, [Next]_vars
  PROVE  Threaded'
<1>0. affinity' = affinity
  BY Ways
<1>1. ASSUME NEW k \in Callers, NEW s \in Objects, Emit(k, s)
      PROVE  Threaded'
  <2>. DEFINE n == Emission(calls + 1, k)
              x == EmitItem(k, s)
  <2>1. affinity[s] \in Threads /\ x \in Items /\ log' = log
    BY <1>1, EmitIs
  <2>2. x.run = "emit" /\ x.src = s /\ x.emission.by = k
    BY DEF EmitItem, Emission
  <2>3. \A j \in Logged' : LogHere(j)'
    BY <1>0, <2>1, LogStays, LogThreads
  <2>4. \/ Stays /\ emitting' = [emitting EXCEPT ![affinity[s]] = Walk(s, n, FALSE)]
        \/ Home[k] # affinity[s] /\ Pushes(affinity[s], x) /\ emitting' = emitting
    BY <1>1, EmitIs
  <2>. HIDE DEF n, x
  <2>5. CASE Stays /\ emitting' = [emitting EXCEPT ![affinity[s]] = Walk(s, n, FALSE)]
    BY <1>0, <2>3, <2>5, WalksThreads, NotMoved, MovedThreads DEF Threaded
  <2>6. CASE Home[k] # affinity[s] /\ Pushes(affinity[s], x) /\ emitting' = emitting
    <3>1. \A t \in Threads : WalkKept(t)
      BY <2>6 DEF WalkKept, Walking
    <3>2. \A t \in Threads : Walking(t)' => WalkHere(t)'
      BY <1>0, <3>1, WalksThreads
    <3>3. /\ \A t \in Threads, i \in Nat : EmitAt(t, i)' => EmitHere(t, i)'
          /\ \A t \in Threads, i \in Nat : SlotAt(t, i)' => SlotHere(t, i)'
      BY <1>0, <2>1, <2>2, <2>6, PushedThreads
    <3>. QED BY <2>3, <3>2, <3>3 DEF Threaded
  <2>. QED BY <2>4, <2>5, <2>6
<1>2. ASSUME NEW t \in Threads, RunEmit(t), ~ Stolen(t)
      PROVE  Threaded'
  <2>. DEFINE s == Item(t, 0).src
              n == Item(t, 0).emission
  <2>1. /\ Empties(t) /\ Has(t, 0) /\ Item(t, 0).run = "emit" /\ s \in Objects
        /\ emitting' = [emitting EXCEPT ![t] = Walk(s, n, Stolen(t))] /\ log' = log
    BY <1>2, RunEmitTyped
  <2>2. EmitAt(t, 0)
    BY <1>2, <2>1, OwnHand DEF EmitAt
  <2>3. affinity[s] = t
    BY <2>2 DEF Threaded, EmitHere
  <2>. HIDE DEF s, n
  <2>4. emitting' = [emitting EXCEPT ![affinity[s]] = Walk(s, n, FALSE)]
    <3>1. Stolen(t) = FALSE
      BY <1>2 DEF Stolen
    <3>. QED BY <2>1, <2>3, <3>1
  <2>5. \A u \in Threads : Walking(u)' => WalkHere(u)'
    BY <1>0, <2>1, <2>4, WalksThreads
  <2>6. \A j \in Logged' : LogHere(j)'
    BY <1>0, <2>1, LogStays, LogThreads
  <2>. QED BY <1>0, <2>1, <2>5, <2>6, EmptyMoves, MovedThreads DEF Threaded
<1>3. ASSUME NEW t \in Threads, CallSlot(t), Walking(t)
      PROVE  Threaded'
  <2>. DEFINE e == emitting[t].emission
  <2>1. emitting[t] # None /\ emitting[t].stray = FALSE
    BY <1>3, WalkIs DEF Walking
  <2>2. \A u \in Threads : Walking(u)' => WalkHere(u)'
    BY <1>0, <1>3, CallSlotIs, ShrinksStay, WalksThreads
  <2>3. PICK c \in emitting[t].left : CallsSlot(t, c)
    BY <1>3, CallSlotIs
  <2>4. c \in Made /\ e \in Emissions /\ affinity[c.src] = t
    BY <1>3, <2>1, WalkIs DEF Threaded, WalkHere
  <2>5. c.type \in {"Direct", "Auto", "Queued"} /\ e.number \in 0 .. MaxCalls
    BY <2>4, MaxCallsAssumption DEF Made, Connected, Emissions, Numbers
  <2>. DEFINE x == SlotCall(c, e, e.number, t, FALSE)
              y == SlotItem(c, e, FALSE)
  <2>6. x \in Calls /\ x.conn = c /\ x.thread = t /\ y \in Items /\ y.run = "slot" /\ y.conn = c
    BY <2>4, <2>5, SlotCallTyped DEF SlotCall, SlotItem
  <2>7. \/ log' = log /\ Stays
        \/ Inline(c) /\ log' = Append(log, x) /\ Stays
        \/ ~ Inline(c) /\ log' = log /\ \E u \in SlotRoutes(c, t) : Pushes(u, y)
    BY <2>1, <2>3 DEF CallsSlot
  <2>. HIDE DEF x, y
  <2>8. \A j \in Logged' : LogHere(j)'
    <3>1. Inline(c) => affinity[c.dst] = t
      BY <2>4 DEF Inline, OnePart
    <3>. QED BY <1>0, <2>6, <2>7, <3>1, LogStays, LogThreads
  <2>9. CASE Stays
    BY <1>0, <2>2, <2>8, <2>9, NotMoved, MovedThreads DEF Threaded
  <2>10. ASSUME NEW u \in SlotRoutes(c, t), ~ Inline(c), Pushes(u, y)
         PROVE  Threaded'
    <3>1. u \in Threads
      BY <2>4, RoutesTyped
    <3>2. Ordered(c) => affinity[c.dst] = u
      BY <2>4, <2>5, <2>10 DEF SlotRoutes, Ordered, Inline, OnePart
    <3>3. /\ \A v \in Threads, i \in Nat : EmitAt(v, i)' => EmitHere(v, i)'
          /\ \A v \in Threads, i \in Nat : SlotAt(v, i)' => SlotHere(v, i)'
      BY <1>0, <2>6, <2>10, <3>1, <3>2, PushedThreads
    <3>. QED BY <2>2, <2>8, <3>3 DEF Threaded
  <2>. QED BY <2>7, <2>9, <2>10
<1>4. ASSUME NEW t \in Threads, RunSlot(t), ~ Stolen(t), ~ Item(t, 0).stray
      PROVE  Threaded'
  <2>. DEFINE h == Item(t, 0)
  <2>1. Empties(t) /\ Has(t, 0) /\ h.run = "slot" /\ emitting' = emitting
    BY <1>4, RunSlotTyped
  <2>2. SlotAt(t, 0)
    BY <1>4, <2>1, OwnHand DEF SlotAt
  <2>3. Ordered(h.conn) => affinity[h.conn.dst] = t
    BY <2>2 DEF Threaded, SlotHere
  <2>4. \/ log' = log
        \/ \E x \in Calls : x.conn = h.conn /\ x.thread = t /\ log' = Append(log, x)
    BY <1>4, RunSlotTyped
  <2>. HIDE DEF h
  <2>5. \A j \in Logged' : LogHere(j)'
    BY <1>0, <2>3, <2>4, LogStays, LogThreads
  <2>6. \A u \in Threads : WalkKept(u)
    BY <2>1 DEF WalkKept, Walking
  <2>7. \A u \in Threads : Walking(u)' => WalkHere(u)'
    BY <1>0, <2>6, WalksThreads
  <2>. QED BY <1>0, <2>1, <2>5, <2>7, EmptyMoves, MovedThreads DEF Threaded
<1>. QED BY <1>0, <1>1, <1>2, <1>3, <1>4, CalmThreads, Ways

-----------------------------------------------------------------------------
(* Order: of one caller's emissions, those whose slot ran come before those*)
(* whose slot is posted, before those that run, before those posted.       *)

Before(a, b) == a.by = b.by => a.number < b.number

LogLog(i, j) ==
  i < j /\ log[i].conn = log[j].conn /\ Ordered(log[i].conn) => Before(log[i].asked, log[j].asked)
LogSlot(j, t, i) ==
  log[j].conn = Item(t, i).conn /\ Ordered(log[j].conn) => Before(log[j].asked, Item(t, i).asked)
SlotSlot(t, i, j) ==
  i < j /\ Item(t, i).conn = Item(t, j).conn /\ Ordered(Item(t, i).conn) =>
    Before(Item(t, i).asked, Item(t, j).asked)
LogWalk(j, t) ==
  Walking(t) /\ log[j].conn \in emitting[t].left => Before(log[j].asked, emitting[t].emission)
SlotWalk(u, i, t) ==
  Walking(t) /\ Item(u, i).conn \in emitting[t].left => Before(Item(u, i).asked, emitting[t].emission)
LogEmit(j, t, i) ==
  log[j].conn.src = Item(t, i).src => Before(log[j].asked, Item(t, i).emission)
SlotEmit(u, j, t, i) ==
  Item(u, j).conn.src = Item(t, i).src => Before(Item(u, j).asked, Item(t, i).emission)
WalkEmit(u, t, i) ==
  Walking(u) /\ emitting[u].src = Item(t, i).src => Before(emitting[u].emission, Item(t, i).emission)
EmitEmit(t, i, j) == i < j => Before(Item(t, i).emission, Item(t, j).emission)

QueueOrder ==
  /\ \A t \in Threads, i, j \in Nat : SlotAt(t, i) /\ SlotAt(t, j) => SlotSlot(t, i, j)
  /\ \A t, u \in Threads, i, j \in Nat : SlotAt(u, j) /\ EmitAt(t, i) => SlotEmit(u, j, t, i)
  /\ \A t \in Threads, i, j \in Nat : EmitAt(t, i) /\ EmitAt(t, j) => EmitEmit(t, i, j)
  /\ \A t \in Threads, i \in Nat : SlotAt(t, i) => Item(t, i).asked.number <= calls
  /\ \A t \in Threads, i \in Nat : EmitAt(t, i) => Item(t, i).emission.number <= calls

LogOrder ==
  /\ \A i, j \in Logged : LogLog(i, j)
  /\ \A j \in Logged, t \in Threads, i \in Nat : SlotAt(t, i) => LogSlot(j, t, i)
  /\ \A j \in Logged, t \in Threads, i \in Nat : EmitAt(t, i) => LogEmit(j, t, i)
  /\ \A j \in Logged : log[j].asked.number <= calls

WalkOrder ==
  /\ \A j \in Logged, t \in Threads : LogWalk(j, t)
  /\ \A u, t \in Threads, i \in Nat : SlotAt(u, i) => SlotWalk(u, i, t)
  /\ \A u, t \in Threads, i \in Nat : EmitAt(t, i) => WalkEmit(u, t, i)
  /\ \A t \in Threads : Walking(t) => emitting[t].emission.number <= calls

OrderInv == QueueOrder /\ LogOrder /\ WalkOrder

LEMMA NumbersAre ==
  ASSUME Typed
  PROVE  /\ calls \in Nat
         /\ \A j \in Logged : log[j].asked.number \in Nat
         /\ \A t \in Threads, i \in Nat : SlotAt(t, i) => Item(t, i).asked.number \in Nat
         /\ \A t \in Threads, i \in Nat : EmitAt(t, i) => Item(t, i).emission.number \in Nat
         /\ \A t \in Threads : Walking(t) => emitting[t].emission.number \in Nat
<1>1. \A e \in Emissions : e.number \in Nat
  BY MaxCallsAssumption DEF Emissions, Numbers
<1>2. calls \in Nat
  BY MaxCallsAssumption DEF Typed
<1>3. ASSUME NEW j \in Logged
      PROVE  log[j].asked.number \in Nat
  <2>1. log[j] \in Calls
    BY DEF Typed, Logged
  <2>. QED BY <1>1, <2>1 DEF Calls
<1>4. ASSUME NEW t \in Threads, NEW i \in Nat, Own(t, i)
      PROVE  /\ Item(t, i).run = "slot" => Item(t, i).asked.number \in Nat
             /\ Item(t, i).run = "emit" => Item(t, i).emission.number \in Nat
  <2>1. Item(t, i) \in Items
    BY <1>4, ItemTyped DEF Own
  <2>. QED BY <1>1, <2>1, ItemIs
<1>5. ASSUME NEW t \in Threads, Walking(t)
      PROVE  emitting[t].emission.number \in Nat
  BY <1>1, <1>5, WalkIs DEF Walking
<1>. QED BY <1>2, <1>3, <1>4, <1>5 DEF SlotAt, EmitAt

LEMMA MovedQueue ==
  ASSUME Typed, QueueOrder, affinity' = affinity, NEW m \in Shifts, Moved(m),
         calls' \in Nat, calls <= calls'
  PROVE  QueueOrder'
<1>1. ASSUME NEW t \in Threads, NEW i \in Nat, NEW j \in Nat, SlotAt(t, i)', SlotAt(t, j)'
      PROVE  SlotSlot(t, i, j)'
  <2>1. /\ SlotAt(t, m[t][i]) /\ Item(t, i)' = Item(t, m[t][i]) /\ m[t][i] \in Nat
        /\ SlotAt(t, m[t][j]) /\ Item(t, j)' = Item(t, m[t][j]) /\ m[t][j] \in Nat
    BY <1>1, MovedAt
  <2>2. SlotSlot(t, m[t][i], m[t][j])
    BY <2>1 DEF QueueOrder
  <2>3. i < j => m[t][i] < m[t][j]
    BY DEF Shifts
  <2>. QED BY <2>1, <2>2, <2>3 DEF SlotSlot, Before, Ordered, OnePart
<1>2. ASSUME NEW t \in Threads, NEW u \in Threads, NEW i \in Nat, NEW j \in Nat, SlotAt(u, j)', EmitAt(t, i)'
      PROVE  SlotEmit(u, j, t, i)'
  <2>1. /\ SlotAt(u, m[u][j]) /\ Item(u, j)' = Item(u, m[u][j]) /\ m[u][j] \in Nat
        /\ EmitAt(t, m[t][i]) /\ Item(t, i)' = Item(t, m[t][i]) /\ m[t][i] \in Nat
    BY <1>2, MovedAt
  <2>2. SlotEmit(u, m[u][j], t, m[t][i])
    BY <2>1 DEF QueueOrder
  <2>. QED BY <2>1, <2>2 DEF SlotEmit, Before
<1>3. ASSUME NEW t \in Threads, NEW i \in Nat, NEW j \in Nat, EmitAt(t, i)', EmitAt(t, j)'
      PROVE  EmitEmit(t, i, j)'
  <2>1. /\ EmitAt(t, m[t][i]) /\ Item(t, i)' = Item(t, m[t][i]) /\ m[t][i] \in Nat
        /\ EmitAt(t, m[t][j]) /\ Item(t, j)' = Item(t, m[t][j]) /\ m[t][j] \in Nat
    BY <1>3, MovedAt
  <2>2. EmitEmit(t, m[t][i], m[t][j])
    BY <2>1 DEF QueueOrder
  <2>3. i < j => m[t][i] < m[t][j]
    BY DEF Shifts
  <2>. QED BY <2>1, <2>2, <2>3 DEF EmitEmit, Before
<1>4. ASSUME NEW t \in Threads, NEW i \in Nat
      PROVE  /\ SlotAt(t, i)' => Item(t, i)'.asked.number <= calls'
             /\ EmitAt(t, i)' => Item(t, i)'.emission.number <= calls'
  <2>. DEFINE j == m[t][i]
  <2>1. /\ j \in Nat
        /\ SlotAt(t, i)' => SlotAt(t, j) /\ Item(t, i)' = Item(t, j)
        /\ EmitAt(t, i)' => EmitAt(t, j) /\ Item(t, i)' = Item(t, j)
    BY MovedAt
  <2>. HIDE DEF j
  <2>. QED BY <2>1, NumbersAre DEF QueueOrder
<1>. QED BY <1>1, <1>2, <1>3, <1>4 DEF QueueOrder

LEMMA MovedLog ==
  ASSUME Typed, LogOrder, affinity' = affinity, NEW m \in Shifts, Moved(m),
         LogKept, calls' \in Nat, calls <= calls'
  PROVE  LogOrder'
<1>0. Logged' = Logged /\ \A j \in Logged : log'[j] = log[j]
  BY DEF LogKept
<1>1. ASSUME NEW i \in Logged, NEW j \in Logged
      PROVE  LogLog(i, j)'
  <2>1. LogLog(i, j)
    BY DEF LogOrder
  <2>. QED BY <1>0, <2>1 DEF LogLog, Before, Ordered, OnePart
<1>2. ASSUME NEW j \in Logged, NEW t \in Threads, NEW i \in Nat, SlotAt(t, i)'
      PROVE  LogSlot(j, t, i)'
  <2>1. SlotAt(t, m[t][i]) /\ Item(t, i)' = Item(t, m[t][i]) /\ m[t][i] \in Nat
    BY <1>2, MovedAt
  <2>2. LogSlot(j, t, m[t][i])
    BY <2>1 DEF LogOrder
  <2>. QED BY <1>0, <2>1, <2>2 DEF LogSlot, Before, Ordered, OnePart
<1>3. ASSUME NEW j \in Logged, NEW t \in Threads, NEW i \in Nat, EmitAt(t, i)'
      PROVE  LogEmit(j, t, i)'
  <2>1. EmitAt(t, m[t][i]) /\ Item(t, i)' = Item(t, m[t][i]) /\ m[t][i] \in Nat
    BY <1>3, MovedAt
  <2>2. LogEmit(j, t, m[t][i])
    BY <2>1 DEF LogOrder
  <2>. QED BY <1>0, <2>1, <2>2 DEF LogEmit, Before
<1>4. \A j \in Logged : log'[j].asked.number <= calls'
  BY <1>0, NumbersAre DEF LogOrder
<1>. QED BY <1>0, <1>1, <1>2, <1>3, <1>4 DEF LogOrder

LEMMA MovedWalk ==
  ASSUME Typed, WalkOrder, NEW m \in Shifts, Moved(m),
         LogKept, calls' \in Nat, calls <= calls', NEW t \in Threads, WalkKept(t)
  PROVE  /\ \A j \in Logged : LogWalk(j, t)'
         /\ \A u \in Threads, i \in Nat : SlotAt(u, i)' => SlotWalk(u, i, t)'
         /\ \A u \in Threads, i \in Nat : EmitAt(u, i)' => WalkEmit(t, u, i)'
         /\ Walking(t)' => emitting'[t].emission.number <= calls'
<1>0. Logged' = Logged /\ \A j \in Logged : log'[j] = log[j]
  BY DEF LogKept
<1>1. ASSUME NEW j \in Logged
      PROVE  LogWalk(j, t)'
  <2>1. LogWalk(j, t)
    BY DEF WalkOrder
  <2>. QED BY <1>0, <2>1 DEF LogWalk, Before, WalkKept
<1>2. ASSUME NEW u \in Threads, NEW i \in Nat, SlotAt(u, i)'
      PROVE  SlotWalk(u, i, t)'
  <2>1. SlotAt(u, m[u][i]) /\ Item(u, i)' = Item(u, m[u][i]) /\ m[u][i] \in Nat
    BY <1>2, MovedAt
  <2>2. SlotWalk(u, m[u][i], t)
    BY <2>1 DEF WalkOrder
  <2>. QED BY <2>1, <2>2 DEF SlotWalk, Before, WalkKept
<1>3. ASSUME NEW u \in Threads, NEW i \in Nat, EmitAt(u, i)'
      PROVE  WalkEmit(t, u, i)'
  <2>1. EmitAt(u, m[u][i]) /\ Item(u, i)' = Item(u, m[u][i]) /\ m[u][i] \in Nat
    BY <1>3, MovedAt
  <2>2. WalkEmit(t, u, m[u][i])
    BY <2>1 DEF WalkOrder
  <2>. QED BY <2>1, <2>2 DEF WalkEmit, Before, WalkKept
<1>4. Walking(t)' => emitting'[t].emission.number <= calls'
  BY NumbersAre DEF WalkOrder, WalkKept
<1>. QED BY <1>0, <1>1, <1>2, <1>3, <1>4

LEMMA CalmOrder ==
  ASSUME Typed, OrderInv, affinity' = affinity, Calm
  PROVE  OrderInv'
<1>1. PICK m \in Shifts : Moved(m)
  BY DEF Calm
<1>2. LogKept /\ (\A t \in Threads : WalkKept(t)) /\ calls' \in Nat /\ calls <= calls'
  BY DEF Calm
<1>3. QueueOrder' /\ LogOrder'
  BY <1>1, <1>2, MovedQueue, MovedLog DEF OrderInv
<1>4. Logged' = Logged
  BY <1>2 DEF LogKept
<1>5. ASSUME NEW u \in Threads
      PROVE  /\ \A j \in Logged : LogWalk(j, u)'
             /\ \A v \in Threads, i \in Nat : SlotAt(v, i)' => SlotWalk(v, i, u)'
             /\ \A v \in Threads, i \in Nat : EmitAt(v, i)' => WalkEmit(u, v, i)'
             /\ Walking(u)' => emitting'[u].emission.number <= calls'
  BY <1>1, <1>2, MovedWalk DEF OrderInv
<1>6. WalkOrder'
  BY <1>4, <1>5 DEF WalkOrder
<1>. QED BY <1>6, <1>3, <1>4 DEF OrderInv

(* An emission that starts is behind all that ran or is posted to a slot   *)
(* and ahead of what is left in the queue.                                 *)
NewWalk(t, s, n) ==
  /\ emitting' = [emitting EXCEPT ![t] = Walk(s, n, FALSE)]
  /\ \A j \in Logged : log[j].conn.src = s => Before(log[j].asked, n)
  /\ \A u \in Threads, i \in Nat :
       SlotAt(u, i) /\ Item(u, i).conn.src = s => Before(Item(u, i).asked, n)
  /\ \A u \in Threads, i \in Nat :
       EmitAt(u, i)' /\ Item(u, i)'.src = s => Before(n, Item(u, i)'.emission)
  /\ n.number <= calls'

LEMMA NewWalkOrder ==
  ASSUME Typed, OrderInv, affinity' = affinity, NEW m \in Shifts, Moved(m),
         LogKept, calls' \in Nat, calls <= calls',
         NEW t \in Threads, NEW s \in Objects, NEW n, NewWalk(t, s, n)
  PROVE  OrderInv'
<1>. USE DEF NewWalk
<1>1. QueueOrder' /\ LogOrder'
  BY MovedQueue, MovedLog DEF OrderInv
<1>2. ASSUME NEW u \in Threads, u # t
      PROVE  WalkKept(u)
  BY <1>2 DEF WalkKept, Walking, Typed
<1>3. \A c \in From(s) : c.src = s
  BY DEF From
<1>4. emitting'[t].src = s /\ emitting'[t].emission = n /\ emitting'[t].left = From(s)
  BY DEF Typed, Walk
<1>0. Logged' = Logged /\ \A j \in Logged : log'[j] = log[j]
  BY DEF LogKept
<1>5. \A j \in Logged : LogWalk(j, t)'
  BY <1>0, <1>3, <1>4 DEF LogWalk
<1>6. ASSUME NEW u \in Threads, NEW i \in Nat, SlotAt(u, i)'
      PROVE  SlotWalk(u, i, t)'
  <2>1. SlotAt(u, m[u][i]) /\ Item(u, i)' = Item(u, m[u][i]) /\ m[u][i] \in Nat
    BY <1>6, MovedAt
  <2>. QED BY <1>3, <1>4, <2>1 DEF SlotWalk
<1>7. \A u \in Threads, i \in Nat : EmitAt(u, i)' => WalkEmit(t, u, i)'
  BY <1>4 DEF WalkEmit
<1>8. emitting'[t].emission.number <= calls'
  BY <1>4
<1>9. ASSUME NEW u \in Threads
      PROVE  /\ \A j \in Logged : LogWalk(j, u)'
             /\ \A v \in Threads, i \in Nat : SlotAt(v, i)' => SlotWalk(v, i, u)'
             /\ \A v \in Threads, i \in Nat : EmitAt(v, i)' => WalkEmit(u, v, i)'
             /\ Walking(u)' => emitting'[u].emission.number <= calls'
  <2>1. CASE u = t
    BY <1>5, <1>6, <1>7, <1>8, <2>1
  <2>2. CASE u # t
    BY <1>0, <1>2, <2>2, MovedWalk DEF OrderInv
  <2>. QED BY <2>1, <2>2
<1>10. WalkOrder'
  BY <1>0, <1>9 DEF WalkOrder
<1>. QED BY <1>1, <1>10 DEF OrderInv

LEMMA EmissionIs == ASSUME NEW n, NEW k PROVE Emission(n, k).number = n /\ Emission(n, k).by = k
BY DEF Emission

(* On the sender's thread nothing of this caller is posted: it would have  *)
(* run there itself.                                                       *)
LEMMA EntersOrder ==
  ASSUME Typed, Threaded, OrderInv, affinity' = affinity,
         NEW k \in Callers, NEW s \in Objects, Home[k] = affinity[s], affinity[s] \in Threads,
         Stays, log' = log, calls' = calls + 1,
         emitting' = [emitting EXCEPT ![affinity[s]] = Walk(s, Emission(calls + 1, k), FALSE)]
  PROVE  OrderInv'
<1>. DEFINE t == affinity[s]
            n == Emission(calls + 1, k)
<1>1. t \in Threads /\ Home[k] = t /\ emitting' = [emitting EXCEPT ![t] = Walk(s, n, FALSE)]
  OBVIOUS
<1>2. n.number = calls + 1 /\ n.by = k /\ calls \in Nat
  BY EmissionIs, NumbersAre
<1>. HIDE DEF n
<1>3. PICK m \in Shifts : Moved(m)
  BY NotMoved
<1>4. \A j \in Logged : log[j].conn.src = s => Before(log[j].asked, n)
  BY <1>2, NumbersAre DEF OrderInv, LogOrder, Before
<1>5. \A u \in Threads, i \in Nat :
        SlotAt(u, i) /\ Item(u, i).conn.src = s => Before(Item(u, i).asked, n)
  BY <1>2, NumbersAre DEF OrderInv, QueueOrder, Before
<1>6. ASSUME NEW u \in Threads, NEW i \in Nat, EmitAt(u, i)', Item(u, i)'.src = s
      PROVE  Before(n, Item(u, i)'.emission)
  <2>1. EmitAt(u, i) /\ Item(u, i)' = Item(u, i)
    BY <1>6 DEF Stays, EmitAt, Own, Has, Item
  <2>2. u = t /\ Home[Item(u, i).emission.by] # u
    BY <1>6, <2>1 DEF Threaded, EmitHere
  <2>. QED BY <1>1, <1>2, <2>1, <2>2 DEF Before
<1>7. n.number <= calls' /\ calls' \in Nat /\ calls <= calls'
  BY <1>2
<1>8. NewWalk(t, s, n)
  BY <1>1, <1>4, <1>5, <1>6, <1>7 DEF NewWalk
<1>. HIDE DEF t
<1>. QED BY <1>1, <1>3, <1>7, <1>8, LogStays, NewWalkOrder

LEMMA RunEmitOrder ==
  ASSUME Typed, Threaded, OrderInv, affinity' = affinity, NEW t \in Threads, RunEmit(t), ~ Stolen(t)
  PROVE  OrderInv'
<1>. DEFINE s == Item(t, 0).src
            n == Item(t, 0).emission
<1>1. /\ Empties(t) /\ Has(t, 0) /\ Item(t, 0).run = "emit" /\ s \in Objects
      /\ emitting' = [emitting EXCEPT ![t] = Walk(s, n, Stolen(t))] /\ log' = log /\ calls' = calls
  BY RunEmitTyped
<1>2. EmitAt(t, 0) /\ Item(t, 0).src = s /\ Item(t, 0).emission = n
  BY <1>1, OwnHand DEF EmitAt
<1>. HIDE DEF s, n
<1>3. emitting' = [emitting EXCEPT ![t] = Walk(s, n, FALSE)]
  <2>1. Stolen(t) = FALSE
    BY DEF Stolen
  <2>. QED BY <1>1, <2>1
<1>4. PICK m \in Shifts : Moved(m)
  BY <1>1, EmptyMoves
<1>5. \A j \in Logged : log[j].conn.src = s => Before(log[j].asked, n)
  <2>1. \A j \in Logged : LogEmit(j, t, 0)
    BY <1>2 DEF OrderInv, LogOrder
  <2>. QED BY <1>2, <2>1 DEF LogEmit
<1>6. \A u \in Threads, i \in Nat :
        SlotAt(u, i) /\ Item(u, i).conn.src = s => Before(Item(u, i).asked, n)
  <2>1. \A u \in Threads, i \in Nat : SlotAt(u, i) => SlotEmit(u, i, t, 0)
    BY <1>2 DEF OrderInv, QueueOrder
  <2>. QED BY <1>2, <2>1 DEF SlotEmit
<1>7. ASSUME NEW u \in Threads, NEW i \in Nat, EmitAt(u, i)', Item(u, i)'.src = s
      PROVE  Before(n, Item(u, i)'.emission)
  <2>1. EmitAt(u, i) /\ Item(u, i)' = Item(u, i) /\ (u = t => 0 < i)
    BY <1>1, <1>7, EmptiedAt
  <2>2. u = t
    BY <1>2, <1>7, <2>1 DEF Threaded, EmitHere
  <2>3. EmitEmit(t, 0, i)
    BY <1>2, <2>1, <2>2 DEF OrderInv, QueueOrder
  <2>. QED BY <1>2, <2>1, <2>2, <2>3 DEF EmitEmit
<1>8. n.number <= calls' /\ calls' \in Nat /\ calls <= calls'
  <2>1. n.number <= calls
    BY <1>2 DEF OrderInv, QueueOrder
  <2>. QED BY <1>1, <2>1, NumbersAre
<1>9. NewWalk(t, s, n)
  BY <1>3, <1>5, <1>6, <1>7, <1>8 DEF NewWalk
<1>. QED BY <1>1, <1>4, <1>8, <1>9, LogStays, NewWalkOrder

(* What a caller posts is newer than all there is.                         *)
LEMMA SendsOrder ==
  ASSUME Typed, OrderInv, affinity' = affinity, NEW t \in Threads, NEW x \in Items,
         x.run = "emit", x.emission.number = calls + 1, Pushes(t, x),
         UNCHANGED << emitting, log >>, calls' = calls + 1
  PROVE  OrderInv'
<1>0. calls \in Nat /\ Logged' = Logged
  BY NumbersAre DEF Logged
<1>1. ASSUME NEW u \in Threads, NEW i \in Nat
      PROVE  /\ SlotAt(u, i)' => SlotAt(u, i) /\ Item(u, i)' = Item(u, i)
             /\ EmitAt(u, i)' => \/ EmitAt(u, i) /\ Item(u, i)' = Item(u, i)
                                 \/ /\ u = t /\ Item(u, i)' = x
                                    /\ Len(queue[u]) \in Nat /\ i = Len(queue[u]) + 1
  BY PushedAt
<1>2. QueueOrder'
  <2>1. ASSUME NEW u \in Threads, NEW i \in Nat, NEW j \in Nat, SlotAt(u, i)', SlotAt(u, j)'
        PROVE  SlotSlot(u, i, j)'
    <3>1. SlotSlot(u, i, j) /\ Item(u, i)' = Item(u, i) /\ Item(u, j)' = Item(u, j)
      BY <1>1, <2>1 DEF OrderInv, QueueOrder
    <3>. QED BY <3>1 DEF SlotSlot, Before, Ordered, OnePart
  <2>2. ASSUME NEW v \in Threads, NEW u \in Threads, NEW i \in Nat, NEW j \in Nat, SlotAt(u, j)', EmitAt(v, i)'
        PROVE  SlotEmit(u, j, v, i)'
    <3>1. SlotAt(u, j) /\ Item(u, j)' = Item(u, j)
      BY <1>1, <2>2
    <3>2. CASE EmitAt(v, i) /\ Item(v, i)' = Item(v, i)
      <4>1. SlotEmit(u, j, v, i)
        BY <3>1, <3>2 DEF OrderInv, QueueOrder
      <4>. QED BY <3>1, <3>2, <4>1 DEF SlotEmit, Before
    <3>3. CASE Item(v, i)' = x
      <4>1. Item(u, j).asked.number <= calls /\ Item(u, j).asked.number \in Nat
        BY <3>1, NumbersAre DEF OrderInv, QueueOrder
      <4>. QED BY <1>0, <3>1, <3>3, <4>1 DEF SlotEmit, Before
    <3>. QED BY <1>1, <2>2, <3>2, <3>3
  <2>3. ASSUME NEW u \in Threads, NEW i \in Nat, NEW j \in Nat, EmitAt(u, i)', EmitAt(u, j)'
        PROVE  EmitEmit(u, i, j)'
    <3>1. SUFFICES ASSUME i < j
                   PROVE  Before(Item(u, i)'.emission, Item(u, j)'.emission)
      BY DEF EmitEmit
    <3>2. EmitAt(u, i) /\ Item(u, i)' = Item(u, i)
      <4>1. Len(queue[u]) \in Nat => j <= Len(queue[u]) + 1
        BY <1>1, <2>3, PlaceIs DEF EmitAt, Own
      <4>2. ~ (Len(queue[u]) \in Nat /\ i = Len(queue[u]) + 1)
        BY <3>1, <4>1
      <4>. QED BY <1>1, <2>3, <4>2
    <3>3. CASE EmitAt(u, j) /\ Item(u, j)' = Item(u, j)
      <4>1. EmitEmit(u, i, j)
        BY <3>2, <3>3 DEF OrderInv, QueueOrder
      <4>. QED BY <3>1, <3>2, <3>3, <4>1 DEF EmitEmit
    <3>4. CASE Item(u, j)' = x
      <4>1. Item(u, i).emission.number <= calls /\ Item(u, i).emission.number \in Nat
        BY <3>2, NumbersAre DEF OrderInv, QueueOrder
      <4>. QED BY <1>0, <3>2, <3>4, <4>1 DEF Before
    <3>. QED BY <1>1, <2>3, <3>3, <3>4
  <2>4. ASSUME NEW u \in Threads, NEW i \in Nat
        PROVE  /\ SlotAt(u, i)' => Item(u, i)'.asked.number <= calls'
               /\ EmitAt(u, i)' => Item(u, i)'.emission.number <= calls'
    BY <1>0, <1>1, NumbersAre DEF OrderInv, QueueOrder
  <2>. QED BY <2>1, <2>2, <2>3, <2>4 DEF QueueOrder
<1>3. LogOrder'
  <2>1. ASSUME NEW i \in Logged, NEW j \in Logged
        PROVE  LogLog(i, j)'
    <3>1. LogLog(i, j)
      BY DEF OrderInv, LogOrder
    <3>. QED BY <3>1 DEF LogLog, Before, Ordered, OnePart
  <2>2. ASSUME NEW j \in Logged, NEW u \in Threads, NEW i \in Nat, SlotAt(u, i)'
        PROVE  LogSlot(j, u, i)'
    <3>1. LogSlot(j, u, i) /\ Item(u, i)' = Item(u, i)
      BY <1>1, <2>2 DEF OrderInv, LogOrder
    <3>. QED BY <3>1 DEF LogSlot, Before, Ordered, OnePart
  <2>3. ASSUME NEW j \in Logged, NEW u \in Threads, NEW i \in Nat, EmitAt(u, i)'
        PROVE  LogEmit(j, u, i)'
    <3>1. CASE EmitAt(u, i) /\ Item(u, i)' = Item(u, i)
      <4>1. LogEmit(j, u, i)
        BY <3>1 DEF OrderInv, LogOrder
      <4>. QED BY <3>1, <4>1 DEF LogEmit, Before
    <3>2. CASE Item(u, i)' = x
      <4>1. log[j].asked.number <= calls /\ log[j].asked.number \in Nat
        BY NumbersAre DEF OrderInv, LogOrder
      <4>. QED BY <1>0, <3>2, <4>1 DEF LogEmit, Before
    <3>. QED BY <1>1, <2>3, <3>1, <3>2
  <2>4. \A j \in Logged : log[j].asked.number <= calls'
    BY <1>0, NumbersAre DEF OrderInv, LogOrder
  <2>. QED BY <1>0, <2>1, <2>2, <2>3, <2>4 DEF LogOrder
<1>4. WalkOrder'
  <2>1. ASSUME NEW j \in Logged, NEW u \in Threads
        PROVE  LogWalk(j, u)'
    <3>1. LogWalk(j, u)
      BY DEF OrderInv, WalkOrder
    <3>. QED BY <3>1 DEF LogWalk, Walking, Before
  <2>2. ASSUME NEW v \in Threads, NEW u \in Threads, NEW i \in Nat, SlotAt(u, i)'
        PROVE  SlotWalk(u, i, v)'
    <3>1. SlotWalk(u, i, v) /\ Item(u, i)' = Item(u, i)
      BY <1>1, <2>2 DEF OrderInv, WalkOrder
    <3>. QED BY <3>1 DEF SlotWalk, Walking, Before
  <2>3. ASSUME NEW v \in Threads, NEW u \in Threads, NEW i \in Nat, EmitAt(u, i)'
        PROVE  WalkEmit(v, u, i)'
    <3>1. CASE EmitAt(u, i) /\ Item(u, i)' = Item(u, i)
      <4>1. WalkEmit(v, u, i)
        BY <3>1 DEF OrderInv, WalkOrder
      <4>. QED BY <3>1, <4>1 DEF WalkEmit, Walking, Before
    <3>2. CASE Item(u, i)' = x
      <4>1. Walking(v) => emitting[v].emission.number <= calls /\ emitting[v].emission.number \in Nat
        BY NumbersAre DEF OrderInv, WalkOrder
      <4>. QED BY <1>0, <3>2, <4>1 DEF WalkEmit, Walking, Before
    <3>. QED BY <1>1, <2>3, <3>1, <3>2
  <2>4. \A u \in Threads : Walking(u)' => emitting'[u].emission.number <= calls'
    BY <1>0, NumbersAre DEF OrderInv, WalkOrder, Walking
  <2>. QED BY <1>0, <2>1, <2>2, <2>3, <2>4 DEF WalkOrder
<1>. QED BY <1>2, <1>3, <1>4 DEF OrderInv

(* A slot runs: behind those of its connection that ran, ahead of those    *)
(* that are posted or will be.                                             *)
NewCall(c, e) ==
  /\ \A j \in Logged : log[j].conn = c /\ Ordered(c) => Before(log[j].asked, e)
  /\ \A u \in Threads, i \in Nat :
       SlotAt(u, i)' /\ Item(u, i)'.conn = c /\ Ordered(c) => Before(e, Item(u, i)'.asked)
  /\ \A u \in Threads, i \in Nat :
       EmitAt(u, i)' /\ c.src = Item(u, i)'.src => Before(e, Item(u, i)'.emission)
  /\ \A u \in Threads :
       Walking(u)' /\ c \in emitting'[u].left => Before(e, emitting'[u].emission)
  /\ e.number <= calls

LEMMA NewCallOrder ==
  ASSUME Typed, OrderInv, affinity' = affinity, NEW m \in Shifts, Moved(m),
         \A t \in Threads : WalkKept(t), calls' = calls,
         NEW x \in Calls, log' = Append(log, x), NewCall(x.conn, x.asked)
  PROVE  OrderInv'
<1>0. calls \in Nat /\ calls <= calls'
  BY NumbersAre
<1>1. QueueOrder'
  BY <1>0, MovedQueue DEF OrderInv
<1>2. /\ Len(log) \in Nat
      /\ \A j \in Logged' : \/ j \in Logged /\ log'[j] = log[j] /\ j <= Len(log)
                            \/ j = Len(log) + 1 /\ log'[j] = x
  BY CallAppended DEF Typed
<1>3. LogOrder'
  <2>1. ASSUME NEW i \in Logged', NEW j \in Logged'
        PROVE  LogLog(i, j)'
    <3>1. SUFFICES ASSUME i < j, log'[i].conn = log'[j].conn, Ordered(log[i].conn)'
                   PROVE  Before(log'[i].asked, log'[j].asked)
      BY DEF LogLog
    <3>2. i \in Logged /\ log'[i] = log[i]
      <4>1. i \in Int /\ j \in Int
        BY DEF Logged
      <4>2. j <= Len(log) + 1
        BY <1>2, <4>1
      <4>3. i # Len(log) + 1
        BY <1>2, <3>1, <4>1, <4>2
      <4>. QED BY <1>2, <4>3
    <3>3. Ordered(log[i].conn)
      BY <3>1, <3>2 DEF Ordered, OnePart
    <3>4. CASE j \in Logged /\ log'[j] = log[j]
      <4>1. LogLog(i, j)
        BY <3>2, <3>4 DEF OrderInv, LogOrder
      <4>. QED BY <3>1, <3>2, <3>3, <3>4, <4>1 DEF LogLog
    <3>5. CASE log'[j] = x
      BY <3>1, <3>2, <3>3, <3>5 DEF NewCall
    <3>. QED BY <1>2, <3>4, <3>5
  <2>2. ASSUME NEW j \in Logged', NEW t \in Threads, NEW i \in Nat, SlotAt(t, i)'
        PROVE  LogSlot(j, t, i)'
    <3>1. SUFFICES ASSUME log'[j].conn = Item(t, i)'.conn, Ordered(log[j].conn)'
                   PROVE  Before(log'[j].asked, Item(t, i)'.asked)
      BY DEF LogSlot
    <3>2. CASE j \in Logged /\ log'[j] = log[j]
      <4>1. SlotAt(t, m[t][i]) /\ Item(t, i)' = Item(t, m[t][i]) /\ m[t][i] \in Nat
        BY <2>2, MovedAt
      <4>2. LogSlot(j, t, m[t][i])
        BY <3>2, <4>1 DEF OrderInv, LogOrder
      <4>3. Ordered(log[j].conn)
        BY <3>1, <3>2 DEF Ordered, OnePart
      <4>. QED BY <3>1, <3>2, <4>1, <4>2, <4>3 DEF LogSlot
    <3>3. CASE log'[j] = x
      <4>1. Ordered(x.conn)
        BY <3>1, <3>3 DEF Ordered, OnePart
      <4>. QED BY <2>2, <3>1, <3>3, <4>1 DEF NewCall
    <3>. QED BY <1>2, <3>2, <3>3
  <2>3. ASSUME NEW j \in Logged', NEW t \in Threads, NEW i \in Nat, EmitAt(t, i)'
        PROVE  LogEmit(j, t, i)'
    <3>1. SUFFICES ASSUME log'[j].conn.src = Item(t, i)'.src
                   PROVE  Before(log'[j].asked, Item(t, i)'.emission)
      BY DEF LogEmit
    <3>2. CASE j \in Logged /\ log'[j] = log[j]
      <4>1. EmitAt(t, m[t][i]) /\ Item(t, i)' = Item(t, m[t][i]) /\ m[t][i] \in Nat
        BY <2>3, MovedAt
      <4>2. LogEmit(j, t, m[t][i])
        BY <3>2, <4>1 DEF OrderInv, LogOrder
      <4>. QED BY <3>1, <3>2, <4>1, <4>2 DEF LogEmit
    <3>3. CASE log'[j] = x
      BY <2>3, <3>1, <3>3 DEF NewCall
    <3>. QED BY <1>2, <3>2, <3>3
  <2>4. \A j \in Logged' : log'[j].asked.number <= calls'
    BY <1>2 DEF OrderInv, LogOrder, NewCall
  <2>. QED BY <2>1, <2>2, <2>3, <2>4 DEF LogOrder
<1>4. WalkOrder'
  <2>1. ASSUME NEW j \in Logged', NEW t \in Threads
        PROVE  LogWalk(j, t)'
    <3>1. SUFFICES ASSUME Walking(t)', log'[j].conn \in emitting'[t].left
                   PROVE  Before(log'[j].asked, emitting'[t].emission)
      BY DEF LogWalk
    <3>2. CASE j \in Logged /\ log'[j] = log[j]
      <4>1. LogWalk(j, t)
        BY <3>2 DEF OrderInv, WalkOrder
      <4>. QED BY <3>1, <3>2, <4>1 DEF LogWalk, WalkKept
    <3>3. CASE log'[j] = x
      BY <3>1, <3>3 DEF NewCall
    <3>. QED BY <1>2, <3>2, <3>3
  <2>2. ASSUME NEW t \in Threads, NEW u \in Threads, NEW i \in Nat, SlotAt(u, i)'
        PROVE  SlotWalk(u, i, t)'
    <3>1. SlotAt(u, m[u][i]) /\ Item(u, i)' = Item(u, m[u][i]) /\ m[u][i] \in Nat
      BY <2>2, MovedAt
    <3>2. SlotWalk(u, m[u][i], t)
      BY <3>1 DEF OrderInv, WalkOrder
    <3>. QED BY <3>1, <3>2 DEF SlotWalk, Before, WalkKept
  <2>3. ASSUME NEW t \in Threads, NEW u \in Threads, NEW i \in Nat, EmitAt(u, i)'
        PROVE  WalkEmit(t, u, i)'
    <3>1. EmitAt(u, m[u][i]) /\ Item(u, i)' = Item(u, m[u][i]) /\ m[u][i] \in Nat
      BY <2>3, MovedAt
    <3>2. WalkEmit(t, u, m[u][i])
      BY <3>1 DEF OrderInv, WalkOrder
    <3>. QED BY <3>1, <3>2 DEF WalkEmit, Before, WalkKept
  <2>4. \A t \in Threads : Walking(t)' => emitting'[t].emission.number <= calls'
    BY DEF OrderInv, WalkOrder, WalkKept
  <2>. QED BY <2>1, <2>2, <2>3, <2>4 DEF WalkOrder
<1>. QED BY <1>1, <1>3, <1>4 DEF OrderInv

(* A slot is posted: behind all of its connection, ahead of the emissions  *)
(* that are posted.                                                        *)
NewSlot(c, e) ==
  /\ \A j \in Logged : log[j].conn = c => Before(log[j].asked, e)
  /\ \A u \in Threads, i \in Nat : SlotAt(u, i) /\ Item(u, i).conn = c => Before(Item(u, i).asked, e)
  /\ \A u \in Threads, i \in Nat : EmitAt(u, i) /\ c.src = Item(u, i).src => Before(e, Item(u, i).emission)
  /\ \A u \in Threads : Walking(u)' => c \notin emitting'[u].left
  /\ e.number <= calls

LEMMA NewSlotOrder ==
  ASSUME Typed, OrderInv, affinity' = affinity, NEW t \in Threads, NEW x \in Items, x.run = "slot",
         Pushes(t, x), \A u \in Threads : WalkKept(u), calls' = calls, LogKept,
         NewSlot(x.conn, x.asked)
  PROVE  OrderInv'
<1>0. Logged' = Logged /\ \A j \in Logged : log'[j] = log[j]
  BY DEF LogKept
<1>1. ASSUME NEW u \in Threads, NEW i \in Nat
      PROVE  /\ EmitAt(u, i)' => EmitAt(u, i) /\ Item(u, i)' = Item(u, i)
             /\ SlotAt(u, i)' => \/ SlotAt(u, i) /\ Item(u, i)' = Item(u, i)
                                 \/ /\ u = t /\ Item(u, i)' = x
                                    /\ Len(queue[u]) \in Nat /\ i = Len(queue[u]) + 1
  BY PushedAt
<1>2. QueueOrder'
  <2>1. ASSUME NEW u \in Threads, NEW i \in Nat, NEW j \in Nat, SlotAt(u, i)', SlotAt(u, j)'
        PROVE  SlotSlot(u, i, j)'
    <3>1. SUFFICES ASSUME i < j, Item(u, i)'.conn = Item(u, j)'.conn, Ordered(Item(u, i).conn)'
                   PROVE  Before(Item(u, i)'.asked, Item(u, j)'.asked)
      BY DEF SlotSlot
    <3>2. SlotAt(u, i) /\ Item(u, i)' = Item(u, i)
      <4>1. Len(queue[u]) \in Nat => j <= Len(queue[u]) + 1
        BY <1>1, <2>1, PlaceIs DEF SlotAt, Own
      <4>2. ~ (Len(queue[u]) \in Nat /\ i = Len(queue[u]) + 1)
        BY <3>1, <4>1
      <4>. QED BY <1>1, <2>1, <4>2
    <3>3. CASE SlotAt(u, j) /\ Item(u, j)' = Item(u, j)
      <4>1. SlotSlot(u, i, j)
        BY <3>2, <3>3 DEF OrderInv, QueueOrder
      <4>2. Ordered(Item(u, i).conn)
        BY <3>1, <3>2 DEF Ordered, OnePart
      <4>. QED BY <3>1, <3>2, <3>3, <4>1, <4>2 DEF SlotSlot
    <3>4. CASE Item(u, j)' = x
      BY <3>1, <3>2, <3>4 DEF NewSlot
    <3>. QED BY <1>1, <2>1, <3>3, <3>4
  <2>2. ASSUME NEW v \in Threads, NEW u \in Threads, NEW i \in Nat, NEW j \in Nat, SlotAt(u, j)', EmitAt(v, i)'
        PROVE  SlotEmit(u, j, v, i)'
    <3>1. EmitAt(v, i) /\ Item(v, i)' = Item(v, i)
      BY <1>1, <2>2
    <3>2. CASE SlotAt(u, j) /\ Item(u, j)' = Item(u, j)
      <4>1. SlotEmit(u, j, v, i)
        BY <3>1, <3>2 DEF OrderInv, QueueOrder
      <4>. QED BY <3>1, <3>2, <4>1 DEF SlotEmit, Before
    <3>3. CASE Item(u, j)' = x
      BY <3>1, <3>3 DEF SlotEmit, NewSlot
    <3>. QED BY <1>1, <2>2, <3>2, <3>3
  <2>3. ASSUME NEW u \in Threads, NEW i \in Nat, NEW j \in Nat, EmitAt(u, i)', EmitAt(u, j)'
        PROVE  EmitEmit(u, i, j)'
    <3>1. EmitEmit(u, i, j) /\ Item(u, i)' = Item(u, i) /\ Item(u, j)' = Item(u, j)
      BY <1>1, <2>3 DEF OrderInv, QueueOrder
    <3>. QED BY <3>1 DEF EmitEmit, Before
  <2>4. ASSUME NEW u \in Threads, NEW i \in Nat
        PROVE  /\ SlotAt(u, i)' => Item(u, i)'.asked.number <= calls'
               /\ EmitAt(u, i)' => Item(u, i)'.emission.number <= calls'
    BY <1>1 DEF OrderInv, QueueOrder, NewSlot
  <2>. QED BY <2>1, <2>2, <2>3, <2>4 DEF QueueOrder
<1>3. LogOrder'
  <2>1. ASSUME NEW i \in Logged, NEW j \in Logged
        PROVE  LogLog(i, j)'
    <3>1. LogLog(i, j)
      BY DEF OrderInv, LogOrder
    <3>. QED BY <1>0, <3>1 DEF LogLog, Before, Ordered, OnePart
  <2>2. ASSUME NEW j \in Logged, NEW u \in Threads, NEW i \in Nat, SlotAt(u, i)'
        PROVE  LogSlot(j, u, i)'
    <3>1. CASE SlotAt(u, i) /\ Item(u, i)' = Item(u, i)
      <4>1. LogSlot(j, u, i)
        BY <3>1 DEF OrderInv, LogOrder
      <4>. QED BY <1>0, <3>1, <4>1 DEF LogSlot, Before, Ordered, OnePart
    <3>2. CASE Item(u, i)' = x
      BY <1>0, <3>2 DEF LogSlot, NewSlot
    <3>. QED BY <1>1, <2>2, <3>1, <3>2
  <2>3. ASSUME NEW j \in Logged, NEW u \in Threads, NEW i \in Nat, EmitAt(u, i)'
        PROVE  LogEmit(j, u, i)'
    <3>1. LogEmit(j, u, i) /\ Item(u, i)' = Item(u, i)
      BY <1>1, <2>3 DEF OrderInv, LogOrder
    <3>. QED BY <1>0, <3>1 DEF LogEmit, Before
  <2>4. \A j \in Logged : log'[j].asked.number <= calls'
    BY <1>0 DEF OrderInv, LogOrder
  <2>. QED BY <1>0, <2>1, <2>2, <2>3, <2>4 DEF LogOrder
<1>4. WalkOrder'
  <2>1. ASSUME NEW j \in Logged, NEW u \in Threads
        PROVE  LogWalk(j, u)'
    <3>1. LogWalk(j, u)
      BY DEF OrderInv, WalkOrder
    <3>. QED BY <1>0, <3>1 DEF LogWalk, Before, WalkKept
  <2>2. ASSUME NEW v \in Threads, NEW u \in Threads, NEW i \in Nat, SlotAt(u, i)'
        PROVE  SlotWalk(u, i, v)'
    <3>1. CASE SlotAt(u, i) /\ Item(u, i)' = Item(u, i)
      <4>1. SlotWalk(u, i, v)
        BY <3>1 DEF OrderInv, WalkOrder
      <4>. QED BY <3>1, <4>1 DEF SlotWalk, Before, WalkKept
    <3>2. CASE Item(u, i)' = x
      BY <3>2 DEF SlotWalk, NewSlot
    <3>. QED BY <1>1, <2>2, <3>1, <3>2
  <2>3. ASSUME NEW v \in Threads, NEW u \in Threads, NEW i \in Nat, EmitAt(u, i)'
        PROVE  WalkEmit(v, u, i)'
    <3>1. WalkEmit(v, u, i) /\ Item(u, i)' = Item(u, i)
      BY <1>1, <2>3 DEF OrderInv, WalkOrder
    <3>. QED BY <3>1 DEF WalkEmit, Before, WalkKept
  <2>4. \A u \in Threads : Walking(u)' => emitting'[u].emission.number <= calls'
    BY DEF OrderInv, WalkOrder, WalkKept
  <2>. QED BY <1>0, <2>1, <2>2, <2>3, <2>4 DEF WalkOrder
<1>. QED BY <1>2, <1>3, <1>4 DEF OrderInv

LEMMA CallSlotOrder ==
  ASSUME Typed, Threaded, OrderInv, affinity' = affinity, NEW t \in Threads, CallSlot(t), Walking(t)
  PROVE  OrderInv'
<1>. DEFINE e == emitting[t].emission
<1>1. emitting[t] # None /\ emitting[t].stray = FALSE /\ calls' = calls
  BY CallSlotIs, WalkIs DEF Walking
<1>2. PICK c \in emitting[t].left :
        /\ CallsSlot(t, c)
        /\ Shrinks(emitting, emitting')
        /\ emitting'[t].left \subseteq emitting[t].left \ {c}
  BY CallSlotIs
<1>3. \A u \in Threads : WalkKept(u)
  BY <1>2, ShrinksStay
<1>4. c \in Made /\ e \in Emissions /\ c.src = emitting[t].src /\ affinity[c.src] = t
  BY <1>1, WalkIs DEF Threaded, WalkHere
<1>5. ASSUME NEW u \in Threads, Walking(u)'
      PROVE  c \notin emitting'[u].left
  <2>1. CASE u = t
    BY <1>2, <2>1
  <2>2. CASE u # t
    <3>1. Walking(u) /\ emitting'[u].left \subseteq emitting[u].left
      BY <1>3, <1>5 DEF WalkKept
    <3>2. \A d \in emitting[u].left : affinity[d.src] = u
      BY <3>1 DEF Threaded, WalkHere
    <3>. QED BY <1>4, <2>2, <3>1, <3>2
  <2>. QED BY <2>1, <2>2
<1>6. NewSlot(c, e)
  <2>1. \A j \in Logged : log[j].conn = c => Before(log[j].asked, e)
    BY DEF OrderInv, WalkOrder, LogWalk
  <2>2. \A u \in Threads, i \in Nat : SlotAt(u, i) /\ Item(u, i).conn = c => Before(Item(u, i).asked, e)
    BY DEF OrderInv, WalkOrder, SlotWalk
  <2>3. \A u \in Threads, i \in Nat : EmitAt(u, i) /\ c.src = Item(u, i).src => Before(e, Item(u, i).emission)
    BY <1>4 DEF OrderInv, WalkOrder, WalkEmit
  <2>4. e.number <= calls
    BY DEF OrderInv, WalkOrder
  <2>. QED BY <1>5, <2>1, <2>2, <2>3, <2>4 DEF NewSlot
<1>. DEFINE x == SlotCall(c, e, e.number, t, FALSE)
            y == SlotItem(c, e, FALSE)
<1>7. e.number \in 0 .. MaxCalls
  BY <1>4, MaxCallsAssumption DEF Emissions, Numbers
<1>8. x \in Calls /\ x.conn = c /\ x.asked = e /\ y \in Items /\ y.run = "slot" /\ y.conn = c /\ y.asked = e
  BY <1>4, <1>7, SlotCallTyped DEF SlotCall, SlotItem
<1>9. \/ log' = log /\ Stays
      \/ Inline(c) /\ log' = Append(log, x) /\ Stays
      \/ log' = log /\ \E u \in SlotRoutes(c, t) : Pushes(u, y)
  BY <1>1, <1>2 DEF CallsSlot
<1>. HIDE DEF e, x, y
<1>10. CASE log' = log /\ Stays
  <2>1. Calm
    BY <1>1, <1>3, <1>10, LogStays, NotMoved, NumbersAre DEF Calm
  <2>. QED BY <2>1, CalmOrder
<1>11. CASE Inline(c) /\ log' = Append(log, x) /\ Stays
  <2>1. ASSUME NEW u \in Threads, NEW i \in Nat
        PROVE  /\ SlotAt(u, i)' => SlotAt(u, i) /\ Item(u, i)' = Item(u, i)
               /\ EmitAt(u, i)' => EmitAt(u, i) /\ Item(u, i)' = Item(u, i)
    BY <1>11 DEF Stays, SlotAt, EmitAt, Own, Has, Item
  <2>2. \A u \in Threads, i \in Nat : SlotAt(u, i)' => Item(u, i)'.conn # c
    BY <1>11, <2>1 DEF Threaded, SlotHere
  <2>3. NewCall(c, e)
    BY <1>5, <1>6, <2>1, <2>2 DEF NewCall, NewSlot
  <2>4. PICK m \in Shifts : Moved(m)
    BY <1>11, NotMoved
  <2>5. NewCall(x.conn, x.asked)
    BY <1>8, <2>3
  <2>. QED BY <1>1, <1>3, <1>8, <1>11, <2>4, <2>5, NewCallOrder
<1>12. ASSUME NEW u \in SlotRoutes(c, t), log' = log, Pushes(u, y)
       PROVE  OrderInv'
  <2>1. u \in Threads
    BY <1>4, RoutesTyped
  <2>2. NewSlot(y.conn, y.asked)
    BY <1>6, <1>8
  <2>. QED BY <1>1, <1>3, <1>8, <1>12, <2>1, <2>2, LogStays, NewSlotOrder
<1>. QED BY <1>9, <1>10, <1>11, <1>12

LEMMA RunSlotOrder ==
  ASSUME Typed, Threaded, OrderInv, affinity' = affinity, NEW t \in Threads,
         RunSlot(t), ~ Stolen(t), ~ Item(t, 0).stray
  PROVE  OrderInv'
<1>. DEFINE c == Item(t, 0).conn
            e == Item(t, 0).asked
<1>1. /\ Empties(t) /\ Has(t, 0) /\ Item(t, 0).run = "slot" /\ emitting' = emitting /\ calls' = calls
      /\ log' = log \/ \E x \in Calls : x.conn = c /\ x.asked = e /\ log' = Append(log, x)
  BY RunSlotTyped
<1>2. SlotAt(t, 0) /\ Item(t, 0).conn = c /\ Item(t, 0).asked = e
  BY <1>1, OwnHand DEF SlotAt
<1>. HIDE DEF c, e
<1>3. \A u \in Threads : WalkKept(u)
  BY <1>1 DEF WalkKept, Walking
<1>4. PICK m \in Shifts : Moved(m)
  BY <1>1, EmptyMoves
<1>5. NewCall(c, e)
  <2>1. \A j \in Logged : log[j].conn = c /\ Ordered(c) => Before(log[j].asked, e)
    BY <1>2 DEF OrderInv, LogOrder, LogSlot
  <2>2. ASSUME NEW u \in Threads, NEW i \in Nat, SlotAt(u, i)', Item(u, i)'.conn = c, Ordered(c)
        PROVE  Before(e, Item(u, i)'.asked)
    <3>1. SlotAt(u, i) /\ Item(u, i)' = Item(u, i) /\ (u = t => 0 < i)
      BY <1>1, <2>2, EmptiedAt
    <3>2. u = t
      <4>1. affinity[c.dst] = u
        BY <2>2, <3>1 DEF Threaded, SlotHere
      <4>2. affinity[c.dst] = t
        BY <1>2, <2>2 DEF Threaded, SlotHere
      <4>. QED BY <4>1, <4>2
    <3>3. SlotSlot(t, 0, i)
      BY <1>2, <3>1, <3>2 DEF OrderInv, QueueOrder
    <3>. QED BY <1>2, <2>2, <3>1, <3>2, <3>3 DEF SlotSlot
  <2>3. ASSUME NEW u \in Threads, NEW i \in Nat, EmitAt(u, i)', c.src = Item(u, i)'.src
        PROVE  Before(e, Item(u, i)'.emission)
    <3>1. EmitAt(u, i) /\ Item(u, i)' = Item(u, i)
      BY <1>1, <2>3, EmptiedAt
    <3>2. SlotEmit(t, 0, u, i)
      BY <1>2, <3>1 DEF OrderInv, QueueOrder
    <3>. QED BY <1>2, <2>3, <3>1, <3>2 DEF SlotEmit
  <2>4. \A u \in Threads :
          Walking(u)' /\ c \in emitting'[u].left => Before(e, emitting'[u].emission)
    BY <1>1, <1>2 DEF OrderInv, WalkOrder, SlotWalk, Walking
  <2>5. e.number <= calls
    BY <1>2 DEF OrderInv, QueueOrder
  <2>. QED BY <2>1, <2>2, <2>3, <2>4, <2>5 DEF NewCall
<1>6. CASE log' = log
  <2>1. Calm
    BY <1>1, <1>3, <1>4, <1>6, LogStays, NumbersAre DEF Calm
  <2>. QED BY <2>1, CalmOrder
<1>7. ASSUME NEW x \in Calls, x.conn = c, x.asked = e, log' = Append(log, x)
      PROVE  OrderInv'
  <2>1. NewCall(x.conn, x.asked)
    BY <1>5, <1>7
  <2>. QED BY <1>1, <1>3, <1>4, <1>7, <2>1, NewCallOrder
<1>. QED BY <1>1, <1>6, <1>7

LEMMA OrderStep ==
  ASSUME Typed, Waited, Threaded, OrderInv, [Next]_vars
  PROVE  OrderInv'
<1>0. affinity' = affinity
  BY Ways
<1>1. ASSUME NEW k \in Callers, NEW s \in Objects, Emit(k, s)
      PROVE  OrderInv'
  <2>. DEFINE x == EmitItem(k, s)
  <2>1. affinity[s] \in Threads /\ x \in Items /\ log' = log /\ calls' = calls + 1
    BY <1>1, EmitIs
  <2>2. x.run = "emit" /\ x.emission.number = calls + 1
    BY EmissionIs DEF EmitItem
  <2>3. \/ /\ Home[k] = affinity[s] /\ Stays
           /\ emitting' = [emitting EXCEPT ![affinity[s]] = Walk(s, Emission(calls + 1, k), FALSE)]
        \/ Pushes(affinity[s], x) /\ emitting' = emitting
    BY <1>1, EmitIs
  <2>. HIDE DEF x
  <2>. QED BY <1>0, <2>1, <2>2, <2>3, EntersOrder, SendsOrder
<1>. QED BY <1>0, <1>1, CalmOrder, RunEmitOrder, CallSlotOrder, RunSlotOrder, Ways

-----------------------------------------------------------------------------
(* Where nothing may be stolen, nothing goes astray: no thief ever sees an *)
(* activity that it may take.                                              *)

Pinned(x) == x.run # "other" /\ (x.run = "slot" => ~ x.stray)

PinnedItems == \A t \in Threads, i \in Nat : Has(t, i) => Pinned(Item(t, i))
HandsOwn == \A t \in Threads : hand[t] # None => hand[t].from = t
WalksStraight == \A t \in Threads : emitting[t] # None => ~ emitting[t].stray
LogStraight == \A j \in 1 .. Len(log) : ~ log[j].stray

Straight == PinnedItems /\ HandsOwn /\ WalksStraight /\ LogStraight
Strays == others = 0 => Straight

LEMMA PushPinned ==
  ASSUME Typed, PinnedItems, HandsOwn, NEW t \in Threads, NEW x \in Items, Pinned(x), Pushes(t, x)
  PROVE  PinnedItems' /\ HandsOwn'
<1>1. ASSUME NEW u \in Threads, NEW i \in Nat, Has(u, i)'
      PROVE  Pinned(Item(u, i)')
  <2>1. (Has(u, i) /\ Item(u, i)' = Item(u, i)) \/ Item(u, i)' = x
    BY <1>1, PushPlaces
  <2>. QED BY <2>1 DEF PinnedItems
<1>2. HandsOwn'
  BY DEF Pushes, HandsOwn
<1>. QED BY <1>1, <1>2 DEF PinnedItems, Pinned

LEMMA StaysPinned ==
  ASSUME PinnedItems, HandsOwn, Stays
  PROVE  PinnedItems' /\ HandsOwn'
BY DEF PinnedItems, Pinned, HandsOwn, Stays, Has, Item

LEMMA EmptyPinned ==
  ASSUME Typed, PinnedItems, HandsOwn, NEW t \in Threads, queue' = queue, hand' = [hand EXCEPT ![t] = None]
  PROVE  PinnedItems' /\ HandsOwn'
<1>1. ASSUME NEW u \in Threads, NEW i \in Nat, Has(u, i)'
      PROVE  Pinned(Item(u, i)')
  <2>1. Empties(t)
    BY DEF Empties
  <2>. QED BY <1>1, <2>1, EmptyPlaces DEF PinnedItems
<1>2. HandsOwn'
  BY DEF HandsOwn, Typed
<1>. QED BY <1>1, <1>2 DEF PinnedItems, Pinned

LEMMA TakePinned ==
  ASSUME Typed, PinnedItems, HandsOwn, NEW t \in Threads, Takes(t, t)
  PROVE  PinnedItems' /\ HandsOwn'
<1>1. ASSUME NEW u \in Threads, NEW i \in Nat, Has(u, i)'
      PROVE  Pinned(Item(u, i)')
  <2>1. \/ Has(t, 1) /\ Item(u, i)' = Item(t, 1)
        \/ Has(t, i + 1) /\ Item(u, i)' = Item(t, i + 1)
        \/ Has(u, i) /\ Item(u, i)' = Item(u, i)
    BY <1>1, TakePlaces
  <2>. QED BY <2>1 DEF PinnedItems
<1>2. ASSUME NEW u \in Threads
      PROVE  hand'[u] # None => hand'[u].from = u
  <2>1. hand'[t].from = t /\ (u # t => hand'[u] = hand[u])
    BY TakeIs
  <2>. QED BY <2>1 DEF HandsOwn
<1>. QED BY <1>1, <1>2 DEF PinnedItems, Pinned, HandsOwn

LEMMA PoolStep ==
  ASSUME Typed, Waited, Straight, [Next]_vars, others' = others
  PROVE  PinnedItems' /\ HandsOwn'
<1>0. PinnedItems /\ HandsOwn /\ others \in Nat
  BY DEF Straight, Typed
<1>1. ASSUME NEW k \in Callers, Operation(k)
      PROVE  PinnedItems' /\ HandsOwn'
  <2>1. ASSUME NEW s \in Objects, Emit(k, s), ~ Stays
        PROVE  PinnedItems' /\ HandsOwn'
    <3>1. affinity[s] \in Threads /\ EmitItem(k, s) \in Items /\ Pushes(affinity[s], EmitItem(k, s))
      BY <2>1, EmitIs
    <3>2. Pinned(EmitItem(k, s))
      BY DEF EmitItem, Pinned
    <3>. QED BY <1>0, <3>1, <3>2, PushPinned
  <2>. QED BY <1>0, <1>1, <2>1, OperationIs, StaysPinned
<1>2. ASSUME NEW k \in Callers, PostPart(k)
      PROVE  PinnedItems' /\ HandsOwn'
  <2>. DEFINE x == [run |-> "part", caller |-> k]
  <2>1. x \in Items /\ Pinned(x)
    BY NewItems DEF Pinned
  <2>2. PICK t \in Threads : Pushes(t, x)
    BY <1>2, PostPartIs
  <2>. HIDE DEF x
  <2>. QED BY <1>0, <2>1, <2>2, PushPinned
<1>3. ASSUME NEW t \in Threads, CallSlot(t)
      PROVE  PinnedItems' /\ HandsOwn'
  <2>. DEFINE e == emitting[t].emission
  <2>1. emitting[t] # None /\ emitting[t].stray = FALSE
    BY <1>3, CallSlotIs, WalkIs DEF Straight, WalksStraight
  <2>2. PICK c \in emitting[t].left : CallsSlot(t, c)
    BY <1>3, CallSlotIs
  <2>3. c \in Made /\ e \in Emissions
    BY <2>1, WalkIs
  <2>. DEFINE x == SlotItem(c, e, FALSE)
  <2>4. x \in Items /\ Pinned(x)
    BY <2>3, NewItems DEF SlotItem, Pinned
  <2>5. SlotRoutes(c, t) \subseteq Threads
    BY <2>3, RoutesTyped
  <2>6. Stays \/ \E u \in SlotRoutes(c, t) : Pushes(u, x)
    BY <2>1, <2>2 DEF CallsSlot
  <2>. HIDE DEF x
  <2>. QED BY <1>0, <2>4, <2>5, <2>6, StaysPinned, PushPinned
<1>4. ASSUME NEW t \in Threads, RunOther(t) \/ RunPart(t) \/ RunEmit(t) \/ RunSlot(t)
      PROVE  PinnedItems' /\ HandsOwn'
  <2>1. queue' = queue /\ hand' = [hand EXCEPT ![t] = None]
    BY <1>4 DEF RunOther, RunPart, RunEmit, RunSlot, Runs
  <2>. QED BY <1>0, <2>1, EmptyPinned
<1>5. ASSUME NEW t \in Threads, Take(t)
      PROVE  PinnedItems' /\ HandsOwn'
  <2>1. Takes(t, t)
    BY <1>5 DEF Take, Free, Takes, Has
  <2>. QED BY <1>0, <2>1, TakePinned
<1>6. ASSUME NEW t \in Threads, Look(t)
      PROVE  FALSE
  <2>1. PICK u \in Threads : queue[u] # << >> /\ Head(queue[u]).run = "other"
    BY <1>6, VictimsAssumption DEF Look
  <2>2. queue[u] \in Seq(Items)
    BY DEF Typed
  <2>3. 1 \in 1 .. Len(queue[u]) /\ queue[u][1] = Head(queue[u])
    BY <2>1, <2>2
  <2>4. Has(u, 1) /\ Item(u, 1) = Head(queue[u])
    BY <2>3 DEF Has, Item
  <2>. QED BY <1>0, <2>1, <2>4 DEF PinnedItems, Pinned
<1>7. ASSUME NEW t \in Threads, Rob(t)
      PROVE  PinnedItems' /\ HandsOwn'
  <2>1. hand[t].from = t
    BY <1>0, <1>7 DEF Rob, HandsOwn
  <2>2. Takes(t, t) \/ (queue' = queue /\ hand' = [hand EXCEPT ![t] = None])
    BY <1>7, <2>1 DEF Rob, Takes, Has
  <2>. QED BY <1>0, <2>2, TakePinned, EmptyPinned
<1>8. ASSUME NEW t \in Threads, PostOther(t)
      PROVE  FALSE
  BY <1>0, <1>8 DEF PostOther
<1>9. /\ \A k \in Callers : InlinePart(k) => Stays
      /\ \A t \in Threads : EmitEnds(t) => Stays
      /\ \A o \in Objects : Drop(o) \/ Destroy(o) => Stays
      /\ UNCHANGED vars => Stays
  BY DEF InlinePart, EmitEnds, Drop, Destroy, vars, pool, Stays
<1>. QED BY <1>0, <1>1, <1>2, <1>3, <1>4, <1>5, <1>6, <1>7, <1>8, <1>9, StaysPinned DEF Next, Caller, Worker

LEMMA AppendStraight ==
  ASSUME Typed, LogStraight
  PROVE  /\ log' = log => LogStraight'
         /\ \A x \in Calls : ~ x.stray /\ log' = Append(log, x) => LogStraight'
<1>1. ASSUME NEW x \in Calls, ~ x.stray, log' = Append(log, x), NEW j \in 1 .. Len(log')
      PROVE  ~ log'[j].stray
  <2>1. log \in Seq(Calls)
    BY DEF Typed
  <2>2. j \in 1 .. Len(log) \/ j = Len(log) + 1
    BY <1>1, <2>1
  <2>3. \A i \in 1 .. Len(log) : log'[i] = log[i]
    BY <1>1, <2>1
  <2>4. log'[Len(log) + 1] = x
    BY <1>1, <2>1
  <2>. QED BY <1>1, <2>2, <2>3, <2>4 DEF LogStraight
<1>. QED BY <1>1 DEF LogStraight

LEMMA WalkStep ==
  ASSUME Typed, Waited, Straight, [Next]_vars
  PROVE  WalksStraight' /\ LogStraight'
<1>0. WalksStraight /\ LogStraight
  BY DEF Straight
<1>1. ASSUME WalksKept
      PROVE  WalksStraight'
  BY <1>0, <1>1 DEF WalksKept, WalksStraight
<1>2. ASSUME NEW s \in Objects, NEW n, NEW t \in Threads,
             emitting' = [emitting EXCEPT ![t] = Walk(s, n, FALSE)]
      PROVE  WalksStraight'
  <2>1. ~ Walk(s, n, FALSE).stray
    BY DEF Walk
  <2>. QED BY <1>0, <1>2, <2>1 DEF WalksStraight, Typed
<1>3. ASSUME NEW k \in Callers, NEW s \in Objects, Emit(k, s)
      PROVE  WalksStraight' /\ LogStraight'
  <2>1. log' = log /\ affinity[s] \in Threads
    BY <1>3, EmitIs
  <2>2. \/ emitting' = [emitting EXCEPT ![affinity[s]] = Walk(s, Emission(calls + 1, k), FALSE)]
        \/ emitting' = emitting
    BY <1>3, EmitIs
  <2>3. emitting' = emitting => WalksStraight'
    BY <1>1 DEF WalksKept
  <2>. QED BY <1>0, <1>2, <2>1, <2>2, <2>3, AppendStraight
<1>4. ASSUME NEW t \in Threads, RunEmit(t)
      PROVE  WalksStraight' /\ LogStraight'
  <2>1. /\ Has(t, 0) /\ Item(t, 0).src \in Objects /\ log' = log
        /\ emitting' = [emitting EXCEPT ![t] = Walk(Item(t, 0).src, Item(t, 0).emission, Stolen(t))]
    BY <1>4, RunEmitTyped
  <2>2. Stolen(t) = FALSE
    BY <2>1 DEF Has, Straight, HandsOwn, Stolen
  <2>. QED BY <1>0, <1>2, <2>1, <2>2, AppendStraight
<1>5. ASSUME NEW t \in Threads, RunSlot(t)
      PROVE  WalksStraight' /\ LogStraight'
  <2>1. Has(t, 0) /\ Item(t, 0).run = "slot" /\ emitting' = emitting
    BY <1>5, RunSlotTyped
  <2>2. ~ Stolen(t) /\ ~ Item(t, 0).stray
    BY <2>1 DEF Has, Straight, HandsOwn, PinnedItems, Pinned, Stolen
  <2>3. log' = log \/ \E x \in Calls : ~ x.stray /\ log' = Append(log, x)
    BY <1>5, <2>2, RunSlotTyped
  <2>4. WalksStraight'
    BY <1>1, <2>1 DEF WalksKept
  <2>. QED BY <1>0, <2>3, <2>4, AppendStraight
<1>6. ASSUME NEW t \in Threads, CallSlot(t)
      PROVE  WalksStraight' /\ LogStraight'
  <2>. DEFINE e == emitting[t].emission
  <2>1. emitting[t] # None /\ emitting[t].stray = FALSE /\ Shrinks(emitting, emitting')
    BY <1>0, <1>6, CallSlotIs, WalkIs DEF WalksStraight
  <2>2. PICK c \in emitting[t].left : CallsSlot(t, c)
    BY <1>6, CallSlotIs
  <2>3. c \in Made /\ e \in Emissions
    BY <2>1, WalkIs
  <2>4. e.number \in 0 .. MaxCalls
    BY <2>3, MaxCallsAssumption DEF Emissions, Numbers
  <2>. DEFINE x == SlotCall(c, e, e.number, t, FALSE)
  <2>5. x \in Calls /\ ~ x.stray
    BY <2>3, <2>4, SlotCallTyped DEF SlotCall
  <2>6. log' = log \/ log' = Append(log, x)
    BY <2>1, <2>2 DEF CallsSlot
  <2>. HIDE DEF x
  <2>7. WalksStraight'
    BY <1>1, <2>1 DEF Shrinks, WalksKept
  <2>. QED BY <1>0, <2>5, <2>6, <2>7, AppendStraight
<1>7. CASE Quiet
  BY <1>0, <1>1, <1>7, AppendStraight DEF Quiet
<1>. QED BY <1>3, <1>4, <1>5, <1>6, <1>7, Flow

LEMMA StraysStep ==
  ASSUME Typed, Waited, Strays, [Next]_vars
  PROVE  Strays'
<1>1. others \in Nat /\ (others' = others \/ others' = others + 1)
  <2>1. \A t \in Threads : PostOther(t) => others' = others + 1
    BY DEF PostOther
  <2>2. \A k \in Callers : Operation(k) \/ Caller(k) => others' = others
    BY OperationIs, PostPartIs DEF Caller, InlinePart, pool
  <2>3. \A t \in Threads : Worker(t) => others' = others
    BY TakingIs, RunPartTyped, RunEmitTyped, RunSlotTyped, CallSlotIs DEF Worker, EmitEnds, pool
  <2>4. (\A o \in Objects : Drop(o) \/ Destroy(o) => others' = others) /\ (UNCHANGED vars => others' = others)
    BY DEF Drop, Destroy, vars, pool
  <2>. QED BY <2>1, <2>2, <2>3, <2>4 DEF Next, Typed
<1>2. SUFFICES ASSUME others' = 0
               PROVE  Straight'
  BY DEF Strays
<1>3. others' = others /\ Straight
  BY <1>1, <1>2 DEF Strays
<1>. QED BY <1>3, PoolStep, WalkStep DEF Straight

-----------------------------------------------------------------------------
(* Theorems                                                                *)

Base == Typed /\ Waited /\ GoneInv /\ Threaded /\ OrderInv /\ Strays

LEMMA InitBase == Init => Base
<1>. SUFFICES ASSUME Init PROVE Base
  OBVIOUS
<1>1. /\ outputs = {} /\ inputs = {} /\ held = {} /\ gone = {} /\ calls = 0 /\ owned = Objects /\ others = 0
      /\ affinity \in [Objects -> Threads]
      /\ log = << >> /\ Len(log) = 0 /\ log \in Seq(Calls)
      /\ queue = [t \in Threads |-> << >>]
      /\ hand = [t \in Threads |-> None]
      /\ emitting = [t \in Threads |-> None]
      /\ op = [k \in Callers |-> None]
      /\ para = [n \in Numbers |-> 0]
  BY DEF Init
<1>2. /\ \A t \in Threads : queue[t] = << >> /\ Len(queue[t]) = 0 /\ hand[t] = None /\ emitting[t] = None
      /\ \A k \in Callers : op[k] = None
  BY <1>1
<1>3. Typed
  <2>1. queue \in [Threads -> Seq(Items)]
    BY <1>1
  <2>2. 0 \in 0 .. MaxCalls /\ others \in Nat
    BY <1>1, MaxCallsAssumption
  <2>. QED BY <1>1, <1>2, <2>1, <2>2 DEF Typed
<1>4. \A t \in Threads, i \in Nat : ~ Has(t, i)
  BY <1>2 DEF Has
<1>5. \A t \in Threads, i \in Nat : ~ SlotAt(t, i) /\ ~ EmitAt(t, i) /\ ~ PartAt(t, i)
  BY <1>4 DEF SlotAt, EmitAt, PartAt, Own
<1>6. Waited
  BY <1>5 DEF Waited
<1>7. GoneInv
  BY <1>1, <1>2 DEF GoneInv, MapsInv, Ids, Starts, Making, Cut, Cutting, Lambdas, NoDuplicates, ReceiverKnows,
     GoneDropped, GoneIsCut
<1>8. Logged = {} /\ \A t \in Threads : ~ Walking(t)
  BY <1>1, <1>2 DEF Logged, Walking
<1>9. Threaded
  BY <1>5, <1>8 DEF Threaded
<1>10. OrderInv
  BY <1>5, <1>8 DEF OrderInv, QueueOrder, LogOrder, WalkOrder, WalkEmit, SlotWalk, LogWalk
<1>11. Strays
  BY <1>1, <1>2, <1>4 DEF Strays, Straight, PinnedItems, HandsOwn, WalksStraight, LogStraight
<1>. QED BY <1>3, <1>6, <1>7, <1>9, <1>10, <1>11 DEF Base

LEMMA BaseStep == Base /\ [Next]_vars => Base'
BY TypedStep, WaitedStep, GoneStep, ThreadedStep, OrderStep, StraysStep DEF Base

(* Base is an inductive invariant.                                         *)
THEOREM BaseTheorem == Spec => []Base
<1>. QED BY InitBase, BaseStep, PTL DEF Spec

(* A signal is connected to a slot at most once.                           *)
THEOREM DuplicatesTheorem == Spec => []NoDuplicates
<1>1. Base => NoDuplicates
  BY DEF Base, GoneInv, MapsInv
<1>. QED BY <1>1, BaseTheorem, PTL

(* A receiver knows the connections that may call it.                      *)
THEOREM ReceiverTheorem == Spec => []ReceiverKnows
<1>1. Base => ReceiverKnows
  BY DEF Base, GoneInv, MapsInv
<1>. QED BY <1>1, BaseTheorem, PTL

(* No sender keeps a connection to an object that is gone.                 *)
THEOREM GoneTheorem == Spec => []GoneIsCut
<1>1. Base => GoneIsCut
  BY DEF Base, GoneInv
<1>. QED BY <1>1, BaseTheorem, PTL

(* A slot runs on its receiver's thread unless a thief took it or its      *)
(* emission, and thieves take nothing before something that may be stolen  *)
(* has been posted.                                                        *)
THEOREM ThreadTheorem == Spec => []OnReceiversThread
<1>1. Base => OnReceiversThread
  <2>1. SUFFICES ASSUME Base, NEW j \in 1 .. Len(log)
                 PROVE  IF log[j].stray THEN others > 0 ELSE LogHere(j)
    BY DEF OnReceiversThread, LogHere
  <2>2. CASE log[j].stray
    <3>1. others # 0 /\ others \in Nat
      BY <2>1, <2>2 DEF Base, Strays, Straight, LogStraight, Typed
    <3>. QED BY <2>2, <3>1
  <2>3. CASE ~ log[j].stray
    BY <2>1, <2>3 DEF Base, Threaded, Logged
  <2>. QED BY <2>2, <2>3
<1>. QED BY <1>1, BaseTheorem, PTL

(* The emissions of one caller reach a slot in their order, whatever       *)
(* thieves take out from among them.                                       *)
THEOREM OrderTheorem == Spec => []InOrder
<1>1. Base => InOrder
  <2>1. SUFFICES ASSUME Base PROVE InOrder
    OBVIOUS
  <2>2. \A i, j \in Logged : LogLog(i, j)
    BY <2>1 DEF Base, OrderInv, LogOrder
  <2>3. \A i \in 1 .. Len(log) : ~ log[i].stray => i \in Logged
    BY DEF Logged
  <2>. QED BY <2>2, <2>3 DEF InOrder, LogLog, Before
<1>. QED BY <1>1, BaseTheorem, PTL
=============================================================================
