----------------------------- MODULE Connections -----------------------------
(***************************************************************************)
(* The signal and slot connections of TA_MetaObject: registerConnection,   *)
(* unregisterConnection and emitSignal, how they hop to the threads the    *)
(* objects belong to, and the destruction of the objects.                  *)
(*                                                                         *)
(* Every object is owned by shared_ptrs and has one signal, one slot, a    *)
(* lambda the program connects and the one TA_SignalAwaitable connects.    *)
(* What an operation posts is pinned: it may not be stolen.  But a thief   *)
(* looks at the head of a queue and pops afterwards, so behind an activity *)
(* that may be stolen it can take a pinned one (module ThreadPool).  Such  *)
(* activities are posted by the program, and by invokeActivity itself: the *)
(* helper that waits for a part.  Here they do no more than occupy the     *)
(* thread that runs them; that an operation returns only when its helper   *)
(* has run is left out, as a delay, and whether it returns at all is the   *)
(* question of module Coroutines.                                          *)
(*                                                                         *)
(* Callers are user code: outside the pool, or an activity that occupies a *)
(* thread of the pool and calls one operation.  Slots call no operation    *)
(* themselves, and objects do not move to another thread.                  *)
(***************************************************************************)
EXTENDS Integers, Sequences, FiniteSets

CONSTANTS
  Objects,
  Threads,       \* the threads of the pool
  Callers,
  Home,          \* caller -> its thread, or Outside
  Outside,
  Victims,       \* thread -> those it may rob
  Pairs,         \* the senders and receivers the callers connect
  Types,         \* the connection types the callers use
  MaxCalls,      \* bound on the operations called
  MaxOthers,     \* bound on the activities posted that may be stolen
  None

ASSUME ThreadsAssumption == Cardinality(Threads) >= 2
ASSUME HomeAssumption == Home \in [Callers -> Threads \union {Outside}]
ASSUME OutsideAssumption == Outside \notin Threads
ASSUME VictimsAssumption == Victims \in [Threads -> SUBSET Threads]
ASSUME PairsAssumption == Pairs \subseteq Objects \X Objects
ASSUME TypesAssumption == Types \subseteq {"Direct", "Auto", "Queued"}
ASSUME MaxCallsAssumption == MaxCalls \in Nat /\ MaxOthers \in Nat

VARIABLES
  affinity,      \* object -> m_affinityThreadIdx
  outputs,       \* the connections in their senders' m_outputConnections
  inputs,        \* those in their receivers' m_inputConnections
  para,          \* connection -> m_para: the emission that set it
  queue,         \* thread -> what is posted to it
  hand,          \* thread -> the queue it takes from and what it has taken
  emitting,      \* thread -> the emission it runs and the connections left
  op,            \* caller -> the operation it is in
  held,          \* the connections whose holder the program has
  owned,         \* the objects the program has a shared_ptr to
  gone,          \* the objects that are destroyed
  calls,         \* the operations called, which numbers them
  others,        \* the activities posted that may be stolen
  log            \* the slot calls in the order they ran

maps == << outputs, inputs >>
objects == << affinity, owned, gone >>
pool == << queue, hand, others >>
vars == << objects, maps, para, pool, emitting, op, held, calls, log >>

Numbers == 1 .. MaxCalls

(* A connection is named by the operation that made it.  A lambda has its  *)
(* sender as receiver; "once" is that of a signal awaitable, which         *)
(* destroys itself.                                                        *)
Connection(n, s, r, type, slot) ==
  [id |-> n, src |-> s, dst |-> r, type |-> type, slot |-> slot]

Connected ==
  [id : 0 .. MaxCalls, src : Objects, dst : Objects, type : {"Direct", "Auto", "Queued"},
   slot : {"method", "lambda", "once"}]

(* Those an operation made, which a connection to look for is not.         *)
Made == {c \in Connected : c.id \in Numbers}

Emissions == [number : Numbers, by : Callers]

(* An operation is in its sender's or receiver's part, which may be posted.*)
Operations ==
  [what : {"connect", "disconnect", "unhold"}, part : {"sender", "receiver"},
   conn : Connected, posted : BOOLEAN]

(* stray: a thief has taken the activity of the emission, or of the slot.  *)
Walks == [src : Objects, emission : Emissions, left : SUBSET Made, stray : BOOLEAN]

(* What is posted: emissions, parts of operations, slots, and others.      *)
Items ==
  [run : {"emit"}, src : Objects, emission : Emissions] \union
  [run : {"part"}, caller : Callers] \union
  [run : {"slot"}, conn : Made, asked : Emissions, stray : BOOLEAN] \union
  [run : {"other"}]

(* A thief that has looked has no item yet.                                *)
Hands == [from : Threads, item : Items \union {None}]

ASSUME NoneAssumption == None \notin Operations \union Walks \union Items \union Hands

Init ==
  /\ affinity \in [Objects -> Threads]
  /\ outputs = {} /\ inputs = {}
  /\ para = [n \in Numbers |-> 0]
  /\ queue = [t \in Threads |-> << >>]
  /\ hand = [t \in Threads |-> None]
  /\ emitting = [t \in Threads |-> None]
  /\ op = [k \in Callers |-> None]
  /\ held = {} /\ owned = Objects /\ gone = {}
  /\ calls = 0 /\ others = 0
  /\ log = << >>

(* Thread t has taken an activity of that kind and not begun it.           *)
Holds(t, what) == hand[t] # None /\ hand[t].item # None /\ hand[t].item.run = what

(* What keeps an object alive: an operation on it, and an emission of its  *)
(* signal.  Connections, slots that are posted and holders do not: their   *)
(* weak pointers expire when the last of these references goes.            *)
Referenced(o) ==
  \/ o \in owned
  \/ \E k \in Callers :
       op[k] # None /\ op[k].what # "unhold" /\ o \in {op[k].conn.src, op[k].conn.dst}
  \/ \E t \in Threads :
       \/ emitting[t] # None /\ emitting[t].src = o
       \/ Holds(t, "emit") /\ hand[t].item.src = o
       \/ \E j \in 1 .. Len(queue[t]) : queue[t][j].run = "emit" /\ queue[t][j].src = o

-----------------------------------------------------------------------------
(* Calling an operation                                                    *)

(* A thread of the pool is free for its next activity.                     *)
Free(t) ==
  /\ emitting[t] = None /\ hand[t] = None
  /\ \A k \in Callers : Home[k] = t => op[k] = None

Call(k) ==
  /\ op[k] = None
  /\ Home[k] # Outside => Free(Home[k])
  /\ calls < MaxCalls
  /\ calls' = calls + 1

Begin(k, what, conn) ==
  op' = [op EXCEPT ![k] = [what |-> what, part |-> "sender", conn |-> conn, posted |-> FALSE]]

(* An operation that hops begins; the caller's thread then goes from map   *)
(* to map.                                                                 *)
Hops(k, what, conn) ==
  /\ Call(k)
  /\ Begin(k, what, conn)
  /\ UNCHANGED << objects, maps, para, pool, emitting, log >>

Connect(k, s, r, type) ==
  /\ Hops(k, "connect", Connection(calls + 1, s, r, type, "method"))
  /\ UNCHANGED held

ConnectLambda(k, s, type) ==
  /\ Hops(k, "connect", Connection(calls + 1, s, s, type, "lambda"))
  /\ UNCHANGED held

(* co_await of a TA_SignalAwaitable: a lambda connection with autoDestroy  *)
Await(k, s) ==
  /\ Hops(k, "connect", Connection(calls + 1, s, s, "Auto", "once"))
  /\ UNCHANGED held

(* disconnect of the methods of two objects                                *)
Disconnect(k, s, r) ==
  /\ Hops(k, "disconnect", Connection(0, s, r, "Auto", "method"))
  /\ UNCHANGED held

(* disconnect of a holder, unless its sender is gone: then it throws.      *)
DisconnectHolder(k, c) ==
  /\ Referenced(c.src)
  /\ Hops(k, "unhold", c)
  /\ held' = held \ {c}

From(s) == {c \in outputs : c.src = s}

Emission(n, k) == [number |-> n, by |-> k]
Walk(s, e, stray) == [src |-> s, emission |-> e, left |-> From(s), stray |-> stray]

(* Mutant: the emission is posted without moveToThread. *)
Emit_NoMove(k, s) ==
  /\ Call(k)
  /\ IF Home[k] = affinity[s]
     THEN /\ emitting' = [emitting EXCEPT ![Home[k]] = Walk(s, Emission(calls', k), FALSE)]
          /\ UNCHANGED queue
     ELSE /\ \E t \in Threads \ {Home[k]} :
               queue' = [queue EXCEPT ![t] =
                           Append(@, [run |-> "emit", src |-> s, emission |-> Emission(calls', k)])]
          /\ UNCHANGED emitting
  /\ UNCHANGED << objects, maps, para, hand, others, op, held, log >>

(* emitSignal: at once on the sender's thread, else posted and not waited  *)
(* for.  The emission is the argument the slots get.                       *)
Emit(k, s) ==
  /\ Call(k)
  /\ IF Home[k] = affinity[s]
     THEN /\ emitting' = [emitting EXCEPT ![Home[k]] =
                            Walk(s, Emission(calls', k), FALSE)]
          /\ UNCHANGED queue
     ELSE /\ queue' = [queue EXCEPT ![affinity[s]] =
                         Append(@, [run |-> "emit", src |-> s, emission |-> Emission(calls', k)])]
          /\ UNCHANGED emitting
  /\ UNCHANGED << objects, maps, para, hand, others, op, held, log >>

-----------------------------------------------------------------------------
(* The two parts of an operation                                           *)

(* registerConnection looks for the same receiver and slot.                *)
Same(c, d) == c.src = d.src /\ c.dst = d.dst /\ c.slot = d.slot

(* With one affinity both maps are changed at once; a lambda is in the     *)
(* sender's map only.                                                      *)
OnePart(c) == affinity[c.src] = affinity[c.dst]

Finish(k) == op' = [op EXCEPT ![k] = None]
Proceed(k, c) ==
  op' = [op EXCEPT ![k] = [what |-> op[k].what, part |-> "receiver", conn |-> c, posted |-> FALSE]]

(* What an iterator over the sender's connections may do when some are     *)
(* erased: it is not at one of them, or it is, and goes on in freed        *)
(* memory.                                                                 *)
Disturbed(left, erased) ==
  {left \ x : x \in SUBSET erased} \union (IF erased \intersect left # {} THEN {{}} ELSE {})

(* Emissions of the connections' sender may be under way on any thread.    *)
After(walks, erased) ==
  {f \in [Threads -> {None} \union
             UNION {{[walks[t] EXCEPT !.left = left] : left \in Disturbed(walks[t].left, erased)} :
                    t \in {u \in Threads : walks[u] # None}}] :
     \A t \in Threads :
       IF walks[t] = None THEN f[t] = None
       ELSE f[t] \in {[walks[t] EXCEPT !.left = left] : left \in Disturbed(walks[t].left, erased)}}

Erase(erased) ==
  /\ outputs' = outputs \ erased
  /\ emitting' \in After(emitting, erased)

(* Mutant: the duplicate is looked for in the receiver's map. *)
ConnectSender_WrongMap(k, c) ==
  IF \E d \in inputs : Same(c, d)
  THEN Finish(k) /\ UNCHANGED << maps, emitting, held >>
  ELSE /\ outputs' = outputs \union {c}
       /\ IF OnePart(c)
          THEN /\ inputs' = IF c.slot = "method" THEN inputs \union {c} ELSE inputs
               /\ Finish(k)
          ELSE Proceed(k, c) /\ UNCHANGED inputs
       /\ held' = IF c.slot = "lambda" THEN held \union {c} ELSE held
       /\ UNCHANGED emitting

ConnectSender(k, c) ==
  IF \E d \in outputs : Same(c, d)
  THEN Finish(k) /\ UNCHANGED << maps, emitting, held >>
  ELSE /\ outputs' = outputs \union {c}
       /\ IF OnePart(c)
          THEN /\ inputs' = IF c.slot = "method" THEN inputs \union {c} ELSE inputs
               /\ Finish(k)
          ELSE Proceed(k, c) /\ UNCHANGED inputs
       /\ held' = IF c.slot = "lambda" THEN held \union {c} ELSE held
       /\ UNCHANGED emitting

ConnectReceiver(k, c) ==
  /\ inputs' = inputs \union {c}
  /\ Finish(k)
  /\ UNCHANGED << outputs, emitting, held >>

(* The receiver's part follows whether or not the connection was found.    *)
DisconnectSender(k, c) ==
  /\ UNCHANGED << inputs, held >>
  /\ IF \E d \in outputs : Same(c, d)
     THEN \E d \in outputs : Same(c, d) /\ Erase({d}) /\ Proceed(k, d)
     ELSE Proceed(k, c) /\ UNCHANGED << outputs, emitting >>

(* Mutant: whatever connects the two is taken, not the one found. *)
DisconnectReceiver_ByName(k, c) ==
  /\ inputs' = {d \in inputs : ~ Same(c, d)}
  /\ Finish(k)
  /\ UNCHANGED << outputs, emitting, held >>

DisconnectReceiver(k, c) ==
  /\ inputs' = inputs \ {c}
  /\ Finish(k)
  /\ UNCHANGED << outputs, emitting, held >>

(* The connection itself is looked for in the map of the holder's sender,  *)
(* if that is still there.                                                 *)
ReleaseHolder(k, c) ==
  /\ Erase(IF Referenced(c.src) THEN {c} \intersect outputs ELSE {})
  /\ Finish(k)
  /\ UNCHANGED << inputs, held >>

At(k, what, part) == op[k].what = what /\ op[k].part = part

Part(k) ==
  LET c == op[k].conn IN
  /\ \/ At(k, "connect", "sender") /\ ConnectSender(k, c)
     \/ At(k, "connect", "receiver") /\ ConnectReceiver(k, c)
     \/ At(k, "disconnect", "sender") /\ DisconnectSender(k, c)
     \/ At(k, "disconnect", "receiver") /\ DisconnectReceiver(k, c)
     \/ At(k, "unhold", "sender") /\ ReleaseHolder(k, c)
  /\ UNCHANGED << objects, para, calls, log >>

Owner(o) == affinity[IF o.part = "sender" THEN o.conn.src ELSE o.conn.dst]

InlinePart(k) ==
  /\ op[k] # None /\ ~ op[k].posted
  /\ Home[k] = Owner(op[k])
  /\ Part(k)
  /\ UNCHANGED pool

(* The sender's part of disconnect is posted without moveToThread, to the  *)
(* thread topPriorityThread chooses.                                       *)
Routes(k) ==
  IF op[k].what = "disconnect" /\ op[k].part = "sender"
  THEN Threads \ {Home[k]}
  ELSE {Owner(op[k])}

PostPart(k) ==
  /\ op[k] # None /\ ~ op[k].posted
  /\ Home[k] # Owner(op[k])
  /\ \E t \in Routes(k) : queue' = [queue EXCEPT ![t] = Append(@, [run |-> "part", caller |-> k])]
  /\ op' = [op EXCEPT ![k].posted = TRUE]
  /\ UNCHANGED << objects, maps, para, hand, others, emitting, held, calls, log >>

-----------------------------------------------------------------------------
(* The threads of the pool                                                 *)

(* Somebody posts an activity that may be stolen: the program, or          *)
(* invokeActivity, whose helper follows the part it waits for, to any      *)
(* thread topPriorityThread may choose.                                    *)
PostOther(t) ==
  /\ others < MaxOthers
  /\ others' = others + 1
  /\ queue' = [queue EXCEPT ![t] = Append(@, [run |-> "other"])]
  /\ UNCHANGED << objects, maps, para, hand, emitting, op, held, calls, log >>

Hold(t, u) ==
  /\ queue[u] # << >>
  /\ queue' = [queue EXCEPT ![u] = Tail(@)]
  /\ hand' = [hand EXCEPT ![t] = [from |-> u, item |-> Head(queue[u])]]

(* A thread takes from its own queue, whatever is at the head.             *)
Take(t) ==
  /\ Free(t) /\ Hold(t, t)
  /\ UNCHANGED << objects, maps, para, others, emitting, op, held, calls, log >>

(* trySteal: a thread that found its own queue empty, which may have been  *)
(* before something was posted to it, sees at the head of another an       *)
(* activity that may be stolen ...                                         *)
Look(t) ==
  /\ Free(t)
  /\ \E u \in Victims[t] :
       /\ queue[u] # << >> /\ Head(queue[u]).run = "other"
       /\ hand' = [hand EXCEPT ![t] = [from |-> u, item |-> None]]
  /\ UNCHANGED << objects, maps, para, queue, others, emitting, op, held, calls, log >>

(* ... and pops what is at the head by then.                               *)
Rob(t) ==
  /\ hand[t] # None /\ hand[t].item = None
  /\ \/ Hold(t, hand[t].from)
     \/ /\ queue[hand[t].from] = << >>
        /\ hand' = [hand EXCEPT ![t] = None]
        /\ UNCHANGED queue
  /\ UNCHANGED << objects, maps, para, others, emitting, op, held, calls, log >>

(* A thread begins what it has taken.                                      *)
Runs(t, what) ==
  /\ Holds(t, what)
  /\ hand' = [hand EXCEPT ![t] = None]
  /\ UNCHANGED << queue, others >>

Stolen(t) == hand[t].from # t

RunOther(t) ==
  /\ Runs(t, "other")
  /\ UNCHANGED << objects, maps, para, emitting, op, held, calls, log >>

RunPart(t) == Runs(t, "part") /\ Part(hand[t].item.caller)

RunEmit(t) ==
  /\ Runs(t, "emit")
  /\ emitting' = [emitting EXCEPT ![t] = Walk(hand[t].item.src, hand[t].item.emission, Stolen(t))]
  /\ UNCHANGED << objects, maps, para, op, held, calls, log >>

SlotCall(c, asked, seen, t, stray) ==
  [conn |-> c, asked |-> asked, seen |-> seen, thread |-> t, stray |-> stray]

(* Mutant: the affinities are not compared. *)
Inline_AnyThread(c) == c.type \in {"Direct", "Auto"}

(* callSlot runs the slot itself if both objects have one affinity, unless *)
(* the connection is Queued.                                               *)
Inline(c) == OnePart(c) /\ c.type \in {"Direct", "Auto"}

(* moveToThread refuses the thread the slot's activity was created on.     *)
SlotRoutes(c, t) == IF affinity[c.dst] = t THEN Threads \ {t} ELSE {affinity[c.dst]}

(* removeConnectionReferences erases the first connection of the sender's  *)
(* signal, whichever that is.                                              *)
Removable(c) == From(c.src)

(* One connection of an emission: setPara, callSlot.  Without its receiver *)
(* nothing is called.                                                      *)
CallSlot(t) ==
  /\ emitting[t] # None
  /\ \E c \in emitting[t].left :
       LET e == emitting[t].emission
           walks == [emitting EXCEPT ![t].left = @ \ {c}]
           stray == emitting[t].stray
       IN
       /\ para' = [para EXCEPT ![c.id] = e.number]
       /\ \/ ~ Referenced(c.dst) /\ UNCHANGED << log, queue >>
          \/ /\ Referenced(c.dst) /\ Inline(c)
             /\ log' = Append(log, SlotCall(c, e, e.number, t, stray)) /\ UNCHANGED queue
          \/ /\ Referenced(c.dst) /\ ~ Inline(c)
             /\ \E u \in SlotRoutes(c, t) :
                  queue' = [queue EXCEPT ![u] =
                              Append(@, [run |-> "slot", conn |-> c, asked |-> e, stray |-> stray])]
             /\ UNCHANGED log
       /\ IF c.slot = "once" /\ Removable(c) # {}
          THEN \E d \in Removable(c) :
                 outputs' = outputs \ {d} /\ emitting' \in After(walks, {d})
          ELSE emitting' = walks /\ UNCHANGED outputs
  /\ UNCHANGED << objects, inputs, hand, others, op, held, calls >>

EmitEnds(t) ==
  /\ emitting[t] # None /\ emitting[t].left = {}
  /\ emitting' = [emitting EXCEPT ![t] = None]
  /\ UNCHANGED << objects, maps, para, pool, op, held, calls, log >>

(* A posted slot reads its connection's m_para when it runs; a method is   *)
(* not called without its object.                                          *)
RunSlot(t) ==
  LET x == hand[t].item IN
  /\ Runs(t, "slot")
  /\ IF x.conn.slot = "method" /\ ~ Referenced(x.conn.dst)
     THEN UNCHANGED log
     ELSE log' = Append(log, SlotCall(x.conn, x.asked, para[x.conn.id], t, x.stray \/ Stolen(t)))
  /\ UNCHANGED << objects, maps, para, emitting, op, held, calls >>

-----------------------------------------------------------------------------
(* Destruction                                                             *)

(* The program drops its pointers to an object.                            *)
Drop(o) ==
  /\ o \in owned
  /\ owned' = owned \ {o}
  /\ UNCHANGED << affinity, gone, maps, para, pool, emitting, op, held, calls, log >>

(* Mutant: only the object's own signal is cut. *)
Destroy_KeepInputs(o) ==
  /\ o \notin gone /\ ~ Referenced(o)
  /\ gone' = gone \union {o}
  /\ inputs' = {c \in inputs : c.dst # o /\ ~ (c.src = o /\ c \in outputs)}
  /\ Erase({c \in outputs : c.src = o})
  /\ UNCHANGED << affinity, owned, para, pool, op, held, calls, log >>

(* destroyConnections, on whichever thread lets the last pointer go: each  *)
(* connection in one of the object's maps is erased from the map of its    *)
(* other end, which may be in use on its own thread.                       *)
Destroy(o) ==
  /\ o \notin gone /\ ~ Referenced(o)
  /\ gone' = gone \union {o}
  /\ inputs' = {c \in inputs : c.dst # o /\ ~ (c.src = o /\ c \in outputs)}
  /\ Erase({c \in outputs : c.src = o \/ (c.dst = o /\ c \in inputs)})
  /\ UNCHANGED << affinity, owned, para, pool, op, held, calls, log >>

-----------------------------------------------------------------------------
(* The program calls operations on objects it has pointers to.             *)
Operation(k) ==
  \/ \E c \in held : DisconnectHolder(k, c)
  \/ \E p \in Pairs :
       /\ p[1] \in owned
       /\ \/ \E type \in Types : ConnectLambda(k, p[1], type)
          \/ Await(k, p[1])
          \/ Emit(k, p[1])
          \/ /\ p[2] \in owned
             /\ \/ \E type \in Types : Connect(k, p[1], p[2], type)
                \/ Disconnect(k, p[1], p[2])

Caller(k) == InlinePart(k) \/ PostPart(k)

Worker(t) ==
  \/ Take(t) \/ Look(t) \/ Rob(t)
  \/ RunOther(t) \/ RunPart(t) \/ RunEmit(t) \/ CallSlot(t) \/ EmitEnds(t) \/ RunSlot(t)

Next ==
  \/ \E k \in Callers : Operation(k) \/ Caller(k)
  \/ \E t \in Threads : PostOther(t) \/ Worker(t)
  \/ \E o \in Objects : Drop(o) \/ Destroy(o)

Spec == Init /\ [][Next]_vars

-----------------------------------------------------------------------------
(* A signal is connected to a slot at most once, whoever connects and      *)
(* disconnects at the same time (registerConnection returns false).        *)
NoDuplicates == \A c, d \in outputs : Same(c, d) => c = d

(* A receiver knows the connections that may call it, unless the connect   *)
(* that made one is still on its way: what destroyConnections relies on    *)
(* to cut them when the receiver goes.                                     *)
ReceiverKnows ==
  \A c \in outputs :
    \/ c.slot # "method" \/ c \in inputs
    \/ \E k \in Callers : op[k] # None /\ op[k].what = "connect" /\ op[k].conn = c

(* A sender never keeps a connection to an object that is gone, although   *)
(* only what the object itself knows of is cut, and the two maps are       *)
(* changed one after the other.                                            *)
GoneIsCut == \A c \in outputs : c.src \notin gone /\ c.dst \notin gone

(* The emissions of one caller reach a slot in their order, over the two   *)
(* hops to the sender's and the receiver's thread, whatever a thief takes  *)
(* out from between them: calls that a thief took, or whose emission it    *)
(* took, are on a way of their own.  A Queued connection within one thread *)
(* is excepted, its calls go to changing threads.                          *)
Ordered(c) == ~ OnePart(c) \/ c.type # "Queued"

InOrder ==
  \A i, j \in 1 .. Len(log) :
    /\ i < j /\ log[i].conn = log[j].conn /\ Ordered(log[i].conn)
    /\ ~ log[i].stray /\ ~ log[j].stray
    /\ log[i].asked.by = log[j].asked.by
    => log[i].asked.number < log[j].asked.number

(* A slot runs on its receiver's thread (README: "thread-aware             *)
(* connections"), with the same exceptions; and where nothing in the pool  *)
(* may be stolen, nothing goes astray.                                     *)
OnReceiversThread ==
  \A j \in 1 .. Len(log) :
    IF log[j].stray THEN others > 0
    ELSE Ordered(log[j].conn) => log[j].thread = affinity[log[j].conn.dst]

(* What is pinned stays (README: "a stolenEnabled flag for work stealing").*)
(* It does not: see Rob.                                                   *)
PinnedStays ==
  /\ \A t \in Threads : Holds(t, "emit") \/ Holds(t, "part") \/ Holds(t, "slot") => ~ Stolen(t)
  /\ \A j \in 1 .. Len(log) : ~ log[j].stray

(* A slot gets the argument of the emission that called it                 *)
(* (README: fired(int) connected to onFired(int)).                         *)
ArgumentsOwn == \A j \in 1 .. Len(log) : log[j].seen = log[j].asked.number
=============================================================================
