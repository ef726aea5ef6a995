------------------------------ MODULE Pipeline ------------------------------
(***************************************************************************)
(* TA_BasicPipeline and the four pipelines that run their activities one   *)
(* after the other: auto chain, manual chain, manual steps and manual key  *)
(* activity.  The generator coroutine that walks the list is the record    *)
(* gen; what differs between the kinds is how it resumes and where it      *)
(* yields.                                                                 *)
(*                                                                         *)
(* One thread calls the pipeline's operations; the run is on the thread    *)
(* of the pool the pipeline belongs to, which runs what execute posts one  *)
(* after the other (m_pRunningActivity is not stealable), or, with         *)
(* ExecuteType::Sync, inside execute, which the caller uses when the run   *)
(* before has returned.                                                    *)
(***************************************************************************)
EXTENDS Integers, Sequences

CONSTANTS
  Activities,    \* what the caller may add, each once
  Throwing,      \* the activities whose body throws
  Kinds,         \* the kinds of pipeline
  Indices,       \* arguments of remove, setStartIndex and setKeyActivity
  StepCounts,    \* arguments of setSteps
  Width,         \* bits of an unsigned int
  None           \* the empty result

ASSUME KindsAssumption == Kinds \subseteq {"auto", "manual", "steps", "key"}
ASSUME ThrowingAssumption == Throwing \subseteq Activities
ASSUME WidthAssumption == Width \in Nat \ {0, 1}
ASSUME ArgumentsAssumption ==
  /\ Indices \subseteq 0 .. 2 ^ Width - 1
  /\ StepCounts \union {1} \subseteq 0 .. 2 ^ Width - 1
ASSUME NoResultAssumption == None \notin Activities

VARIABLES
  kind,          \* the class of the pipeline
  state,         \* m_state
  list,          \* m_pActivityList
  results,       \* m_resultList; the result of an activity is its name
  startIndex,    \* m_startIndex
  steps,         \* m_steps (steps)
  keyIndex,      \* m_keyIndex (key)
  gen,           \* the generator: where it is, its i and step, and the
                 \* index it started from
  exec,          \* activity -> not yet added, "new", "done" or "thrown"
  posted,        \* runs in the queue of the pipeline's thread
  worker,        \* that thread: "idle", "running", "ending" (the state is
                 \* set, the promise is not), "blocked" or "terminated"
  inside,        \* the caller is inside execute(Sync)
  ran            \* bodies run since the run began

settings == << startIndex, steps, keyIndex >>
running == << posted, worker, inside, ran >>
vars == << kind, state, list, results, settings, gen, exec, running >>

Fresh == [at |-> "fresh", i |-> 0, step |-> 0, start |-> 0]

Init ==
  /\ kind \in Kinds
  /\ state = "Waiting"
  /\ list = << >> /\ results = << >>
  /\ startIndex = 0 /\ steps = 1 /\ keyIndex = -1
  /\ gen = Fresh
  /\ exec = [x \in Activities |-> "unused"]
  /\ posted = 0 /\ worker = "idle" /\ inside = FALSE /\ ran = 0

-----------------------------------------------------------------------------
(* The caller's operations                                                 *)

Empty(n) == [k \in 1 .. n |-> None]

(* std::vector::resize                                                     *)
Resized(s, n) == [k \in 1 .. n |-> IF k <= Len(s) THEN s[k] ELSE None]

(* add, in Waiting only                                                    *)
Add(x) ==
  /\ state = "Waiting"
  /\ exec[x] = "unused"
  /\ list' = Append(list, x)
  /\ results' = Resized(results, Len(list) + 1)
  /\ exec' = [exec EXCEPT ![x] = "new"]
  /\ UNCHANGED << kind, state, settings, gen, running >>

(* CommonTools::remove                                                     *)
Without(s, i) == [k \in 1 .. Len(s) - 1 |-> IF k <= i THEN s[k] ELSE s[k + 1]]

(* The manual pipelines refuse remove.                                     *)
Removable == kind = "auto"

(* remove leaves the results as long as they were.                         *)
Remove(i) ==
  /\ Removable
  /\ state = "Waiting"
  /\ i < Len(list)
  /\ list' = Without(list, i)
  /\ UNCHANGED << kind, state, results, settings, gen, exec, running >>

StepsRewound == steps' = IF kind = "steps" THEN 1 ELSE steps

KeyRewound == keyIndex' = IF kind = "key" THEN -1 ELSE keyIndex

(* Mutant: the generator is left where it is. *)
Rewound_KeepGenerator == startIndex' = 0 /\ StepsRewound /\ KeyRewound /\ UNCHANGED gen

(* What reset and clear undo beside the list and the results; the three    *)
(* manual classes also replace the generator.                              *)
Rewound == startIndex' = 0 /\ StepsRewound /\ KeyRewound /\ gen' = Fresh

Clear ==
  /\ state # "Busy"
  /\ list' = << >> /\ results' = << >>
  /\ state' = "Waiting"
  /\ Rewound
  /\ UNCHANGED << kind, exec, running >>

(* The base class resets from Ready only, the manual classes unless Busy.  *)
Resettable ==
  \/ state = "Ready"
  \/ kind # "auto" /\ state = "Waiting"

(* Mutant: the results of the last round stay. *)
Reset_KeepResults ==
  /\ Resettable
  /\ state' = "Waiting"
  /\ Rewound
  /\ UNCHANGED << kind, list, results, exec, running >>

(* The proxies stay as they are: what was executed stays executed.         *)
Reset ==
  /\ Resettable
  /\ results' = Empty(Len(list))
  /\ state' = "Waiting"
  /\ Rewound
  /\ UNCHANGED << kind, list, exec, running >>

SetStartIndex(i) ==
  /\ state = "Waiting"
  /\ startIndex' = i
  /\ UNCHANGED << kind, state, list, results, steps, keyIndex, gen, exec, running >>

SetSteps(n) ==
  /\ kind = "steps" /\ state # "Busy"
  /\ steps' = n
  /\ UNCHANGED << kind, state, list, results, startIndex, keyIndex, gen, exec, running >>

(* setKeyActivity, and skipKeyActivity for -1                              *)
SetKeyActivity(i) ==
  /\ kind = "key" /\ state # "Busy"
  /\ keyIndex' = i
  /\ UNCHANGED << kind, state, list, results, startIndex, steps, gen, exec, running >>

(* Mutant: the state is left to the run. *)
Execute_NotBusy(sync) ==
  /\ state = "Waiting"
  /\ sync => worker = "idle"
  /\ posted' = posted + 1
  /\ inside' = sync
  /\ UNCHANGED << kind, state, list, results, settings, gen, exec, worker, ran >>

(* execute posts a proxy of m_pRunningActivity, or runs it at once.        *)
Execute(sync) ==
  /\ state = "Waiting"
  /\ sync => worker = "idle"
  /\ state' = "Busy"
  /\ posted' = posted + 1
  /\ inside' = sync
  /\ UNCHANGED << kind, list, results, settings, gen, exec, worker, ran >>

(* What the caller may do while no execute(Sync) holds it; the operations  *)
(* that set the state apart from the others.                               *)
Adjust ==
  \/ \E x \in Activities : Add(x)
  \/ \E i \in Indices : Remove(i) \/ SetStartIndex(i)
  \/ \E i \in Indices \union {-1} : SetKeyActivity(i)
  \/ \E n \in StepCounts : SetSteps(n)

Turn == Clear \/ Reset \/ \E sync \in BOOLEAN : Execute(sync)

MayCall == worker # "terminated" /\ ~ inside

Caller == MayCall /\ (Adjust \/ Turn)

-----------------------------------------------------------------------------
(* The generator                                                           *)

(* steps() returns the unsigned m_steps as an int.                         *)
AsInt(u) == IF u >= 2 ^ (Width - 1) THEN u - 2 ^ Width ELSE u

Size == Len(list)

(* The head of the for loop.                                               *)
Loop(i, step, start) ==
  [at |-> IF i < Size THEN "loop" ELSE "done", i |-> i, step |-> step, start |-> start]

(* The generator leaves its loop, or yields, where it is.                  *)
Stops(at, step) == [at |-> at, i |-> gen.i, step |-> step, start |-> gen.start]

(* The first resume.  step <= size() compares as unsigned.                 *)
Started ==
  IF kind = "steps" /\ AsInt(steps) \notin 0 .. Size
  THEN [at |-> "done", i |-> 0, step |-> AsInt(steps), start |-> startIndex]
  ELSE Loop(startIndex, AsInt(steps), startIndex)

(* Mutant: the index is advanced behind the yield and by the loop. *)
BehindYield_Skips ==
  IF kind # "steps"
  THEN Loop(IF kind = "key" /\ gen.i = keyIndex THEN gen.i ELSE gen.i + 2, 0, gen.start)
  ELSE IF (gen.i + AsInt(steps)) % 2 ^ Width >= Size
       THEN Stops("done", AsInt(steps))
       ELSE Loop(gen.i + 2, AsInt(steps), gen.start)

(* Behind the co_yield: steps loads the count again and breaks when the    *)
(* list is too short for it, key stays where it is while that is the key   *)
(* activity.                                                               *)
BehindYield ==
  IF kind # "steps"
  THEN Loop(IF kind = "key" /\ gen.i = keyIndex THEN gen.i ELSE gen.i + 1, 0, gen.start)
  ELSE IF (gen.i + AsInt(steps)) % 2 ^ Width >= Size
       THEN Stops("done", AsInt(steps))
       ELSE Loop(gen.i + 1, AsInt(steps), gen.start)

(* A generator that has ended stays so.                                    *)
Resumed ==
  IF gen.at = "fresh" THEN Started ELSE IF gen.at = "yield" THEN BehindYield ELSE gen

(* Mutant: steps yields after every activity. *)
AfterBody_Always ==
  Stops("yield", IF kind = "steps" THEN 0 ELSE gen.step)

(* Behind a body: yield, except that steps yields when step reaches 0.     *)
AfterBody ==
  IF kind = "steps" /\ gen.step # 1
  THEN Loop(gen.i + 1, gen.step - 1, gen.start)
  ELSE Stops("yield", 0)

-----------------------------------------------------------------------------
(* The run                                                                 *)

(* run(): auto makes a new generator, the manual kinds resume theirs.      *)
RunBegin ==
  /\ worker = "idle" /\ posted > 0
  /\ posted' = posted - 1
  /\ worker' = "running"
  /\ ran' = 0
  /\ gen' = IF kind = "auto" THEN Loop(startIndex, 0, startIndex) ELSE Resumed
  /\ UNCHANGED << kind, state, list, results, settings, exec, inside >>

(* CommonTools::at                                                         *)
Current == list[gen.i + 1]

(* CommonTools::replace                                                    *)
Replaced(s, i, x) == IF i < Len(s) THEN [s EXCEPT ![i + 1] = x] ELSE s

(* A body that has not run yet returns: replace stores the result.         *)
BodyReturns ==
  /\ exec[Current] = "new" /\ Current \notin Throwing
  /\ exec' = [exec EXCEPT ![Current] = "done"]
  /\ results' = Replaced(results, gen.i, Current)
  /\ gen' = AfterBody
  /\ ran' = ran + 1
  /\ UNCHANGED worker

(* It throws, or the proxy does since its body has returned before: the    *)
(* generator ends with the exception.                                      *)
BodyThrows ==
  /\ \/ exec[Current] = "new" /\ Current \in Throwing
     \/ exec[Current] = "done" /\ kind # "key"
  /\ exec' = [exec EXCEPT ![Current] = IF @ = "new" THEN "thrown" ELSE @]
  /\ gen' = [gen EXCEPT !.at = "failed"]
  /\ UNCHANGED << results, worker, ran >>

(* The body has thrown in an earlier round: the proxy does nothing, and    *)
(* result() waits for a promise nobody will set.                           *)
ResultBlocks ==
  /\ exec[Current] = "thrown" /\ kind # "key"
  /\ worker' = "blocked"
  /\ UNCHANGED << results, exec, gen, ran >>

(* key does not run what has been executed, it yields the stored result.   *)
YieldStored ==
  /\ exec[Current] \in {"done", "thrown"} /\ kind = "key"
  /\ gen' = [gen EXCEPT !.at = "yield"]
  /\ UNCHANGED << results, exec, worker, ran >>

Iterate ==
  /\ worker = "running" /\ gen.at = "loop"
  /\ BodyReturns \/ BodyThrows \/ ResultBlocks \/ YieldStored
  /\ UNCHANGED << kind, state, list, settings, posted, inside >>

(* auto: while (generator.next());                                         *)
AutoNext ==
  /\ kind = "auto" /\ worker = "running" /\ gen.at = "yield"
  /\ gen' = Resumed
  /\ UNCHANGED << kind, state, list, results, settings, exec, running >>

(* Mutant: the state stays as it was. *)
AutoEnd_StaysBusy ==
  /\ kind = "auto" /\ worker = "running" /\ gen.at = "done"
  /\ worker' = "ending"
  /\ UNCHANGED << kind, state, list, results, settings, gen, exec, posted, inside, ran >>

(* The generator sets Ready at its end.                                    *)
AutoEnd ==
  /\ kind = "auto" /\ worker = "running" /\ gen.at = "done"
  /\ state' = "Ready"
  /\ worker' = "ending"
  /\ UNCHANGED << kind, list, results, settings, gen, exec, posted, inside, ran >>

(* next() rethrows only what was thrown before the first co_yield, out of  *)
(* the worker's thread; what is thrown later is dropped, and nothing sets  *)
(* the state any more.                                                     *)
AutoFail ==
  /\ kind = "auto" /\ worker = "running" /\ gen.at = "failed"
  /\ worker' = IF ran = 0 THEN "terminated" ELSE "ending"
  /\ UNCHANGED << kind, state, list, results, settings, gen, exec, posted, inside, ran >>

(* The manual kinds: next() tells a yield from an end, not an end from an  *)
(* exception.                                                              *)
ManualEnd ==
  /\ kind # "auto" /\ worker = "running" /\ gen.at \in {"yield", "done", "failed"}
  /\ state' = IF gen.at = "yield" THEN "Waiting" ELSE "Ready"
  /\ worker' = "ending"
  /\ UNCHANGED << kind, list, results, settings, gen, exec, posted, inside, ran >>

(* The proxy sets its promise: the waiter returns, and execute(Sync).      *)
RunReturns ==
  /\ worker = "ending"
  /\ worker' = "idle"
  /\ inside' = FALSE
  /\ UNCHANGED << kind, state, list, results, settings, gen, exec, posted, ran >>

Run == RunBegin \/ Iterate \/ AutoNext \/ AutoEnd \/ AutoFail \/ ManualEnd \/ RunReturns

-----------------------------------------------------------------------------
Next == Caller \/ Run

Spec == Init /\ [][Next]_vars

(* The pool runs what is posted to it (ThreadPool!StoredIsRun).            *)
FairSpec == Spec /\ WF_vars(Run)

-----------------------------------------------------------------------------
Generators ==
  [at : {"fresh", "loop", "yield", "done", "failed"}, i : Nat, step : Int, start : Nat]

TypeOK ==
  /\ kind \in Kinds
  /\ state \in {"Waiting", "Busy", "Ready"}
  /\ list \in Seq(Activities)
  /\ results \in Seq(Activities \union {None})
  /\ startIndex \in Indices \union {0}
  /\ steps \in StepCounts \union {1}
  /\ keyIndex \in Indices \union {-1}
  /\ gen \in Generators
  /\ exec \in [Activities -> {"unused", "new", "done", "thrown"}]
  /\ posted \in 0 .. 1
  /\ worker \in {"idle", "running", "ending", "blocked", "terminated"}
  /\ inside \in BOOLEAN
  /\ ran \in Nat

(* result(i) is the result of the i-th activity or empty, whatever was     *)
(* removed, added, reset and run before; and every activity has its place  *)
(* in the results, so that replace never drops one.                        *)
ResultsAreOwn ==
  /\ Len(list) <= Len(results)
  /\ \A k \in 1 .. Len(results) :
       results[k] # None => k <= Len(list) /\ results[k] = list[k]

(* A chain runs in order: when an activity of this round has a result,     *)
(* every one between the start and it has been executed (README: "run      *)
(* activities in order", "advance one activity per execute() call").       *)
InOrder ==
  gen.at # "fresh" =>
    \A j, k \in 1 .. Len(list) :
      gen.start < j /\ j < k /\ results[k] # None => exec[list[j]] \in {"done", "thrown"}

(* What one execute() runs when it does not end the round: one activity of *)
(* a manual chain, the set number of a steps chain (all that are left if   *)
(* the number is 0 or not an int), at most one of a key chain.             *)
CallAdvances ==
  worker = "running" /\ gen.at = "yield" =>
    /\ kind = "manual" => ran = 1
    /\ kind = "steps" => ran = steps
    /\ kind = "key" => ran <= 1

(* Ready after a round in which nothing threw, and nothing had been run    *)
(* and reset before, means complete: every activity from the start has its *)
(* result.  A steps chain may leave a tail behind that is shorter than the *)
(* last step, or run nothing at all if the first was longer than the list. *)
RoundIsNew == \A k \in 1 .. Len(list) : exec[list[k]] \in {"done", "thrown"} => results[k] # None

LeftByStep(k) ==
  /\ kind = "steps"
  /\ \/ k > gen.i + 1 /\ (Len(list) - (gen.i + 1) < gen.step \/ gen.step < 0)
     \/ results = Empty(Len(results)) /\ gen.step \notin 0 .. Len(list)

ReadyIsComplete ==
  state = "Ready" /\ gen.at = "done" /\ RoundIsNew =>
    \A k \in gen.start + 1 .. Len(list) : results[k] = None => LeftByStep(k)

(* A Busy pipeline becomes Waiting or Ready again, unless an activity has  *)
(* thrown or one was to run again after a reset.                           *)
BusyEnds == state = "Busy" ~> (state # "Busy" \/ ~ RoundIsNew)
=============================================================================
