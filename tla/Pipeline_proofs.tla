--------------------------- MODULE Pipeline_proofs ---------------------------
(***************************************************************************)
(* Theorems about module Pipeline: for any activities, any of which throw, *)
(* any arguments, any width of an unsigned int, and lists of any length.   *)
(* And about module PipelineHolder: a pipeline in a holder behaves as one  *)
(* on its own, what the holder has heard last is its state, and it hears   *)
(* of no Ready twice.                                                      *)
(***************************************************************************)
EXTENDS PipelineHolder, FiniteSetTheorems, TLAPS

(* The state of the pipeline keeps the caller away from a run: while one   *)
(* is posted or goes on, or has failed for good, the pipeline is Busy.     *)
Phase ==
  /\ posted = 1 => state = "Busy" /\ worker \in {"idle", "ending"}
  /\ worker \in {"running", "blocked", "terminated"} => state = "Busy" /\ posted = 0

(* The generator is inside the list, in its loop in a run only, and has    *)
(* not ended while the pipeline waits.                                     *)
InLoop ==
  /\ gen.at = "loop" => worker \in {"running", "blocked"}
  /\ gen.at \in {"loop", "yield"} => gen.i < Len(list)
  /\ state = "Waiting" => gen.at \in {"fresh", "yield"}

(* A generator that has not begun has left no result; an auto chain waits  *)
(* with such a generator, and so begins its runs.                          *)
FreshIsEmpty ==
  /\ gen.at = "fresh" => \A k \in 1 .. Len(results) : results[k] = None
  /\ kind = "auto" /\ (state = "Waiting" \/ posted = 1) => gen.at = "fresh"

Executed(x) == exec[x] \in {"done", "thrown"}

(* The generator has executed what lies behind it, from its start on, and  *)
(* there is no result before it.                                           *)
Passed == IF gen.at = "yield" THEN gen.i + 1 ELSE gen.i

Behind ==
  gen.at # "fresh" =>
    /\ \A k \in 1 .. Len(results) : results[k] # None => k <= gen.i + 1
    /\ \A j \in 1 .. Len(list) : gen.start < j /\ j <= Passed => Executed(list[j])

ChainInv == TypeOK /\ Phase /\ ResultsAreOwn /\ InLoop /\ FreshIsEmpty /\ Behind

-----------------------------------------------------------------------------
LEMMA ArgumentsAreNumbers ==
  /\ Indices \subseteq Nat /\ StepCounts \subseteq Nat
  /\ 2 ^ Width \in Int /\ 2 ^ (Width - 1) \in Int /\ 2 ^ Width > 0
BY ArgumentsAssumption, WidthAssumption

(* A function on the first n numbers is a sequence of that length.         *)
LEMMA MadeOf ==
  ASSUME NEW S, NEW n \in Nat, NEW f \in [1 .. n -> S]
  PROVE  f \in Seq(S) /\ Len(f) = n
OBVIOUS

LEMMA AsIntIsInt == ASSUME TypeOK PROVE AsInt(steps) \in Int
<1>1. steps \in Nat
  BY ArgumentsAreNumbers DEF TypeOK
<1>. QED BY <1>1, ArgumentsAreNumbers DEF AsInt

LEMMA LoopIsGen ==
  ASSUME Len(list) \in Nat, NEW i \in Nat, NEW step, NEW start
  PROVE  \E at \in {"loop", "done"} :
           /\ Loop(i, step, start) = [at |-> at, i |-> i, step |-> step, start |-> start]
           /\ at = "loop" => i < Len(list)
BY DEF Loop, Size

(* How the generator resumes: inside the list if it goes on, from where it *)
(* was or the next index, with the start it had.                           *)
LEMMA ResumedIsGen ==
  ASSUME TypeOK, gen.at # "loop"
  PROVE  \E at \in {"loop", "done", "failed"}, i \in Nat, step \in Int, start \in Nat :
           /\ Resumed = [at |-> at, i |-> i, step |-> step, start |-> start]
           /\ at = "loop" => i < Len(list)
           /\ gen.at = "fresh" => i \in {0, start}
           /\ gen.at # "fresh" => start = gen.start
           /\ gen.at = "yield" => i \in {gen.i, gen.i + 1}
           /\ gen.at \in {"done", "failed"} => at = gen.at /\ i = gen.i
<1>1. startIndex \in Nat /\ gen.i \in Nat /\ gen.start \in Nat /\ gen.step \in Int /\ Len(list) \in Nat
  BY ArgumentsAreNumbers DEF TypeOK, Generators
<1>2. AsInt(steps) \in Int
  BY AsIntIsInt
<1>3. gen.at \in {"fresh", "yield", "done", "failed"}
  BY DEF TypeOK, Generators
<1>4. gen = [at |-> gen.at, i |-> gen.i, step |-> gen.step, start |-> gen.start]
  BY DEF TypeOK, Generators
<1>5. CASE gen.at = "fresh"
  <2>1. Resumed = Started
    BY <1>5 DEF Resumed
  <2>2. CASE kind = "steps" /\ AsInt(steps) \notin 0 .. Size
    BY <1>1, <1>2, <1>5, <2>1, <2>2 DEF Started
  <2>3. CASE ~ (kind = "steps" /\ AsInt(steps) \notin 0 .. Size)
    BY <1>1, <1>2, <1>5, <2>1, <2>3 DEF Started, Loop, Size
  <2>. QED BY <2>2, <2>3
<1>6. CASE gen.at = "yield"
  <2>1. \/ Resumed = Loop(gen.i, 0, gen.start)
        \/ \E step \in Int : Resumed = Loop(gen.i + 1, step, gen.start)
        \/ Resumed = Stops("done", AsInt(steps))
    BY <1>2, <1>6 DEF Resumed, BehindYield
  <2>. USE <1>1, <1>2
  <2>2. CASE Resumed = Stops("done", AsInt(steps))
    <3>1. Resumed = [at |-> "done", i |-> gen.i, step |-> AsInt(steps), start |-> gen.start]
      BY <2>2 DEF Stops
    <3>. WITNESS "done" \in {"loop", "done", "failed"}, gen.i \in Nat, AsInt(steps) \in Int,
                 gen.start \in Nat
    <3>. QED BY <1>6, <3>1
  <2>3. ASSUME NEW i \in {gen.i, gen.i + 1}, NEW step \in Int, Resumed = Loop(i, step, gen.start)
        PROVE  \E at \in {"loop", "done"} :
                 /\ Resumed = [at |-> at, i |-> i, step |-> step, start |-> gen.start]
                 /\ at = "loop" => i < Len(list)
    <3>1. i \in Nat
      OBVIOUS
    <3>. QED BY <2>3, <3>1, LoopIsGen
  <2>4. ASSUME NEW i \in {gen.i, gen.i + 1}, NEW step \in Int, Resumed = Loop(i, step, gen.start)
        PROVE  \E at \in {"loop", "done", "failed"}, j \in Nat, st \in Int, start \in Nat :
                 /\ Resumed = [at |-> at, i |-> j, step |-> st, start |-> start]
                 /\ at = "loop" => j < Len(list)
                 /\ start = gen.start /\ j \in {gen.i, gen.i + 1}
    <3>1. PICK at \in {"loop", "done"} :
            /\ Resumed = [at |-> at, i |-> i, step |-> step, start |-> gen.start]
            /\ at = "loop" => i < Len(list)
      BY <2>3, <2>4
    <3>. WITNESS at \in {"loop", "done", "failed"}, i \in Nat, step \in Int, gen.start \in Nat
    <3>. QED BY <3>1
  <2>. QED BY <1>6, <2>1, <2>2, <2>4
<1>7. CASE gen.at \in {"done", "failed"}
  <2>1. Resumed = gen
    BY <1>7 DEF Resumed
  <2>. QED BY <1>1, <1>4, <1>7, <2>1
<1>. QED BY <1>3, <1>5, <1>6, <1>7

-----------------------------------------------------------------------------
(* The caller's operations                                                 *)

LEMMA InitChain == Init => ChainInv
<1>. SUFFICES ASSUME Init PROVE ChainInv
  OBVIOUS
<1>1. TypeOK
  <2>1. gen \in Generators
    BY DEF Init, Generators, Fresh
  <2>2. exec \in [Activities -> {"unused", "new", "done", "thrown"}]
    BY DEF Init
  <2>3. list \in Seq(Activities) /\ results \in Seq(Activities \union {None})
    BY DEF Init
  <2>4. posted \in 0 .. 1 /\ ran \in Nat
    BY DEF Init
  <2>5. inside \in BOOLEAN
    BY DEF Init
  <2>. QED BY <2>1, <2>2, <2>3, <2>4, <2>5 DEF Init, TypeOK
<1>2. Phase /\ ResultsAreOwn /\ InLoop /\ FreshIsEmpty /\ Behind
  BY DEF Init, Fresh, Phase, ResultsAreOwn, InLoop, FreshIsEmpty, Behind
<1>. QED BY <1>1, <1>2 DEF ChainInv

LEMMA AddKeeps == ASSUME ChainInv, NEW x \in Activities, Add(x) PROVE ChainInv'
<1>. DEFINE n == Len(list)
<1>1. n \in Nat /\ n <= Len(results) /\ Len(results) \in Nat
  BY DEF ChainInv, TypeOK, ResultsAreOwn
<1>2. /\ list' \in Seq(Activities) /\ Len(list') = n + 1
      /\ list'[n + 1] = x /\ \A k \in 1 .. n : list'[k] = list[k]
  BY DEF ChainInv, TypeOK, Add
<1>3. /\ results' \in Seq(Activities \union {None}) /\ Len(results') = n + 1
      /\ \A k \in 1 .. n + 1 :
           results'[k] = IF k <= Len(results) THEN results[k] ELSE None
  <2>1. results' \in [1 .. n + 1 -> Activities \union {None}]
    BY <1>1 DEF ChainInv, TypeOK, Add, Resized
  <2>2. n + 1 \in Nat
    BY <1>1
  <2>. QED BY <1>1, <2>1, <2>2, MadeOf DEF Add, Resized
<1>4. results'[n + 1] = None
  BY <1>1, <1>3 DEF ChainInv, ResultsAreOwn, TypeOK
<1>5. TypeOK'
  BY <1>2, <1>3 DEF ChainInv, TypeOK, Add, settings, running
<1>6. Phase' /\ InLoop'
  <2>1. gen.at \in {"loop", "yield"} => gen.i < n /\ gen.i \in Nat
    BY DEF ChainInv, TypeOK, Generators, InLoop
  <2>. QED BY <1>1, <1>2, <2>1 DEF ChainInv, Phase, InLoop, Add, settings, running
<1>7. ResultsAreOwn'
  BY <1>1, <1>2, <1>3, <1>4 DEF ChainInv, ResultsAreOwn
<1>8. FreshIsEmpty'
  BY <1>1, <1>3 DEF ChainInv, FreshIsEmpty, Add, running
<1>9. Behind'
  <2>1. /\ gen' = gen /\ Passed' = Passed /\ Passed \in Nat /\ gen.start \in Nat
        /\ gen.at # "fresh" => Passed <= n
    BY <1>1 DEF ChainInv, TypeOK, Generators, InLoop, Add, Passed
  <2>2. \A y : Executed(y) => y # x /\ exec'[y] = exec[y]
    BY DEF ChainInv, TypeOK, Add, Executed
  <2>3. gen.at # "fresh" => \A k \in 1 .. Len(results') : results'[k] # None => k <= gen.i + 1
    BY <1>1, <1>3, <1>4 DEF ChainInv, Behind
  <2>4. ASSUME gen.at # "fresh", NEW j \in 1 .. Len(list'), gen.start < j, j <= Passed
        PROVE  exec'[list'[j]] \in {"done", "thrown"}
    <3>1. j \in 1 .. n /\ list'[j] = list[j]
      BY <1>1, <1>2, <2>1, <2>4 DEF ChainInv, TypeOK, Generators, Passed
    <3>2. Executed(list[j])
      BY <2>4, <3>1 DEF ChainInv, Behind
    <3>. QED BY <2>2, <3>1, <3>2 DEF Executed
  <2>. QED BY <2>1, <2>3, <2>4 DEF Behind, Executed
<1>. QED BY <1>5, <1>6, <1>7, <1>8, <1>9 DEF ChainInv

LEMMA RemoveKeeps == ASSUME ChainInv, NEW i \in Indices, Remove(i) PROVE ChainInv'
<1>. DEFINE n == Len(list)
<1>1. n \in Nat /\ i \in Nat /\ i < n /\ n <= Len(results) /\ Len(results) \in Nat
  BY ArgumentsAreNumbers DEF ChainInv, TypeOK, ResultsAreOwn, Remove
<1>2. list' \in Seq(Activities) /\ Len(list') = n - 1
  <2>1. Without(list, i) \in [1 .. n - 1 -> Activities]
    BY <1>1 DEF ChainInv, TypeOK, Without
  <2>2. n - 1 \in Nat
    BY <1>1
  <2>. QED BY <2>1, <2>2, MadeOf DEF Remove
<1>3. gen.at = "fresh" /\ gen' = gen /\ results' = results
      /\ \A k \in 1 .. Len(results) : results[k] = None
  BY DEF ChainInv, FreshIsEmpty, Remove, Removable
<1>4. TypeOK'
  BY <1>2 DEF ChainInv, TypeOK, Remove, settings, running
<1>5. ResultsAreOwn' /\ FreshIsEmpty' /\ Behind'
  BY <1>1, <1>2, <1>3 DEF ChainInv, ResultsAreOwn, FreshIsEmpty, Behind, Remove, running
<1>6. Phase' /\ InLoop'
  BY <1>3 DEF ChainInv, Phase, InLoop, Remove, running
<1>. QED BY <1>4, <1>5, <1>6 DEF ChainInv

(* What reset and clear leave behind.                                      *)
LEMMA RewoundIsFresh ==
  ASSUME ChainInv, Rewound, state # "Busy", state' = "Waiting",
         UNCHANGED << kind, exec, running >>, list' \in Seq(Activities),
         results' \in Seq(Activities \union {None}), Len(list') <= Len(results'),
         \A k \in 1 .. Len(results') : results'[k] = None
  PROVE  ChainInv'
<1>1. gen' = Fresh /\ gen'.at = "fresh" /\ gen' \in Generators
  BY DEF Rewound, Fresh, Generators
<1>2. /\ startIndex' \in Indices \union {0}
      /\ steps' \in StepCounts \union {1}
      /\ keyIndex' \in Indices \union {-1}
  BY DEF ChainInv, TypeOK, Rewound, StepsRewound, KeyRewound
<1>3. TypeOK'
  BY <1>1, <1>2 DEF ChainInv, TypeOK, running
<1>4. ResultsAreOwn' /\ FreshIsEmpty' /\ Behind' /\ InLoop'
  BY <1>1 DEF ResultsAreOwn, FreshIsEmpty, Behind, InLoop
<1>5. Phase'
  BY DEF ChainInv, Phase, running
<1>. QED BY <1>3, <1>4, <1>5 DEF ChainInv

LEMMA ClearKeeps == ASSUME ChainInv, Clear PROVE ChainInv'
BY RewoundIsFresh DEF Clear

LEMMA ResetKeeps == ASSUME ChainInv, Reset PROVE ChainInv'
<1>1. Len(list) \in Nat /\ list' = list /\ list' \in Seq(Activities)
  BY DEF ChainInv, TypeOK, Reset
<1>2. Empty(Len(list)) \in [1 .. Len(list) -> Activities \union {None}]
  BY DEF Empty
<1>3. results' \in Seq(Activities \union {None}) /\ Len(results') = Len(list)
  BY <1>1, <1>2, MadeOf DEF Reset
<1>4. \A k \in 1 .. Len(results') : results'[k] = None
  BY <1>3 DEF Reset, Empty
<1>5. state # "Busy"
  BY DEF Reset, Resettable
<1>. QED BY <1>1, <1>3, <1>4, <1>5, RewoundIsFresh DEF Reset

(* The other operations touch neither list nor results nor generator.      *)
LEMMA SettingsKeep ==
  ASSUME ChainInv,
         \/ \E i \in Indices : SetStartIndex(i)
         \/ \E i \in Indices \union {-1} : SetKeyActivity(i)
         \/ \E n \in StepCounts : SetSteps(n)
  PROVE  ChainInv'
<1>1. UNCHANGED << kind, state, list, results, gen, exec, posted, worker, inside, ran >>
  BY DEF SetStartIndex, SetKeyActivity, SetSteps, running
<1>2. /\ startIndex' \in Indices \union {0}
      /\ steps' \in StepCounts \union {1}
      /\ keyIndex' \in Indices \union {-1}
  BY DEF ChainInv, TypeOK, SetStartIndex, SetKeyActivity, SetSteps
<1>3. TypeOK'
  BY <1>1, <1>2 DEF ChainInv, TypeOK
<1>. QED BY <1>1, <1>3
         DEF ChainInv, Phase, ResultsAreOwn, InLoop, FreshIsEmpty, Behind, Passed, Executed

LEMMA ExecuteKeeps == ASSUME ChainInv, NEW sync \in BOOLEAN, Execute(sync) PROVE ChainInv'
<1>1. posted = 0 /\ posted' = 1 /\ state = "Waiting" /\ state' = "Busy"
  BY DEF ChainInv, TypeOK, Phase, Execute
<1>2. TypeOK'
  BY <1>1 DEF ChainInv, TypeOK, Execute, settings
<1>3. Phase'
  BY <1>1 DEF ChainInv, TypeOK, Phase, Execute
<1>4. ResultsAreOwn' /\ Behind'
  BY DEF ChainInv, ResultsAreOwn, Behind, Passed, Executed, Execute
<1>5. InLoop' /\ FreshIsEmpty'
  BY <1>1 DEF ChainInv, InLoop, FreshIsEmpty, Execute
<1>. QED BY <1>2, <1>3, <1>4, <1>5 DEF ChainInv

LEMMA CallerKeeps == ASSUME ChainInv, Caller PROVE ChainInv'
BY AddKeeps, RemoveKeeps, ClearKeeps, ResetKeeps, SettingsKeep, ExecuteKeeps
   DEF Caller, Adjust, Turn

-----------------------------------------------------------------------------
(* The run                                                                 *)

LEMMA RunBeginKeeps == ASSUME ChainInv, RunBegin PROVE ChainInv'
<1>. USE DEF ChainInv
<1>1. posted = 1 /\ posted' = 0 /\ state = "Busy" /\ gen.at # "loop"
  BY DEF TypeOK, Phase, InLoop, RunBegin
<1>2. startIndex \in Nat /\ Len(list) \in Nat
  BY ArgumentsAreNumbers DEF TypeOK
<1>3. kind = "auto" => gen.at = "fresh"
  BY <1>1 DEF FreshIsEmpty
<1>4. PICK at \in {"loop", "done", "failed"}, i \in Nat, step \in Int, start \in Nat :
        /\ gen' = [at |-> at, i |-> i, step |-> step, start |-> start]
        /\ at = "loop" => i < Len(list)
        /\ gen.at = "fresh" => i \in {0, start}
        /\ gen.at # "fresh" => start = gen.start
        /\ gen.at = "yield" => i \in {gen.i, gen.i + 1}
        /\ gen.at \in {"done", "failed"} => at = gen.at /\ i = gen.i
  <2>1. CASE kind = "auto"
    <3>1. PICK at \in {"loop", "done"} :
            /\ gen' = [at |-> at, i |-> startIndex, step |-> 0, start |-> startIndex]
            /\ at = "loop" => startIndex < Len(list)
      BY <1>2, <2>1, LoopIsGen DEF RunBegin
    <3>2. at \in {"loop", "done", "failed"} /\ 0 \in Int
      OBVIOUS
    <3>. USE <1>2, <3>2
    <3>. WITNESS at \in {"loop", "done", "failed"}, startIndex \in Nat, 0 \in Int, startIndex \in Nat
    <3>. QED BY <1>3, <2>1, <3>1
  <2>2. CASE kind # "auto"
    BY <1>1, <2>2, ResumedIsGen DEF RunBegin
  <2>. QED BY <2>1, <2>2
<1>5. gen' \in Generators /\ gen'.at = at /\ gen'.i = i /\ gen'.start = start
  BY <1>4 DEF Generators
<1>6. TypeOK'
  BY <1>1, <1>5 DEF TypeOK, RunBegin, settings
<1>7. Phase' /\ ResultsAreOwn' /\ FreshIsEmpty'
  BY <1>1, <1>5 DEF Phase, ResultsAreOwn, FreshIsEmpty, RunBegin, TypeOK
<1>8. InLoop'
  BY <1>1, <1>4, <1>5 DEF InLoop, RunBegin
<1>9. Behind'
  <2>1. gen.at = "fresh" \/ (gen.i \in Nat /\ i >= gen.i /\ start = gen.start /\ i <= Passed)
    BY <1>1, <1>4 DEF TypeOK, Generators, Passed
  <2>2. \A k \in 1 .. Len(results) : results[k] # None => k <= i + 1
    BY <1>4, <2>1 DEF FreshIsEmpty, Behind, TypeOK
  <2>3. ASSUME NEW j \in 1 .. Len(list), start < j, j <= i PROVE Executed(list[j])
    BY <1>4, <2>1, <2>3 DEF Behind, Passed, TypeOK, Generators
  <2>4. Passed' = i
    BY <1>5 DEF Passed
  <2>. QED BY <1>5, <2>2, <2>3, <2>4 DEF Behind, Executed, RunBegin
<1>. QED BY <1>6, <1>7, <1>8, <1>9

(* What a step of the run at the current activity leaves: the generator    *)
(* goes on, yields or ends there, with the activity executed.              *)
LEMMA IterateKeeps == ASSUME ChainInv, Iterate PROVE ChainInv'
<1>. USE DEF ChainInv
<1>. DEFINE i == gen.i  x == list[gen.i + 1]
<1>1. /\ state = "Busy" /\ posted = 0 /\ worker = "running" /\ gen.at = "loop"
      /\ i \in Nat /\ i < Len(list) /\ Len(list) <= Len(results) /\ Len(list) \in Nat
      /\ Len(results) \in Nat /\ i + 1 \in 1 .. Len(list) /\ i + 1 \in 1 .. Len(results)
      /\ x \in Activities /\ Current = x
  BY DEF Iterate, TypeOK, Generators, Phase, InLoop, ResultsAreOwn, Current
<1>2. /\ UNCHANGED << kind, state, list, settings, posted, inside >>
      /\ BodyReturns \/ BodyThrows \/ ResultBlocks \/ YieldStored
  BY DEF Iterate
<1>3. /\ exec' \in [Activities -> {"unused", "new", "done", "thrown"}]
      /\ \A y \in Activities : Executed(y) => exec'[y] \in {"done", "thrown"}
      /\ gen' # gen => exec'[x] \in {"done", "thrown"}
  BY <1>1, <1>2 DEF TypeOK, BodyReturns, BodyThrows, ResultBlocks, YieldStored, Executed
<1>4. /\ results' \in Seq(Activities \union {None}) /\ Len(results') = Len(results)
      /\ \A k \in 1 .. Len(results) : results'[k] = results[k] \/ (k = i + 1 /\ results'[k] = x)
  BY <1>1, <1>2 DEF TypeOK, BodyReturns, BodyThrows, ResultBlocks, YieldStored, Replaced
<1>5. worker' \in {"running", "blocked"} /\ ran' \in Nat
  BY <1>1, <1>2 DEF TypeOK, BodyReturns, BodyThrows, ResultBlocks, YieldStored
<1>6. PICK at \in {"loop", "yield", "done", "failed"}, n \in Nat, step \in Int :
        /\ gen' = [at |-> at, i |-> n, step |-> step, start |-> gen.start]
        /\ at = "loop" => n < Len(list)
        /\ at = "yield" => n = i
        /\ n \in {i, i + 1}
        /\ (n = i /\ at # "yield") \/ gen' # gen
  <2>1. gen = [at |-> "loop", i |-> i, step |-> gen.step, start |-> gen.start]
        /\ gen.step \in Int /\ gen.start \in Nat
    BY <1>1 DEF TypeOK, Generators
  <2>2. CASE BodyReturns
    <3>. USE <1>1, <2>1
    <3>1. CASE gen' = Loop(i + 1, gen.step - 1, gen.start)
      <4>1. i + 1 \in Nat /\ gen.step - 1 \in Int
        OBVIOUS
      <4>2. PICK at \in {"loop", "done"} :
              /\ gen' = [at |-> at, i |-> i + 1, step |-> gen.step - 1, start |-> gen.start]
              /\ at = "loop" => i + 1 < Len(list)
        BY <3>1, <4>1, LoopIsGen
      <4>3. at \in {"loop", "yield", "done", "failed"} /\ at # "yield" /\ gen' # gen
        BY <4>2
      <4>. USE <4>1, <4>3
      <4>. WITNESS at \in {"loop", "yield", "done", "failed"}, i + 1 \in Nat, gen.step - 1 \in Int
      <4>. QED BY <4>2
    <3>2. CASE gen' = Stops("yield", 0)
      <4>1. gen' = [at |-> "yield", i |-> i, step |-> 0, start |-> gen.start]
        BY <3>2 DEF Stops
      <4>2. gen' # gen
        BY <4>1
      <4>. WITNESS "yield" \in {"loop", "yield", "done", "failed"}, i \in Nat, 0 \in Int
      <4>. QED BY <4>1, <4>2
    <3>. QED BY <2>2, <3>1, <3>2 DEF BodyReturns, AfterBody
  <2>3. CASE BodyThrows
    <3>1. gen' = [at |-> "failed", i |-> i, step |-> gen.step, start |-> gen.start]
      BY <2>1, <2>3 DEF BodyThrows
    <3>. USE <1>1, <2>1
    <3>. WITNESS "failed" \in {"loop", "yield", "done", "failed"}, i \in Nat, gen.step \in Int
    <3>. QED BY <3>1
  <2>4. CASE ResultBlocks
    <3>1. gen' = gen
      BY <2>4 DEF ResultBlocks
    <3>. USE <1>1, <2>1
    <3>. WITNESS "loop" \in {"loop", "yield", "done", "failed"}, i \in Nat, gen.step \in Int
    <3>. QED BY <3>1
  <2>5. CASE YieldStored
    <3>1. gen' = [at |-> "yield", i |-> i, step |-> gen.step, start |-> gen.start]
      BY <2>1, <2>5 DEF YieldStored
    <3>2. gen' # gen
      BY <2>1, <3>1
    <3>. USE <1>1, <2>1
    <3>. WITNESS "yield" \in {"loop", "yield", "done", "failed"}, i \in Nat, gen.step \in Int
    <3>. QED BY <3>1, <3>2
  <2>. QED BY <1>2, <2>2, <2>3, <2>4, <2>5
<1>7. /\ gen' \in Generators /\ gen'.at = at /\ gen'.i = n /\ gen'.start = gen.start
  BY <1>6 DEF Generators, TypeOK
<1>8. TypeOK'
  BY <1>2, <1>3, <1>4, <1>5, <1>7 DEF TypeOK, settings
<1>9. Phase' /\ InLoop'
  BY <1>1, <1>2, <1>5, <1>6, <1>7 DEF Phase, InLoop
<1>10. ResultsAreOwn'
  BY <1>1, <1>2, <1>4 DEF ResultsAreOwn, TypeOK
<1>11. FreshIsEmpty'
  BY <1>1, <1>2, <1>7 DEF FreshIsEmpty
<1>12. Behind'
  <2>1. \A k \in 1 .. Len(results) : results'[k] # None => k <= n + 1
    BY <1>1, <1>4, <1>6 DEF Behind
  <2>2. ASSUME NEW j \in 1 .. Len(list), gen.start < j, j <= Passed'
        PROVE  exec'[list[j]] \in {"done", "thrown"}
    <3>1. list[j] \in Activities
      BY DEF TypeOK
    <3>2. CASE j <= i
      <4>1. Executed(list[j])
        BY <1>1, <2>2, <3>2 DEF Behind, Passed
      <4>. QED BY <1>3, <3>1, <4>1
    <3>3. CASE j = i + 1
      <4>1. gen' # gen
        BY <1>1, <1>6, <1>7, <2>2, <3>3 DEF Passed
      <4>. QED BY <1>3, <3>3, <4>1
    <3>. QED BY <1>1, <1>6, <1>7, <2>2, <3>2, <3>3 DEF Passed
  <2>. QED BY <1>2, <1>4, <1>7, <2>1, <2>2 DEF Behind, Executed
<1>. QED BY <1>8, <1>9, <1>10, <1>11, <1>12

LEMMA AutoNextKeeps == ASSUME ChainInv, AutoNext PROVE ChainInv'
<1>. USE DEF ChainInv
<1>1. /\ state = "Busy" /\ posted = 0 /\ worker = "running" /\ gen.at = "yield"
      /\ gen' = Resumed
      /\ UNCHANGED << kind, state, list, results, startIndex, steps, keyIndex, exec,
                      posted, worker, inside, ran >>
  BY DEF AutoNext, Phase, settings, running
<1>2. PICK at \in {"loop", "done", "failed"}, i \in Nat, step \in Int, start \in Nat :
        /\ gen' = [at |-> at, i |-> i, step |-> step, start |-> start]
        /\ at = "loop" => i < Len(list)
        /\ start = gen.start /\ i \in {gen.i, gen.i + 1}
  BY <1>1, ResumedIsGen
<1>3. gen' \in Generators /\ gen'.at = at /\ gen'.i = i /\ gen'.start = start
  BY <1>2 DEF Generators
<1>4. TypeOK' /\ Phase' /\ ResultsAreOwn'
  BY <1>1, <1>3 DEF TypeOK, Phase, ResultsAreOwn
<1>5. InLoop' /\ FreshIsEmpty'
  BY <1>1, <1>2, <1>3 DEF InLoop, FreshIsEmpty
<1>6. Behind'
  <2>1. gen.i \in Nat /\ i >= gen.i /\ i <= Passed /\ Passed' = i
    BY <1>1, <1>2, <1>3 DEF TypeOK, Generators, Passed
  <2>2. \A k \in 1 .. Len(results) : results[k] # None => k <= i + 1
    BY <1>1, <2>1 DEF Behind, TypeOK
  <2>3. ASSUME NEW j \in 1 .. Len(list), start < j, j <= i PROVE Executed(list[j])
    BY <1>1, <1>2, <2>1, <2>3 DEF Behind, TypeOK, Generators, Passed
  <2>. QED BY <1>1, <1>3, <2>1, <2>2, <2>3 DEF Behind, Executed
<1>. QED BY <1>4, <1>5, <1>6

(* The end of a run leaves everything but the state and the worker.        *)
LEMMA EndsKeep == ASSUME ChainInv, AutoEnd \/ AutoFail \/ ManualEnd \/ RunReturns PROVE ChainInv'
<1>. USE DEF ChainInv
<1>1. UNCHANGED << kind, list, results, startIndex, steps, keyIndex, gen, exec, posted, ran >>
  BY DEF AutoEnd, AutoFail, ManualEnd, RunReturns, settings
<1>2. TypeOK'
  BY <1>1 DEF TypeOK, AutoEnd, AutoFail, ManualEnd, RunReturns
<1>3. Phase' /\ InLoop'
  BY <1>1 DEF Phase, InLoop, TypeOK, AutoEnd, AutoFail, ManualEnd, RunReturns
<1>4. ResultsAreOwn' /\ Behind'
  BY <1>1 DEF ResultsAreOwn, Behind, Passed, Executed
<1>5. FreshIsEmpty'
  BY <1>1 DEF FreshIsEmpty, Phase, TypeOK, AutoEnd, AutoFail, ManualEnd, RunReturns
<1>. QED BY <1>2, <1>3, <1>4, <1>5

LEMMA StutterKeeps == ASSUME ChainInv, UNCHANGED vars PROVE ChainInv'
<1>. USE DEF ChainInv, vars, settings, running
<1>1. TypeOK'
  BY DEF TypeOK
<1>2. Phase' /\ InLoop' /\ FreshIsEmpty'
  BY DEF Phase, InLoop, FreshIsEmpty
<1>3. ResultsAreOwn' /\ Behind'
  BY DEF ResultsAreOwn, Behind, Passed, Executed
<1>. QED BY <1>1, <1>2, <1>3

LEMMA NextKeeps == ChainInv /\ [Next]_vars => ChainInv'
BY CallerKeeps, RunBeginKeeps, IterateKeeps, AutoNextKeeps, EndsKeep, StutterKeeps
   DEF Next, Run

(* The invariant holds in every state.                                     *)
THEOREM ChainTheorem == Spec => []ChainInv
BY InitChain, NextKeeps, PTL DEF Spec

(* Every variable keeps its type: the positions, steps and indices that    *)
(* the run computes with mixed signs, too.                                 *)
THEOREM TypeCorrect == Spec => []TypeOK
<1>1. ChainInv => TypeOK
  BY DEF ChainInv
<1>. QED BY <1>1, ChainTheorem, PTL

(* result(i) is the i-th activity's result or empty, whatever the caller   *)
(* added, removed, cleared, reset and executed before.                     *)
THEOREM ResultsTheorem == Spec => []ResultsAreOwn
<1>1. ChainInv => ResultsAreOwn
  BY DEF ChainInv
<1>. QED BY <1>1, ChainTheorem, PTL

(* A chain of any kind and length runs its activities in order.            *)
THEOREM OrderTheorem == Spec => []InOrder
<1>1. ChainInv => InOrder
  <2>. SUFFICES ASSUME ChainInv, gen.at # "fresh", NEW j \in 1 .. Len(list), NEW k \in 1 .. Len(list),
                       gen.start < j, j < k, results[k] # None
                PROVE  exec[list[j]] \in {"done", "thrown"}
    BY DEF InOrder
  <2>1. k <= gen.i + 1 /\ gen.i \in Nat /\ gen.start \in Nat
    BY DEF ChainInv, Behind, ResultsAreOwn, TypeOK, Generators
  <2>2. j <= Passed
    BY <2>1 DEF Passed
  <2>. QED BY <2>2 DEF ChainInv, Behind, Executed
<1>. QED BY <1>1, ChainTheorem, PTL

-----------------------------------------------------------------------------
(* What one execute runs, and what a round leaves                          *)

(* In a run of a manual kind the bodies run so far and the steps left make *)
(* up the step count.                                                      *)
Counted ==
  worker = "running" =>
    /\ gen.at = "loop" =>
         /\ kind \in {"manual", "key"} => ran = 0
         /\ kind = "steps" => ran + gen.step = AsInt(steps)
    /\ CallAdvances

(* A round ends at the end of the list; with a step count that is too long *)
(* for the rest, behind an activity; or with one that is too long for the  *)
(* list, before it has run anything.                                       *)
Ended ==
  gen.at = "done" =>
    \/ gen.i >= Len(list)
    \/ /\ kind = "steps"
       /\ gen.start < gen.i + 1 => Executed(list[gen.i + 1])
       /\ Len(list) - (gen.i + 1) < gen.step \/ gen.step < 0
    \/ /\ kind = "steps" /\ gen.step \notin 0 .. Len(list)
       /\ \A k \in 1 .. Len(results) : results[k] = None

RoundInv == ChainInv /\ Counted /\ Ended

(* The count read as an int and the count are the same if it is positive.  *)
LEMMA PositiveSteps == ASSUME TypeOK, AsInt(steps) > 0 PROVE AsInt(steps) = steps
<1>1. steps \in 0 .. 2 ^ Width - 1
  BY ArgumentsAssumption DEF TypeOK
<1>. QED BY <1>1, ArgumentsAreNumbers DEF AsInt

LEMMA CallerKeepsRound == ASSUME RoundInv, Caller PROVE Counted' /\ Ended'
<1>. USE DEF RoundInv, ChainInv
<1>1. worker' = worker /\ worker # "running"
  BY DEF Phase, Caller, Adjust, Turn, Add, Remove, SetStartIndex, SetKeyActivity, SetSteps,
         Clear, Reset, Resettable, Execute, running
<1>2. Counted'
  BY <1>1 DEF Counted
<1>3. CASE Clear \/ Reset
  BY <1>2, <1>3 DEF Clear, Reset, Rewound, Fresh, Ended
<1>4. CASE ~ (Clear \/ Reset) /\ state # "Waiting"
  <2>1. UNCHANGED << kind, list, results, gen, exec >>
    BY <1>4 DEF Caller, Adjust, Turn, Add, Remove, SetStartIndex, SetKeyActivity, SetSteps, Execute
  <2>. QED BY <1>2, <2>1 DEF Ended, Executed
<1>5. CASE ~ (Clear \/ Reset) /\ state = "Waiting"
  <2>1. gen' = gen /\ gen.at # "done"
    BY <1>5 DEF InLoop, Caller, Adjust, Turn, Add, Remove, SetStartIndex, SetKeyActivity,
                SetSteps, Execute
  <2>. QED BY <1>2, <2>1 DEF Ended
<1>. QED BY <1>2, <1>3, <1>4, <1>5

(* A remainder is not greater than the number.                             *)
LEMMA ModBelow == ASSUME NEW a \in Nat, NEW m \in Nat \ {0} PROVE a % m <= a
<1>1. a % m \in 0 .. m - 1
  OBVIOUS
<1>2. a < m => a % m = a
  OBVIOUS
<1>. QED BY <1>1, <1>2

(* How a resumption that goes on or ends the round has counted.            *)
LEMMA ResumedCounts ==
  ASSUME RoundInv, gen.at # "loop", gen' = Resumed, UNCHANGED << kind, list, results, steps, exec >>
  PROVE  /\ gen'.at = "loop" /\ kind = "steps" => gen'.step = AsInt(steps)
         /\ gen'.at # "yield"
         /\ Ended'
<1>. USE DEF RoundInv, ChainInv
<1>1. startIndex \in Nat /\ gen.i \in Nat /\ gen.start \in Nat /\ gen.step \in Int
      /\ Len(list) \in Nat /\ AsInt(steps) \in Int
      /\ gen.at \in {"fresh", "yield", "done", "failed"}
  BY ArgumentsAreNumbers, AsIntIsInt DEF TypeOK, Generators
<1>2. CASE gen.at \in {"done", "failed"}
  BY <1>2 DEF Resumed, Ended, Executed
<1>3. CASE gen.at = "fresh"
  <2>1. gen' = Started
    BY <1>3 DEF Resumed
  <2>2. CASE kind = "steps" /\ AsInt(steps) \notin 0 .. Size
    <3>1. gen' = [at |-> "done", i |-> 0, step |-> AsInt(steps), start |-> startIndex]
      BY <2>1, <2>2 DEF Started
    <3>2. \A k \in 1 .. Len(results) : results[k] = None
      BY <1>3 DEF FreshIsEmpty
    <3>. QED BY <1>1, <2>2, <3>1, <3>2 DEF Ended, Size
  <2>3. CASE ~ (kind = "steps" /\ AsInt(steps) \notin 0 .. Size)
    BY <1>1, <2>1, <2>3 DEF Started, Loop, Size, Ended
  <2>. QED BY <2>2, <2>3
<1>4. CASE gen.at = "yield" /\ kind # "steps"
  <2>1. gen' = Loop(gen.i, 0, gen.start) \/ gen' = Loop(gen.i + 1, 0, gen.start)
    BY <1>4 DEF Resumed, BehindYield
  <2>. QED BY <1>1, <1>4, <2>1 DEF Loop, Size, Ended
<1>5. CASE gen.at = "yield" /\ kind = "steps"
  <2>1. CASE (gen.i + AsInt(steps)) % 2 ^ Width >= Size
    <3>1. gen' = [at |-> "done", i |-> gen.i, step |-> AsInt(steps), start |-> gen.start]
      BY <1>5, <2>1 DEF Resumed, BehindYield, Stops
    <3>2. gen.start < gen.i + 1 => Executed(list[gen.i + 1])
      BY <1>1, <1>5 DEF Behind, Passed, InLoop
    <3>3. AsInt(steps) >= 0 => gen.i + AsInt(steps) >= Len(list)
      <4>1. PICK a \in Int : a = gen.i + AsInt(steps)
        BY <1>1
      <4>2. PICK m \in Nat \ {0} : m = 2 ^ Width
        BY ArgumentsAreNumbers
      <4>3. a % m >= Len(list)
        BY <2>1, <4>1, <4>2 DEF Size
      <4>4. AsInt(steps) >= 0 => a % m <= a
        BY <1>1, <4>1, ModBelow
      <4>5. a % m \in Int
        BY <4>1, <4>2
      <4>. QED BY <1>1, <4>1, <4>3, <4>4, <4>5
    <3>. QED BY <1>1, <1>5, <3>1, <3>2, <3>3 DEF Ended, Executed
  <2>2. CASE ~ (gen.i + AsInt(steps)) % 2 ^ Width >= Size
    <3>1. gen' = Loop(gen.i + 1, AsInt(steps), gen.start)
      BY <1>5, <2>2 DEF Resumed, BehindYield
    <3>. QED BY <1>1, <1>5, <3>1 DEF Loop, Size, Ended
  <2>. QED BY <2>1, <2>2
<1>. QED BY <1>1, <1>2, <1>3, <1>4, <1>5

LEMMA RunKeepsRound == ASSUME RoundInv, Run PROVE Counted' /\ Ended'
<1>. USE DEF RoundInv, ChainInv
<1>1. Len(list) \in Nat /\ gen.i \in Nat /\ gen.step \in Int /\ ran \in Nat /\ AsInt(steps) \in Int
      /\ kind \in {"auto", "manual", "steps", "key"} /\ startIndex \in Nat
  BY KindsAssumption, AsIntIsInt, ArgumentsAreNumbers DEF TypeOK, Generators
<1>2. CASE RunBegin
  <2>1. gen.at # "loop" /\ ran' = 0
        /\ UNCHANGED << kind, list, results, steps, exec >>
    BY <1>2 DEF RunBegin, InLoop, settings
  <2>2. CASE kind = "auto"
    <3>1. gen' = Loop(startIndex, 0, startIndex)
      BY <1>2, <2>2 DEF RunBegin
    <3>. QED BY <1>1, <2>1, <2>2, <3>1 DEF Loop, Size, Ended, Counted, CallAdvances
  <2>3. CASE kind # "auto"
    <3>1. gen' = Resumed
      BY <1>2, <2>3 DEF RunBegin
    <3>2. /\ gen'.at = "loop" /\ kind = "steps" => gen'.step = AsInt(steps)
          /\ gen'.at # "yield"
          /\ Ended'
      BY <2>1, <3>1, ResumedCounts
    <3>. QED BY <1>1, <2>1, <3>2 DEF Counted, CallAdvances, AsInt
  <2>. QED BY <2>2, <2>3
<1>3. CASE Iterate
  <2>1. worker = "running" /\ gen.at = "loop" /\ UNCHANGED << kind, list, settings >>
    BY <1>3 DEF Iterate
  <2>2. CASE BodyReturns /\ gen' = Loop(gen.i + 1, gen.step - 1, gen.start) /\ kind = "steps"
    BY <1>1, <2>1, <2>2 DEF BodyReturns, Loop, Size, Counted, CallAdvances, Ended, settings, AsInt
  <2>3. CASE BodyReturns /\ gen' = Stops("yield", 0) /\ (kind = "steps" => gen.step = 1)
    <3>1. gen' = [at |-> "yield", i |-> gen.i, step |-> 0, start |-> gen.start] /\ ran' = ran + 1
      BY <2>3 DEF Stops, BodyReturns
    <3>2. kind = "steps" => ran + 1 = steps
      BY <1>1, <2>1, <2>3, PositiveSteps DEF Counted
    <3>. QED BY <1>1, <2>1, <3>1, <3>2 DEF Counted, CallAdvances, Ended, settings
  <2>4. CASE BodyThrows
    BY <1>1, <2>1, <2>4 DEF BodyThrows, Counted, CallAdvances, Ended, TypeOK, Generators
  <2>5. CASE ResultBlocks
    BY <1>1, <2>1, <2>5 DEF ResultBlocks, Counted, CallAdvances, Ended
  <2>6. CASE YieldStored
    BY <1>1, <2>1, <2>6 DEF YieldStored, Counted, CallAdvances, Ended, TypeOK, Generators
  <2>. QED BY <1>3, <2>2, <2>3, <2>4, <2>5, <2>6 DEF Iterate, BodyReturns, AfterBody
<1>4. CASE AutoNext
  <2>1. gen.at # "loop" /\ gen' = Resumed /\ kind = "auto"
        /\ UNCHANGED << kind, list, results, steps, exec >>
    BY <1>4 DEF AutoNext, settings
  <2>. QED BY <1>1, <2>1, ResumedCounts DEF Counted, CallAdvances
<1>5. CASE AutoEnd \/ AutoFail \/ ManualEnd \/ RunReturns
  <2>1. worker' # "running" /\ UNCHANGED << kind, list, results, gen, exec >>
    BY <1>5 DEF AutoEnd, AutoFail, ManualEnd, RunReturns
  <2>. QED BY <2>1 DEF Counted, Ended, Executed
<1>. QED BY <1>2, <1>3, <1>4, <1>5 DEF Run

LEMMA NextKeepsRound == RoundInv /\ [Next]_vars => RoundInv'
<1>1. ASSUME RoundInv, UNCHANGED vars PROVE Counted' /\ Ended'
  BY <1>1 DEF RoundInv, Counted, CallAdvances, Ended, Executed, AsInt, vars, settings, running
<1>. QED BY <1>1, NextKeeps, CallerKeepsRound, RunKeepsRound DEF RoundInv, Next

(* The count of a round's activities holds in every state, too: it needs   *)
(* the positions ChainInv speaks of, and the calls' bounds on them.        *)
THEOREM RoundTheorem == Spec => []RoundInv
<1>1. Init => RoundInv
  BY InitChain DEF Init, Fresh, RoundInv, Counted, CallAdvances, Ended
<1>. QED BY <1>1, NextKeepsRound, PTL DEF Spec

(* One execute runs the activities it promises: one of a manual chain, the *)
(* step count of a steps chain, at most one of a key chain.                *)
THEOREM CallTheorem == Spec => []CallAdvances
<1>1. RoundInv => CallAdvances
  BY DEF RoundInv, ChainInv, Phase, InLoop, Counted, CallAdvances
<1>. QED BY <1>1, RoundTheorem, PTL

(* A pipeline that is Ready after a round in which nothing threw has all   *)
(* its results, but for the tail a step count leaves.                      *)
THEOREM ReadyTheorem == Spec => []ReadyIsComplete
<1>1. RoundInv => ReadyIsComplete
  <2>. SUFFICES ASSUME RoundInv, gen.at = "done", RoundIsNew,
                       NEW k \in gen.start + 1 .. Len(list), results[k] = None
                PROVE  LeftByStep(k)
    BY DEF ReadyIsComplete
  <2>. USE DEF RoundInv, ChainInv
  <2>1. gen.i \in Nat /\ gen.start \in Nat /\ gen.step \in Int /\ Len(list) \in Nat
        /\ Len(results) \in Nat /\ k \in 1 .. Len(list) /\ gen.start < k
    BY DEF TypeOK, Generators
  <2>2. ~ Executed(list[k])
    BY <2>1 DEF RoundIsNew, Executed
  <2>3. k > gen.i
    BY <2>1, <2>2 DEF Behind, Passed
  <2>4. CASE gen.i >= Len(list)
    BY <2>1, <2>3, <2>4
  <2>5. CASE /\ kind = "steps"
             /\ gen.start < gen.i + 1 => Executed(list[gen.i + 1])
             /\ Len(list) - (gen.i + 1) < gen.step \/ gen.step < 0
    BY <2>1, <2>2, <2>3, <2>5 DEF LeftByStep
  <2>6. CASE /\ kind = "steps" /\ gen.step \notin 0 .. Len(list)
             /\ \A j \in 1 .. Len(results) : results[j] = None
    <3>1. results = Empty(Len(results))
      BY <2>6 DEF TypeOK, Empty
    <3>. QED BY <2>6, <3>1 DEF LeftByStep
  <2>. QED BY <2>4, <2>5, <2>6 DEF Ended
<1>. QED BY <1>1, RoundTheorem, PTL

-----------------------------------------------------------------------------
(* The holder                                                              *)

States == {"Waiting", "Busy", "Ready"}

HolderTypeOK ==
  /\ near \in BOOLEAN /\ telling \in BOOLEAN
  /\ queue \in Seq(States \union {RunPosted})
  /\ para \in States /\ slots \in Nat

RunIsQueued == posted = 1 /\ ~ inside

(* A queued run is the last in the queue, one that has begun has left      *)
(* nothing behind it, and one on its caller's thread was never queued.     *)
QueueShape ==
  /\ \A k \in 1 .. Len(queue) : queue[k] = RunPosted => k = Len(queue) /\ RunIsQueued
  /\ RunIsQueued => Len(queue) > 0 /\ queue[Len(queue)] = RunPosted
  /\ worker \in {"running", "blocked", "terminated"} /\ ~ inside => queue = << >>
  /\ inside /\ worker # "idle" => posted = 0
  /\ telling => worker = "ending"

(* The emissions in the queue, and what the last of them, or without any   *)
(* the connection, says.                                                   *)
Emissions == IF RunIsQueued THEN Len(queue) - 1 ELSE Len(queue)

LastIsState ==
  /\ Emissions > 0 => queue[Emissions] = state \/ (telling /\ inside)
  /\ Emissions = 0 => para = state \/ telling

(* The holder has heard what the connection said last, or a slot will say. *)
Relayed == (near => slots = 0) /\ (slots = 0 => heard = para)

HolderInv == ChainInv /\ HolderTypeOK /\ QueueShape /\ LastIsState /\ Relayed

-----------------------------------------------------------------------------
(* The holder adds nothing to what a pipeline does.                        *)
LEMMA StepIsPipelineStep == [HolderNext]_allVars => [Next]_vars
BY DEF HolderNext, HolderAdjust, HolderTurn, HolderRun, HolderRunBegin, HolderRunStep,
       HolderRunEnd, Tell, HolderRunReturns, Emission, SlotRuns, allVars, Next, Caller, Run

(* A pipeline in a holder is a pipeline: what is proved of module Pipeline *)
(* holds there, whatever the caller does and wherever the signals go.      *)
THEOREM HolderTheorem == HolderSpec => Spec
BY StepIsPipelineStep, PTL DEF HolderSpec, HolderInit, Spec

-----------------------------------------------------------------------------
LEMMA InitHolder == HolderInit => HolderInv
<1>. SUFFICES ASSUME HolderInit PROVE HolderInv
  OBVIOUS
<1>1. ChainInv
  BY InitChain DEF HolderInit
<1>2. queue = << >> /\ posted = 0 /\ telling = FALSE /\ slots = 0 /\ para = "Waiting"
      /\ state = "Waiting" /\ heard = "Waiting" /\ worker = "idle"
  BY DEF HolderInit, Init
<1>3. HolderTypeOK
  <2>1. near \in BOOLEAN /\ telling \in BOOLEAN
    BY DEF HolderInit
  <2>. QED BY <1>2, <2>1 DEF HolderTypeOK, States
<1>. QED BY <1>1, <1>2, <1>3 DEF HolderInv, QueueShape, RunIsQueued, LastIsState, Emissions, Relayed

(* A sequence with one element more, or one less.                          *)
LEMMA Appended ==
  ASSUME NEW S, NEW q \in Seq(S), NEW x \in S
  PROVE  /\ Append(q, x) \in Seq(S) /\ Len(Append(q, x)) = Len(q) + 1
         /\ Append(q, x)[Len(q) + 1] = x
         /\ \A k \in 1 .. Len(q) : Append(q, x)[k] = q[k]
OBVIOUS

LEMMA Taken ==
  ASSUME NEW S, NEW q \in Seq(S), q # << >>
  PROVE  /\ Tail(q) \in Seq(S) /\ Len(Tail(q)) = Len(q) - 1 /\ Len(q) \in Nat \ {0}
         /\ Head(q) = q[1] /\ Head(q) \in S
         /\ \A k \in 1 .. Len(q) - 1 : Tail(q)[k] = q[k + 1]
OBVIOUS

LEMMA AdjustHears == ASSUME HolderInv, HolderAdjust PROVE HolderInv'
<1>1. UNCHANGED << state, posted, worker, inside >>
  BY DEF HolderAdjust, Adjust, Add, Remove, SetStartIndex, SetKeyActivity, SetSteps, running
<1>2. ChainInv'
  BY NextKeeps DEF HolderInv, HolderAdjust, Next, Caller
<1>. QED BY <1>1, <1>2 DEF HolderInv, HolderAdjust, holderVars, HolderTypeOK, QueueShape, RunIsQueued,
                           LastIsState, Emissions, Relayed

LEMMA TurnHears == ASSUME HolderInv, HolderTurn PROVE HolderInv'
<1>. USE DEF HolderInv
<1>1. ChainInv'
  BY NextKeeps DEF HolderTurn, Next, Caller
<1>2. /\ state # "Busy" /\ posted = 0 /\ ~ inside /\ worker \in {"idle", "ending"}
      /\ worker' = worker /\ state' \in States
      /\ \/ posted' = 0 /\ ~ inside'
         \/ posted' = 1 /\ ~ inside'
         \/ posted' = 1 /\ inside' /\ worker = "idle"
      /\ UNCHANGED << near, telling, para, slots, heard >>
  BY DEF HolderTurn, MayCall, Turn, Clear, Reset, Resettable, Execute, ChainInv, Phase, TypeOK,
         running, States
<1>3. \A k \in 1 .. Len(queue) : queue[k] # RunPosted
  BY <1>2 DEF QueueShape, RunIsQueued
<1>. DEFINE told == Append(queue, state')
<1>4. /\ told \in Seq(States \union {RunPosted}) /\ Len(told) = Len(queue) + 1
      /\ told[Len(queue) + 1] = state' /\ \A k \in 1 .. Len(queue) : told[k] = queue[k]
      /\ Len(queue) \in Nat
  BY <1>2, Appended DEF HolderTypeOK
<1>5. queue' = IF RunIsQueued' THEN Append(told, RunPosted) ELSE told
  BY <1>2 DEF HolderTurn, RunIn, RunIsQueued, HolderTypeOK
<1>. HIDE DEF told
<1>6. state' # RunPosted
  BY <1>2, RunPostedAssumption DEF States
<1>7. CASE RunIsQueued'
  <2>1. queue' = Append(told, RunPosted)
    BY <1>5, <1>7
  <2>2. /\ queue' \in Seq(States \union {RunPosted}) /\ Len(queue') = Len(told) + 1
        /\ queue'[Len(told) + 1] = RunPosted /\ \A k \in 1 .. Len(told) : queue'[k] = told[k]
    BY <1>4, <2>1, Appended
  <2>3. HolderTypeOK' /\ Relayed'
    BY <1>2, <2>2 DEF HolderTypeOK, Relayed
  <2>4. QueueShape'
    BY <1>2, <1>3, <1>4, <1>6, <1>7, <2>2 DEF QueueShape, RunIsQueued
  <2>5. LastIsState'
    BY <1>2, <1>4, <1>7, <2>2 DEF LastIsState, Emissions
  <2>. QED BY <1>1, <2>3, <2>4, <2>5
<1>8. CASE ~ RunIsQueued'
  <2>1. queue' = told
    BY <1>5, <1>8
  <2>2. HolderTypeOK' /\ Relayed'
    BY <1>2, <1>4, <2>1 DEF HolderTypeOK, Relayed
  <2>3. QueueShape'
    BY <1>2, <1>3, <1>4, <1>6, <1>8, <2>1 DEF QueueShape, RunIsQueued
  <2>4. LastIsState'
    BY <1>2, <1>4, <1>8, <2>1 DEF LastIsState, Emissions
  <2>. QED BY <1>1, <2>2, <2>3, <2>4
<1>. QED BY <1>7, <1>8

LEMMA RunBeginHears == ASSUME HolderInv, HolderRunBegin PROVE HolderInv'
<1>. USE DEF HolderInv
<1>1. ChainInv'
  BY NextKeeps DEF HolderRunBegin, Next, Run
<1>2. /\ posted = 1 /\ posted' = 0 /\ worker = "idle" /\ worker' = "running" /\ ~ telling
      /\ UNCHANGED << near, state, inside, telling, para, slots, heard >>
  BY DEF HolderRunBegin, RunBegin, ChainInv, TypeOK, QueueShape
<1>3. CASE inside
  <2>1. queue' = queue
    BY <1>3 DEF HolderRunBegin
  <2>. QED BY <1>1, <1>2, <1>3, <2>1
           DEF HolderTypeOK, QueueShape, RunIsQueued, LastIsState, Emissions, Relayed
<1>4. CASE ~ inside
  <2>1. queue # << >> /\ Head(queue) = RunPosted /\ queue' = Tail(queue)
    BY <1>4 DEF HolderRunBegin
  <2>2. Len(queue) = 1 /\ queue' = << >>
    <3>1. queue[1] = RunPosted /\ Len(queue) \in Nat \ {0}
          /\ queue' \in Seq(States \union {RunPosted}) /\ Len(queue') = Len(queue) - 1
      BY <2>1, Taken DEF HolderTypeOK
    <3>2. Len(queue) = 1
      BY <3>1 DEF QueueShape
    <3>. QED BY <3>1, <3>2
  <2>. QED BY <1>1, <1>2, <1>4, <2>2
           DEF HolderTypeOK, QueueShape, RunIsQueued, LastIsState, Emissions, Relayed
<1>. QED BY <1>3, <1>4

LEMMA RunStepHears == ASSUME HolderInv, HolderRunStep PROVE HolderInv'
<1>. USE DEF HolderInv
<1>1. ChainInv'
  BY NextKeeps DEF HolderRunStep, Next, Run
<1>2. /\ UNCHANGED << state, posted, inside >> /\ worker = "running"
      /\ worker' \in {"running", "blocked", "terminated", "ending"}
  BY DEF HolderRunStep, Iterate, BodyReturns, BodyThrows, ResultBlocks, YieldStored,
         AutoNext, AutoFail, running
<1>. QED BY <1>1, <1>2 DEF HolderRunStep, holderVars, HolderTypeOK, QueueShape, RunIsQueued,
                           LastIsState, Emissions, Relayed

LEMMA RunEndHears == ASSUME HolderInv, HolderRunEnd PROVE HolderInv'
<1>. USE DEF HolderInv
<1>1. ChainInv'
  BY NextKeeps DEF HolderRunEnd, Next, Run
<1>2. /\ worker = "running" /\ worker' = "ending" /\ telling' = TRUE
      /\ UNCHANGED << near, posted, inside, queue, para, slots, heard >>
  BY DEF HolderRunEnd, AutoEnd, ManualEnd
<1>3. posted = 0
  BY <1>2 DEF ChainInv, Phase
<1>4. HolderTypeOK' /\ Relayed' /\ QueueShape'
  BY <1>2, <1>3 DEF HolderTypeOK, QueueShape, RunIsQueued, Relayed
<1>5. LastIsState'
  BY <1>2, <1>3 DEF LastIsState, Emissions, RunIsQueued, QueueShape
<1>. QED BY <1>1, <1>4, <1>5

(* What a delivery on the pipeline's thread leaves.                        *)
LEMMA DeliveredIsRelayed ==
  ASSUME HolderInv, NEW st \in States, Deliver(st), near' = near
  PROVE  para' = st /\ slots' \in Nat /\ Relayed'
BY DEF HolderInv, HolderTypeOK, Relayed, Deliver, Hear

LEMMA TellHears == ASSUME HolderInv, Tell PROVE HolderInv'
<1>. USE DEF HolderInv
<1>1. ChainInv'
  BY NextKeeps DEF Tell
<1>2. /\ telling /\ telling' = FALSE /\ worker = "ending"
      /\ UNCHANGED << near, state, posted, worker, inside >>
  BY DEF Tell, QueueShape, vars, running
<1>3. state \in States /\ Len(queue) \in Nat
  BY DEF ChainInv, TypeOK, States, HolderTypeOK
<1>4. CASE inside
  <2>1. queue' = Append(queue, state) /\ UNCHANGED << para, slots, heard >>
    BY <1>4 DEF Tell
  <2>2. /\ queue' \in Seq(States \union {RunPosted}) /\ Len(queue') = Len(queue) + 1
        /\ queue'[Len(queue) + 1] = state /\ \A k \in 1 .. Len(queue) : queue'[k] = queue[k]
    BY <1>3, <2>1, Appended DEF HolderTypeOK
  <2>3. HolderTypeOK' /\ Relayed'
    BY <1>2, <2>1, <2>2 DEF HolderTypeOK, Relayed
  <2>4. QueueShape'
    BY <1>2, <1>3, <1>4, <2>2, RunPostedAssumption DEF QueueShape, RunIsQueued, States
  <2>5. LastIsState'
    BY <1>2, <1>3, <1>4, <2>2 DEF LastIsState, Emissions, RunIsQueued
  <2>. QED BY <1>1, <2>3, <2>4, <2>5
<1>5. CASE ~ inside
  <2>1. queue' = queue /\ Deliver(state)
    BY <1>5 DEF Tell
  <2>2. para' = state /\ slots' \in Nat /\ Relayed'
    BY <1>2, <1>3, <2>1, DeliveredIsRelayed
  <2>3. HolderTypeOK'
    BY <1>2, <1>3, <2>1, <2>2 DEF HolderTypeOK
  <2>4. QueueShape' /\ LastIsState'
    BY <1>2, <1>5, <2>1, <2>2 DEF QueueShape, RunIsQueued, LastIsState, Emissions
  <2>. QED BY <1>1, <2>2, <2>3, <2>4
<1>. QED BY <1>4, <1>5

LEMMA ReturnHears == ASSUME HolderInv, HolderRunReturns PROVE HolderInv'
<1>. USE DEF HolderInv
<1>1. ChainInv'
  BY NextKeeps DEF HolderRunReturns, Next, Run
<1>2. /\ ~ telling /\ worker = "ending" /\ worker' = "idle" /\ inside' = FALSE
      /\ UNCHANGED << near, state, posted, queue, telling, para, slots, heard >>
  BY DEF HolderRunReturns, RunReturns, holderVars
<1>3. RunIsQueued' <=> RunIsQueued
  BY <1>2 DEF RunIsQueued, QueueShape
<1>. QED BY <1>1, <1>2, <1>3 DEF HolderTypeOK, QueueShape, LastIsState, Emissions, Relayed

LEMMA EmissionHears == ASSUME HolderInv, Emission PROVE HolderInv'
<1>. USE DEF HolderInv
<1>1. ChainInv'
  BY NextKeeps DEF Emission
<1>2. /\ worker = "idle" \/ inside
      /\ UNCHANGED << near, state, posted, worker, inside, telling >>
      /\ queue # << >> /\ Head(queue) # RunPosted /\ queue' = Tail(queue) /\ Deliver(Head(queue))
  BY DEF Emission, vars, running
<1>3. /\ queue' \in Seq(States \union {RunPosted}) /\ Len(queue') = Len(queue) - 1
      /\ Len(queue) \in Nat \ {0} /\ Head(queue) = queue[1] /\ Head(queue) \in States
      /\ \A k \in 1 .. Len(queue) - 1 : queue'[k] = queue[k + 1]
  BY <1>2, Taken DEF HolderTypeOK
<1>4. para' = Head(queue) /\ slots' \in Nat /\ Relayed'
  BY <1>2, <1>3, DeliveredIsRelayed
<1>5. HolderTypeOK'
  BY <1>2, <1>3, <1>4 DEF HolderTypeOK
<1>6. QueueShape'
  <2>1. ASSUME NEW k \in 1 .. Len(queue'), queue'[k] = RunPosted
        PROVE  k = Len(queue') /\ RunIsQueued
    <3>1. k + 1 \in 1 .. Len(queue) /\ queue[k + 1] = RunPosted
      BY <1>3, <2>1
    <3>. QED BY <1>3, <3>1 DEF QueueShape
  <2>2. RunIsQueued => Len(queue') > 0 /\ queue'[Len(queue')] = RunPosted
    <3>. SUFFICES ASSUME RunIsQueued PROVE Len(queue') > 0 /\ queue'[Len(queue')] = RunPosted
      OBVIOUS
    <3>1. queue[Len(queue)] = RunPosted /\ Len(queue) # 1
      BY <1>2, <1>3 DEF QueueShape
    <3>2. Len(queue) - 1 \in 1 .. Len(queue) - 1 /\ Len(queue') = Len(queue) - 1
      BY <1>3, <3>1
    <3>3. queue'[Len(queue) - 1] = queue[Len(queue) - 1 + 1]
      BY <1>3, <3>2
    <3>. QED BY <1>3, <3>1, <3>2, <3>3
  <2>. QED BY <1>2, <1>3, <2>1, <2>2 DEF QueueShape, RunIsQueued
<1>7. LastIsState'
  BY <1>2, <1>3, <1>4 DEF LastIsState, Emissions, RunIsQueued
<1>. QED BY <1>1, <1>4, <1>5, <1>6, <1>7

LEMMA SlotHears == ASSUME HolderInv, SlotRuns PROVE HolderInv'
<1>. USE DEF HolderInv
<1>1. ChainInv'
  BY NextKeeps DEF SlotRuns
<1>2. /\ UNCHANGED << near, queue, telling, para, state, posted, worker, inside >>
      /\ slots > 0 /\ slots' = slots - 1 /\ heard' = para
  BY DEF SlotRuns, Hear, vars, running
<1>. QED BY <1>1, <1>2 DEF HolderTypeOK, QueueShape, RunIsQueued, LastIsState, Emissions, Relayed

LEMMA HolderNextKeeps == HolderInv /\ [HolderNext]_allVars => HolderInv'
<1>1. ASSUME HolderInv, UNCHANGED allVars PROVE HolderInv'
  BY <1>1, NextKeeps DEF HolderInv, allVars, vars, running, holderVars, HolderTypeOK, QueueShape,
                         RunIsQueued, LastIsState, Emissions, Relayed
<1>. QED BY <1>1, AdjustHears, TurnHears, RunBeginHears, RunStepHears, RunEndHears, TellHears,
            ReturnHears, EmissionHears, SlotHears DEF HolderNext, HolderRun

(* When nothing is on its way any more the holder has passed on the state  *)
(* the pipeline is in, over one thread or two: of announcements made by    *)
(* caller and run, posted or not, the last to arrive is the last made.     *)
THEOREM HeardTheorem == HolderSpec => []LastHeard
<1>1. HolderInv => LastHeard
  BY DEF HolderInv, LastHeard, Quiet, QueueShape, RunIsQueued, LastIsState, Emissions, Relayed
<1>. QED BY <1>1, InitHolder, HolderNextKeeps, PTL DEF HolderSpec

-----------------------------------------------------------------------------
(* Announcements of Ready                                                  *)

Readies(q) == {k \in 1 .. Len(q) : q[k] = "Ready"}

Count(q) == Cardinality(Readies(q))

Pending == IF telling /\ state = "Ready" THEN 1 ELSE 0

(* Every Ready on its way, the one the run has yet to tell included, is    *)
(* owed, unless the holder is on another thread, where nothing is counted. *)
Owing ==
  /\ owed \in Int
  /\ near => owed >= Count(queue) + Pending
  /\ ~ near => owed = 0

(* The bound on what the count of the owed can hold is not met by a Ready  *)
(* that is yet to come.                                                    *)
RoomLeft == state = "Busy" => Count(queue) < MaxQueue

OwedInv == HolderInv /\ Owing /\ RoomLeft

LEMMA CountIsBounded ==
  ASSUME NEW S, NEW q \in Seq(S)
  PROVE  IsFiniteSet(Readies(q)) /\ Count(q) \in 0 .. Len(q)
<1>. DEFINE n == Len(q)
<1>0. n \in Nat
  OBVIOUS
<1>. HIDE DEF n
<1>1. IsFiniteSet(1 .. n) /\ Cardinality(1 .. n) = n
  BY <1>0, FS_Interval
<1>2. Readies(q) \in SUBSET (1 .. n)
  BY DEF Readies, n
<1>3. IsFiniteSet(Readies(q)) /\ Cardinality(Readies(q)) <= n
  BY <1>1, <1>2, FS_Subset
<1>4. Cardinality(Readies(q)) \in Nat
  BY <1>3, FS_CardinalityType
<1>. QED BY <1>0, <1>3, <1>4 DEF Count, n

LEMMA CountOfAppend ==
  ASSUME NEW S, NEW q \in Seq(S), NEW x \in S
  PROVE  Count(Append(q, x)) = IF x = "Ready" THEN Count(q) + 1 ELSE Count(q)
<1>1. /\ Len(Append(q, x)) = Len(q) + 1 /\ Append(q, x)[Len(q) + 1] = x /\ Len(q) \in Nat
      /\ \A k \in 1 .. Len(q) : Append(q, x)[k] = q[k]
  BY Appended
<1>2. IsFiniteSet(Readies(q)) /\ Len(q) + 1 \notin Readies(q)
  BY <1>1, CountIsBounded DEF Readies
<1>3. CASE x = "Ready"
  <2>1. Readies(Append(q, x)) = Readies(q) \union {Len(q) + 1}
    BY <1>1, <1>3 DEF Readies
  <2>2. Cardinality(Readies(q) \union {Len(q) + 1}) = Cardinality(Readies(q)) + 1
    BY <1>2, FS_AddElement
  <2>. QED BY <1>3, <2>1, <2>2 DEF Count
<1>4. CASE x # "Ready"
  <2>1. Readies(Append(q, x)) = Readies(q)
    BY <1>1, <1>4 DEF Readies
  <2>. QED BY <1>4, <2>1 DEF Count
<1>. QED BY <1>3, <1>4

LEMMA CountOfTail ==
  ASSUME NEW S, NEW q \in Seq(S), q # << >>
  PROVE  Count(q) = IF Head(q) = "Ready" THEN Count(Tail(q)) + 1 ELSE Count(Tail(q))
<1>1. /\ Tail(q) \in Seq(S) /\ Len(Tail(q)) = Len(q) - 1 /\ Len(q) \in Nat \ {0} /\ Head(q) = q[1]
      /\ \A k \in 1 .. Len(q) - 1 : Tail(q)[k] = q[k + 1]
  BY Taken
<1>. DEFINE rest == Readies(q) \ {1}
            shift == [k \in Readies(Tail(q)) |-> k + 1]
<1>2. IsFiniteSet(Readies(q)) /\ IsFiniteSet(Readies(Tail(q)))
  BY <1>1, CountIsBounded
<1>3. shift \in Bijection(Readies(Tail(q)), rest)
  <2>1. \A k \in Readies(Tail(q)) : k \in Int /\ k + 1 \in rest
    BY <1>1 DEF Readies
  <2>2. \A j \in rest : j \in Int /\ j - 1 \in Readies(Tail(q))
    BY <1>1 DEF Readies
  <2>. QED BY <2>1, <2>2 DEF Bijection, Injection, Surjection, IsInjective
<1>4. Cardinality(rest) = Count(Tail(q))
  BY <1>2, <1>3, FS_Bijection DEF ExistsBijection, Count
<1>5. Cardinality(rest) = IF 1 \in Readies(q) THEN Count(q) - 1 ELSE Count(q)
  BY <1>2, FS_RemoveElement DEF Count
<1>6. 1 \in Readies(q) <=> Head(q) = "Ready"
  BY <1>1 DEF Readies
<1>7. Count(q) \in Int
  BY CountIsBounded
<1>. QED BY <1>4, <1>5, <1>6, <1>7

LEMMA InitOwes == HolderInit => OwedInv
<1>. SUFFICES ASSUME HolderInit PROVE OwedInv
  OBVIOUS
<1>1. HolderInv /\ queue = << >> /\ owed = 0 /\ telling = FALSE /\ state = "Waiting"
  BY InitHolder DEF HolderInit, Init
<1>2. Count(queue) = 0
  BY <1>1, FS_EmptySet DEF Count, Readies
<1>. QED BY <1>1, <1>2 DEF OwedInv, Owing, RoomLeft, Pending

LEMMA TurnOwes == ASSUME OwedInv, HolderTurn PROVE Owing' /\ RoomLeft'
<1>. DEFINE S == States \union {RunPosted}
<1>1. /\ state' \in {"Waiting", "Busy"} /\ UNCHANGED << near, owed, telling >>
      /\ Len(queue) + slots < MaxQueue /\ queue \in Seq(S) /\ slots \in Nat
  BY DEF HolderTurn, Turn, Clear, Reset, Execute, OwedInv, HolderInv, HolderTypeOK
<1>2. state' # "Ready" /\ RunPosted # "Ready" /\ state' \in S /\ RunPosted \in S
  BY <1>1, RunPostedAssumption DEF States
<1>3. Append(queue, state') \in Seq(S) /\ Count(Append(queue, state')) = Count(queue)
  BY <1>1, <1>2, CountOfAppend
<1>4. queue' = Append(queue, state') \/ queue' = Append(Append(queue, state'), RunPosted)
  BY <1>1 DEF HolderTurn, RunIn
<1>5. Count(Append(Append(queue, state'), RunPosted)) = Count(Append(queue, state'))
  <2>. HIDE DEF S
  <2>. QED BY <1>2, <1>3, CountOfAppend
<1>6. Count(queue') = Count(queue)
  BY <1>3, <1>4, <1>5
<1>7. Count(queue) \in 0 .. Len(queue) /\ Len(queue) \in Nat
  BY <1>1, CountIsBounded
<1>. QED BY <1>1, <1>2, <1>6, <1>7, MaxQueueAssumption DEF OwedInv, Owing, RoomLeft, Pending

LEMMA RunOwes ==
  ASSUME OwedInv, HolderRunBegin \/ HolderRunStep \/ HolderRunReturns \/ HolderAdjust
  PROVE  Owing' /\ RoomLeft'
<1>1. UNCHANGED << near, owed, telling, state >>
  BY DEF HolderRunBegin, RunBegin, HolderRunStep, Iterate, AutoNext, AutoFail, HolderRunReturns, RunReturns,
         HolderAdjust, Adjust, Add, Remove, SetStartIndex, SetKeyActivity, SetSteps, holderVars
<1>2. Count(queue') = Count(queue)
  <2>1. CASE queue' = queue
    BY <2>1
  <2>2. CASE queue # << >> /\ Head(queue) = RunPosted /\ queue' = Tail(queue)
    <3>1. queue \in Seq(States \union {RunPosted}) /\ Head(queue) # "Ready"
      BY <2>2, RunPostedAssumption DEF OwedInv, HolderInv, HolderTypeOK
    <3>. QED BY <2>2, <3>1, CountOfTail
  <2>. QED BY <2>1, <2>2 DEF HolderRunBegin, HolderRunStep, HolderRunReturns, HolderAdjust, holderVars
<1>. QED BY <1>1, <1>2 DEF OwedInv, Owing, RoomLeft, Pending

LEMMA RunEndOwes == ASSUME OwedInv, HolderRunEnd PROVE Owing' /\ RoomLeft'
<1>1. /\ worker = "running" /\ telling' = TRUE /\ UNCHANGED << near, queue >> /\ state' \in {"Waiting", "Ready"}
      /\ owed' = IF near /\ state' = "Ready" /\ owed < MaxQueue THEN owed + 1 ELSE owed
  BY DEF HolderRunEnd, AutoEnd, ManualEnd
<1>2. state = "Busy" /\ telling = FALSE
  BY <1>1 DEF OwedInv, HolderInv, ChainInv, Phase, QueueShape, HolderTypeOK
<1>3. Count(queue) \in Nat /\ Count(queue) < MaxQueue
  BY <1>2, CountIsBounded DEF OwedInv, RoomLeft, HolderInv, HolderTypeOK
<1>. QED BY <1>1, <1>2, <1>3, MaxQueueAssumption DEF OwedInv, Owing, RoomLeft, Pending

(* What the delivery of a state takes from the owed.                       *)
LEMMA DeliveredIsPaid ==
  ASSUME Owing, NEW st, Deliver(st), near' = near
  PROVE  owed' \in Int /\ owed' = IF near /\ st = "Ready" THEN owed - 1 ELSE owed
BY DEF Owing, Deliver, Hear

LEMMA TellOwes == ASSUME OwedInv, Tell PROVE Owing' /\ RoomLeft'
<1>1. telling /\ telling' = FALSE /\ UNCHANGED << near, state >> /\ state \in States
  BY DEF Tell, vars, OwedInv, HolderInv, ChainInv, TypeOK, States
<1>2. Count(queue) \in Nat /\ queue \in Seq(States \union {RunPosted})
  BY CountIsBounded DEF OwedInv, HolderInv, HolderTypeOK
<1>3. CASE inside
  <2>1. queue' = Append(queue, state) /\ owed' = owed
    BY <1>3 DEF Tell
  <2>2. Count(queue') = IF state = "Ready" THEN Count(queue) + 1 ELSE Count(queue)
    BY <1>1, <1>2, <2>1, CountOfAppend
  <2>. QED BY <1>1, <1>2, <2>1, <2>2 DEF OwedInv, Owing, RoomLeft, Pending
<1>4. CASE ~ inside
  <2>1. queue' = queue /\ Deliver(state)
    BY <1>4 DEF Tell
  <2>2. owed' \in Int /\ owed' = IF near /\ state = "Ready" THEN owed - 1 ELSE owed
    BY <1>1, <2>1, DeliveredIsPaid DEF OwedInv
  <2>. QED BY <1>1, <1>2, <2>1, <2>2 DEF OwedInv, Owing, RoomLeft, Pending
<1>. QED BY <1>3, <1>4

LEMMA EmissionOwes == ASSUME OwedInv, Emission PROVE Owing' /\ RoomLeft'
<1>1. /\ UNCHANGED << near, state, telling >>
      /\ queue # << >> /\ queue' = Tail(queue) /\ Deliver(Head(queue))
  BY DEF Emission, vars
<1>2. owed' \in Int /\ owed' = IF near /\ Head(queue) = "Ready" THEN owed - 1 ELSE owed
  BY <1>1, DeliveredIsPaid DEF OwedInv
<1>3. /\ Count(queue) = IF Head(queue) = "Ready" THEN Count(queue') + 1 ELSE Count(queue')
      /\ Count(queue) \in Nat
  BY <1>1, CountOfTail, CountIsBounded DEF OwedInv, HolderInv, HolderTypeOK
<1>4. Count(queue') \in Nat
  <2>1. queue' \in Seq(States \union {RunPosted})
    BY <1>1, Taken DEF OwedInv, HolderInv, HolderTypeOK
  <2>. QED BY <2>1, CountIsBounded
<1>. QED BY <1>1, <1>2, <1>3, <1>4, MaxQueueAssumption DEF OwedInv, Owing, RoomLeft, Pending

(* On one thread no call of the slot is ever posted.                       *)
LEMMA SlotOwes == ASSUME OwedInv, SlotRuns PROVE Owing' /\ RoomLeft'
<1>1. ~ near /\ UNCHANGED << near, state, telling, queue, owed >>
  BY DEF SlotRuns, Hear, vars, OwedInv, HolderInv, Relayed
<1>. QED BY <1>1 DEF OwedInv, Owing, RoomLeft, Pending

LEMMA OwedKeeps == OwedInv /\ [HolderNext]_allVars => OwedInv'
<1>. SUFFICES ASSUME OwedInv, [HolderNext]_allVars PROVE OwedInv'
  OBVIOUS
<1>1. HolderInv'
  BY HolderNextKeeps DEF OwedInv
<1>2. ASSUME UNCHANGED allVars PROVE Owing' /\ RoomLeft'
  BY <1>2 DEF allVars, vars, holderVars, OwedInv, Owing, RoomLeft, Pending
<1>3. ASSUME HolderNext PROVE Owing' /\ RoomLeft'
  BY <1>3, TurnOwes, RunOwes, RunEndOwes, TellOwes, EmissionOwes, SlotOwes DEF HolderNext, HolderRun
<1>. QED BY <1>1, <1>2, <1>3 DEF OwedInv

(* On one thread pipelineReady comes at most once for every time the       *)
(* pipeline becomes Ready, whoever announces it and however much is queued *)
(* before.                                                                 *)
THEOREM OnceTheorem == HolderSpec => []ReadyOnce
<1>1. OwedInv => ReadyOnce
  <2>. SUFFICES ASSUME OwedInv PROVE owed >= 0
    BY DEF ReadyOnce
  <2>1. Count(queue) \in Nat
    BY CountIsBounded DEF OwedInv, HolderInv, HolderTypeOK
  <2>. QED BY <2>1 DEF OwedInv, Owing, Pending
<1>. QED BY <1>1, InitOwes, OwedKeeps, PTL DEF HolderSpec
=============================================================================
