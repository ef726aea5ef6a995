--------------------------- MODULE PipelineHolder ---------------------------
(***************************************************************************)
(* A chain pipeline (module Pipeline) as TA_PipelineCreator hands it out:  *)
(* in a TA_PipelineHolder that forwards every operation and passes on the  *)
(* states the pipeline announces with its signal stateChanged, over the    *)
(* queues of the threads the two objects belong to (module Connections).   *)
(*                                                                         *)
(* The program creates them outside the pool and is the only caller.  What *)
(* it connects to the holder's signals is called where these are emitted.  *)
(* The slot activityCompleted of the holder does nothing but print, and is *)
(* left out with the signal it is connected to.                            *)
(***************************************************************************)
EXTENDS Pipeline

CONSTANTS
  MaxQueue,      \* the caller goes on when less than that is on its way
  RunPosted      \* m_pRunningActivity in that queue

ASSUME MaxQueueAssumption == MaxQueue \in Nat
ASSUME RunPostedAssumption == RunPosted \notin {"Waiting", "Busy", "Ready"}

VARIABLES
  near,          \* pipeline and holder belong to one thread
  queue,         \* posted to the pipeline's thread: emissions of
                 \* stateChanged, named by their argument, and runs
  telling,       \* the run has set the state and not yet announced it
  para,          \* m_para of the connection
  slots,         \* calls of receivePipelineState posted to the holder's thread
  heard,         \* the last state the holder has passed on
  owed           \* if they do: how often the pipeline has become Ready,
                 \* less the number of pipelineReady; MaxQueue at most

holderVars == << near, queue, telling, para, slots, heard, owed >>
allVars == << vars, holderVars >>

(* createAutoChainPipeline and the others: a new pipeline in a new holder, *)
(* on the threads topPriorityThread chooses, connected.                    *)
HolderInit ==
  /\ Init
  /\ near \in BOOLEAN
  /\ queue = << >>
  /\ telling = FALSE
  /\ para = "Waiting" /\ slots = 0
  /\ heard = "Waiting" /\ owed = 0

-----------------------------------------------------------------------------
(* Announcements                                                           *)

(* receivePipelineState: Ready is announced as pipelineReady, too.         *)
Hear(st) ==
  /\ heard' = st
  /\ owed' = IF near /\ st = "Ready" THEN owed - 1 ELSE owed

(* The emission on the pipeline's own thread: the slot is called at once   *)
(* if the holder belongs to it, else posted to the holder's.               *)
Deliver(st) ==
  /\ para' = st
  /\ IF near
     THEN Hear(st) /\ UNCHANGED slots
     ELSE slots' = slots + 1 /\ UNCHANGED << heard, owed >>

-----------------------------------------------------------------------------
(* The caller                                                              *)

HolderAdjust ==
  /\ MayCall /\ Adjust
  /\ UNCHANGED holderVars

RunIn == IF posted' > posted /\ ~ inside' THEN << RunPosted >> ELSE << >>

(* Mutant: the run is posted before the state is set. *)
HolderTurn_RunFirst ==
  /\ MayCall /\ Turn
  /\ Len(queue) + slots < MaxQueue
  /\ queue' = queue \o RunIn \o << state' >>
  /\ UNCHANGED << near, telling, para, slots, heard, owed >>

(* Mutant: the state is announced before it is set. *)
HolderTurn_OldState ==
  /\ MayCall /\ Turn
  /\ Len(queue) + slots < MaxQueue
  /\ queue' = queue \o << state >> \o RunIn
  /\ UNCHANGED << near, telling, para, slots, heard, owed >>

(* setState from outside the pool posts its emission; execute then posts   *)
(* the run, or runs it at once.                                            *)
HolderTurn ==
  /\ MayCall /\ Turn
  /\ Len(queue) + slots < MaxQueue
  /\ queue' = queue \o << state' >> \o RunIn
  /\ UNCHANGED << near, telling, para, slots, heard, owed >>

-----------------------------------------------------------------------------
(* The run                                                                 *)

HolderRunBegin ==
  /\ RunBegin
  /\ IF inside
     THEN UNCHANGED queue
     ELSE queue # << >> /\ Head(queue) = RunPosted /\ queue' = Tail(queue)
  /\ UNCHANGED << near, telling, para, slots, heard, owed >>

HolderRunStep ==
  /\ Iterate \/ AutoNext \/ AutoFail
  /\ UNCHANGED holderVars

(* setState stores the state, and then emits the one it loads.             *)
HolderRunEnd ==
  /\ AutoEnd \/ ManualEnd
  /\ telling' = TRUE
  /\ owed' = IF near /\ state' = "Ready" /\ owed < MaxQueue THEN owed + 1 ELSE owed
  /\ UNCHANGED << near, queue, para, slots, heard >>

(* A run on the thread of its caller posts the emission.                   *)
Tell ==
  /\ telling
  /\ telling' = FALSE
  /\ IF inside
     THEN queue' = Append(queue, state) /\ UNCHANGED << para, slots, heard, owed >>
     ELSE Deliver(state) /\ UNCHANGED queue
  /\ UNCHANGED << near, vars >>

HolderRunReturns ==
  /\ ~ telling
  /\ RunReturns
  /\ UNCHANGED holderVars

HolderRun == HolderRunBegin \/ HolderRunStep \/ HolderRunEnd \/ Tell \/ HolderRunReturns

-----------------------------------------------------------------------------
(* The threads of the pool                                                 *)

(* The pipeline's thread gets to an emission, unless it is in a run.       *)
Emission ==
  /\ worker = "idle" \/ (inside /\ worker # "terminated")
  /\ queue # << >> /\ Head(queue) # RunPosted
  /\ queue' = Tail(queue)
  /\ Deliver(Head(queue))
  /\ UNCHANGED << near, telling, vars >>

(* The slot reads the argument when it runs.                               *)
SlotRuns ==
  /\ worker # "terminated"
  /\ slots > 0
  /\ slots' = slots - 1
  /\ Hear(para)
  /\ UNCHANGED << near, queue, telling, para, vars >>

-----------------------------------------------------------------------------
HolderNext == HolderAdjust \/ HolderTurn \/ HolderRun \/ Emission \/ SlotRuns

HolderSpec == HolderInit /\ [][HolderNext]_allVars

(* The pool runs what is posted to it, and a run goes on.                  *)
FairHolderSpec ==
  /\ HolderSpec
  /\ WF_allVars(HolderRun) /\ WF_allVars(Emission) /\ WF_allVars(SlotRuns)

-----------------------------------------------------------------------------
(* The last state the holder has passed on is the pipeline's, when nothing *)
(* is on its way any more: announcements made by the caller and by the     *)
(* run, some posted and some not, do not overtake each other.              *)
Quiet == queue = << >> /\ slots = 0 /\ ~ telling

LastHeard == Quiet => heard = state

(* pipelineReady comes at most once for every time the pipeline becomes    *)
(* Ready.  It may not come, when the caller resets the pipeline before     *)
(* setState has loaded the state; and on two threads, where the next       *)
(* emission overwrites the argument of a slot that has not yet run, it may *)
(* not come or come twice.                                                 *)
ReadyOnce == owed >= 0
=============================================================================
