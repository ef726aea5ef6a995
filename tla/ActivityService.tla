-------------------------- MODULE ActivityService --------------------------
(***************************************************************************)
(* What the thread pool promises its callers: an activity that was posted  *)
(* is rejected or accepted; its body begins only after it was accepted,    *)
(* at most once, and never after the pool has shut down.                   *)
(***************************************************************************)
CONSTANT Activities

VARIABLES
  status,   \* activity -> how far it has come
  closed    \* the pool has shut down

Init ==
  /\ status = [a \in Activities |-> "new"]
  /\ closed = FALSE

Advance(a, from, to) ==
  /\ status[a] = from
  /\ status' = [status EXCEPT ![a] = to]
  /\ UNCHANGED closed

Accept(a) == Advance(a, "new", "accepted")
Reject(a) == Advance(a, "new", "rejected")
Start(a) == ~closed /\ Advance(a, "accepted", "running")
Finish(a) == ~closed /\ Advance(a, "running", "done")

Close ==
  /\ \A a \in Activities : status[a] # "running"
  /\ closed' = TRUE
  /\ UNCHANGED status

Next ==
  \/ Close
  \/ \E a \in Activities : Accept(a) \/ Reject(a) \/ Start(a) \/ Finish(a)

Spec == Init /\ [][Next]_<< status, closed >>
=============================================================================
