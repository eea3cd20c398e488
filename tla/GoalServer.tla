----------------------------- MODULE GoalServer -----------------------------
(***************************************************************************)
(* What an action server promises its clients: every goal it is asked for  *)
(* is accepted or rejected, one is accepted only while no other goal is    *)
(* under way uncancelled, and an accepted goal ends once, cancelled only    *)
(* after a cancel request.  ActionServer implements this; ActionLink takes  *)
(* the server at the other end of its messages to behave so.               *)
(***************************************************************************)
CONSTANT Goals

VARIABLE goal_status

PromisedStatus == {"unknown", "rejected", "EXECUTING", "CANCELING",
                   "SUCCEEDED", "ABORTED", "CANCELED"}

PromiseTypeOK == goal_status \in [Goals -> PromisedStatus]

PromiseInit == goal_status = [g \in Goals |-> "unknown"]

Becomes(g, st) == goal_status' = [goal_status EXCEPT ![g] = st]

Reject(g) == goal_status[g] = "unknown" /\ Becomes(g, "rejected")

Accept(g) ==
  /\ goal_status[g] = "unknown"
  /\ \A h \in Goals : goal_status[h] # "EXECUTING"
  /\ Becomes(g, "EXECUTING")

Cancel(g) == goal_status[g] = "EXECUTING" /\ Becomes(g, "CANCELING")

Finish(g, st) ==
  /\ \/ st \in {"SUCCEEDED", "ABORTED"} /\ goal_status[g] \in {"EXECUTING", "CANCELING"}
     \/ st = "CANCELED" /\ goal_status[g] = "CANCELING"
  /\ Becomes(g, st)

PromiseNext ==
  \E g \in Goals :
    \/ Reject(g) \/ Accept(g) \/ Cancel(g)
    \/ \E st \in {"SUCCEEDED", "ABORTED", "CANCELED"} : Finish(g, st)

Promise == PromiseInit /\ [][PromiseNext]_goal_status
=============================================================================
