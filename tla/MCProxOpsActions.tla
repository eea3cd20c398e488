--------------------------- MODULE MCProxOpsActions ---------------------------
(* Model checking of the C++ action server: by itself, with any callbacks a  *)
(* user may give it, and with those of the actions of Evolo's proximity      *)
(* operations.  A behaviour is one of a node.                                *)
EXTENDS LoiterPatrol, TargetActions

CONSTANTS
  SpareGoals  (* bound: goals requested only of the server by itself         *)

VARIABLE node (* which of the nodes runs                                     *)

nodeVars == <<cppVars, patrolVars, targetVars, node>>

Init ==
  /\ CppInit /\ PatrolInit /\ TargetInit
  /\ node \in {"server", "evolo_loiter_patrol", "evolo_target"}
  /\ node # "server" => preempt_active_goal /\ ~user_throws
  /\ node # "evolo_target" => ~intercepts /\ ~default_geofence_check_enabled

ServerRuns == node = "server" /\ UNCHANGED <<patrolVars, targetVars, node>>
PatrolRuns == node = "evolo_loiter_patrol" /\ UNCHANGED <<targetVars, node>>
TargetRuns == node = "evolo_target" /\ UNCHANGED <<patrolVars, node>>

Next ==
  /\ \/ ServerRuns /\ CppNext
     \/ PatrolRuns /\ PatrolNext
     \/ TargetRuns /\ TargetNext
  /\ node # "server" => \A g \in SpareGoals : goal_status'[g] = "unknown"

(* Both threads run, and the callbacks of the loop return. *)
Spec ==
  /\ Init /\ [][Next]_nodeVars
  /\ WF_nodeVars(ServerRuns /\ MainStep)
  /\ WF_nodeVars(ServerRuns /\ ThreadOwnStep)
  /\ WF_nodeVars(ServerRuns /\ UserStep)
  /\ WF_nodeVars(PatrolRuns /\ UNCHANGED patrolVars /\ MainStep)
  /\ WF_nodeVars(PatrolRuns /\ UNCHANGED patrolVars /\ ThreadOwnStep)
  /\ WF_nodeVars(PatrolRuns /\ PatrolLoop)
-----------------------------------------------------------------------------
\* The loop of a goal gives way: the handler of a newer goal, which waits for it,
\* is not held up for ever, and a goal that is being cancelled ends.  A node that
\* has crashed keeps nobody's promises.
LoopGivesWay ==
  node # "evolo_target" =>
    /\ main_pc = "joining" ~> main_pc = "spin"
    /\ \A g \in Goals : goal_status[g] = "CANCELING" ~> goal_status[g] \in Ended
=============================================================================
