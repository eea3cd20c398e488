---------------------------- MODULE MCMissionTrees ----------------------------
(* Model checking of the two mission trees: a behaviour is one of either.   *)
EXTENDS ProxOpsBT, AlarsBT

VARIABLE node  (* which of the nodes runs                                   *)

missionTreeVars == <<linkVars, missionVars, proxVars, alarsVars, node>>

Init ==
  /\ MissionInit /\ ProxInit /\ AlarsInit
  /\ node \in {"prox_ops_bt", "alars_bt"}

Next ==
  /\ \/ node = "prox_ops_bt" /\ ProxNext /\ UNCHANGED alarsVars
     \/ node = "alars_bt" /\ AlarsNext /\ UNCHANGED proxVars
  /\ UNCHANGED node

Spec == Init /\ [][Next]_missionTreeVars

-----------------------------------------------------------------------------
\* SuccessIsMeasured is about loop_inner of alars_bt.py; only that tree has a
\* load cell to hang on.
RecoveryIsMeasured == node = "alars_bt" => SuccessIsMeasured
=============================================================================
