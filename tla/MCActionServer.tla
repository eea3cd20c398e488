---------------------------- MODULE MCActionServer ----------------------------
(* Model checking of the Python action server: by itself, with any callbacks *)
(* a user may give it, and with those of the actions of ALARS.  A behaviour  *)
(* is one of a node.                                                         *)
EXTENDS AlarsActions

CONSTANTS
  SpareGoals (* bound: goals requested only of the server by itself          *)

VARIABLE node (* which of the nodes runs: the server, or one with an action  *)

nodeVars == <<alarsVars, node>>

(* The server by itself does not look at the action; search claims no arrival, *)
(* and any other user may succeed.                                          *)
Init ==
  /\ AlarsInit
  /\ node \in {"server", "alars"}
  /\ node = "server" => action = "alars_search"

ServerRuns == node = "server" /\ UNCHANGED <<userVars, node>>
AlarsRuns  == node = "alars" /\ UNCHANGED node

Next ==
  /\ \/ ServerRuns /\ ServerNext
     \/ AlarsRuns /\ AlarsNext
  /\ node = "alars" => \A g \in SpareGoals : request'[g] = "none"

(* As ServerFairness has it, of either: the threads of the executor go on.   *)
Spec ==
  /\ Init /\ [][Next]_nodeVars
  /\ \A g \in Goals :
       /\ WF_nodeVars(ServerRuns /\ RequestStep(g))
       /\ WF_nodeVars(ServerRuns /\ ExecutionStep(g))
       /\ WF_nodeVars(AlarsRuns /\ AlarsRequest(g))
       /\ WF_nodeVars(AlarsRuns /\ AlarsTask(g))
=============================================================================
