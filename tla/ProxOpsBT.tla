------------------------------ MODULE ProxOpsBT ------------------------------
(***************************************************************************)
(* The mission tree of Evolo's proximity operations (prox_ops_bt.py):      *)
(* inspect the target once it is intercepted, intercept it while the       *)
(* backend tracks it, patrol otherwise.  The mission succeeds when the     *)
(* inspection has lasted long enough, and fails when the patrol has.       *)
(*                                                                         *)
(* The backend's reports come on another thread, between any two           *)
(* conditions that read them: what a condition finds in the last report is *)
(* a choice made where it is read.  A timeout is positive, as the goal     *)
(* format has it, and runs out at any time after its start.                *)
(***************************************************************************)
EXTENDS PostPreAct

VARIABLES
  inspection,   (* _inspection_started_time_s against its timeout          *)
  patrol,       (* _patrol_started_time_s against its timeout              *)
  stop_sent,    (* which timeouts have sent RESET and STOP                 *)
  backend       (* the last command to the backend                         *)

timerVars == <<inspection, patrol>>
proxVars  == <<timerVars, stop_sent, backend>>

TimerStates == {"off", "on", "over"}

ProxTypeOK ==
  /\ inspection \in TimerStates /\ patrol \in TimerStates
  /\ stop_sent \subseteq {"inspection", "patrol"}
  /\ backend \in {"none", "START", "STOP"}

ProxInit ==
  /\ inspection = "off" /\ patrol = "off"
  /\ stop_sent = {}
  /\ backend = "none"

Inspect   == "target_inspect"
Intercept == "target_intercept"
Patrol    == "loiter_patrol"
ProxOrder == <<Inspect, Intercept, Patrol>>

ASSUME ProxClients == {Inspect, Intercept, Patrol} \subseteq Servers

\* Mutant: the flags of the last mission stay.
ProxReset_KeepsFlags ==
  /\ inspection' = "off" /\ patrol' = "off"
  /\ UNCHANGED stop_sent

(* _reset_states, but for the clients. *)
ProxReset ==
  /\ inspection' = "off" /\ patrol' = "off"
  /\ stop_sent' = {}

Running(timer) == IF timer = "off" THEN "on" ELSE timer

(* _publish_backend_stop_reset_once, for the timeouts in S. *)
StopBackend(S) ==
  /\ backend' = IF S \subseteq stop_sent THEN backend ELSE "STOP"
  /\ stop_sent' = stop_sent \cup S
-----------------------------------------------------------------------------
ProxGoal ==
  \/ /\ \E valid \in BOOLEAN : ReceiveMission(valid)
     /\ ProxReset /\ UNCHANGED backend
  \/ PrepareMission /\ ProxReset /\ backend' = "START"
  \/ ReceiveCancel /\ ProxReset /\ UNCHANGED backend
  \/ CancelAccepted /\ UNCHANGED proxVars

(* on_cancel_received between the test that a timer runs and the use of its *)
(* start: the tick raises.  The server takes no goal after that, or, if    *)
(* the goal was not yet being cancelled, rclpy aborts the goal instead.    *)
CancelDuringTest(stage) ==
  /\ mission = "running"
  /\ \/ visiting = Inspect /\ inspection # "off"
     \/ visiting = Patrol /\ patrol # "off" /\ ~LeafRuns(Patrol)
     \/ visiting = "after" /\ <<inspection, patrol>> # <<"off", "off">>
  /\ ClientsReset /\ ProxReset
  /\ MissionEnds(stage)
  /\ UNCHANGED <<leaf, root_failed, backend>>

Elapse ==
  /\ \/ inspection = "on" /\ inspection' = "over" /\ UNCHANGED patrol
     \/ patrol = "on" /\ patrol' = "over" /\ UNCHANGED inspection
  /\ UNCHANGED <<linkVars, missionVars, stop_sent, backend>>

(* _target_intercepted_and_info_fresh starts the timer of the inspection.  *)
VisitInspect ==
  \/ /\ inspection = "over"
     /\ PostHolds(ProxOrder, Inspect)
     /\ StopBackend({"inspection"})
     /\ UNCHANGED timerVars
  \/ /\ inspection # "over"
     /\ UNCHANGED <<patrol, stop_sent, backend>>
     /\ \/ Untried(ProxOrder, Inspect, "FAILURE") /\ UNCHANGED inspection
        \/ \E status \in LeafStatus :
             \/ /\ TryAction(ProxOrder, Inspect, TRUE, status, status)
                /\ inspection' = Running(inspection)
             \/ /\ ResumeAction(ProxOrder, Inspect, status, status)
                /\ UNCHANGED inspection

\* Mutant: the timers are reset before the condition is known to hold.
VisitIntercept_ResetsFirst ==
  /\ UNCHANGED <<stop_sent, backend>>
  /\ \/ PostHolds(ProxOrder, Intercept) /\ UNCHANGED timerVars
     \/ Untried(ProxOrder, Intercept, "FAILURE") /\ inspection' = "off" /\ patrol' = "off"
     \/ \E status \in LeafStatus :
          \/ /\ TryAction(ProxOrder, Intercept, TRUE, status, status)
             /\ inspection' = "off" /\ patrol' = "off"
          \/ /\ ResumeAction(ProxOrder, Intercept, status, status)
             /\ UNCHANGED timerVars

(* _backend_converged_healthy_and_tracking resets both timers. *)
VisitIntercept ==
  /\ UNCHANGED <<stop_sent, backend>>
  /\ \/ PostHolds(ProxOrder, Intercept) /\ UNCHANGED timerVars
     \/ Untried(ProxOrder, Intercept, "FAILURE") /\ UNCHANGED timerVars
     \/ \E status \in LeafStatus :
          \/ /\ TryAction(ProxOrder, Intercept, TRUE, status, status)
             /\ inspection' = "off" /\ patrol' = "off"
          \/ /\ ResumeAction(ProxOrder, Intercept, status, status)
             /\ UNCHANGED timerVars

(* _patrol_timeout_not_exceeded starts the timer of the patrol. *)
VisitPatrol ==
  \/ /\ UNCHANGED proxVars
     /\ \/ PostHolds(ProxOrder, Patrol)
        \/ \E status \in LeafStatus : ResumeAction(ProxOrder, Patrol, status, status)
  \/ /\ patrol = "over"
     /\ Untried(ProxOrder, Patrol, "FAILURE")
     /\ StopBackend({"patrol"})
     /\ UNCHANGED timerVars
  \/ /\ patrol # "over"
     /\ \E status \in LeafStatus : TryAction(ProxOrder, Patrol, TRUE, status, status)
     /\ patrol' = Running(patrol)
     /\ UNCHANGED <<inspection, stop_sent, backend>>

(* loop_inner after the tick, its reset included. *)
AfterProxTick ==
  \/ /\ inspection = "over"
     /\ LoopEnds(TRUE)
     /\ backend' = IF "inspection" \in stop_sent THEN backend ELSE "STOP"
     /\ ProxReset
  \/ /\ inspection # "over" /\ (root_failed \/ patrol = "over")
     /\ LoopEnds(FALSE)
     /\ backend' = IF patrol # "over" \/ "patrol" \in stop_sent THEN backend ELSE "STOP"
     /\ ProxReset
  \/ /\ inspection # "over" /\ ~root_failed /\ patrol # "over"
     /\ LoopGoesOn
     /\ UNCHANGED proxVars

ProxTick ==
  \/ (StartTick(ProxOrder) \/ LoopCanceled) /\ UNCHANGED proxVars
  \/ VisitInspect \/ VisitIntercept \/ VisitPatrol
  \/ AfterProxTick

(* Each client has a server of its own. *)
ProxServers ==
  /\ \E s \in {Inspect, Intercept, Patrol} : ServersAnswer(s, ~Executes(s))
  /\ UNCHANGED proxVars

ProxNext ==
  \/ ProxGoal \/ ProxTick \/ ProxServers \/ Elapse
  \/ \E stage \in {"raised", "broken"} : CancelDuringTest(stage)
-----------------------------------------------------------------------------
(* Properties. *)

\* "Positive number of seconds the BT may spend in loiter/patrol before failing
\* the overall prox-ops goal": while the patrol runs, its timer does.
PatrolIsTimed ==
  visiting = "between" /\ mission = "running" /\ LeafRuns(Patrol) => patrol # "off"

\* It does unless the tree still runs the patrol of an earlier mission.
FreshPatrolIsTimed ==
  Patrol \notin left_over => PatrolIsTimed

\* A mission ends by a timeout only when the backend has been told to STOP, and
\* not because it was told so in an earlier mission.
TimeoutStopsBackend ==
  [][mission' \in {"succeeded", "aborted"} /\ mission' # mission
       /\ "over" \in {inspection, patrol}
     => backend' = "STOP"]_<<linkVars, missionVars, proxVars>>
=============================================================================
