----------------------------- MODULE MissionServer -----------------------------
(***************************************************************************)
(* The mission that a behaviour tree runs inside an action server, as the  *)
(* trees of prox_ops_bt, alars_bt and lolo_tuper do: loop_inner of a       *)
(* GentlerActionServer ticks the tree on the thread of the mission's goal. *)
(* The callbacks of the action clients and the cancellation of the mission *)
(* run on other threads.  A mission is requested when the last one is      *)
(* over; ActionServer has what happens otherwise.  What a tree resets in   *)
(* each callback is its own module's.                                      *)
(***************************************************************************)
EXTENDS ActionLink

VARIABLES
  mission      (* how far the goal of the mission has come                 *)

InLoop   == {"running", "reset"}
Pending  == {"accepted", "canceling"} \cup InLoop
Over     == {"succeeded", "aborted", "canceled", "raised", "broken"}
Stages   == {"none"} \cup Pending \cup Over
-----------------------------------------------------------------------------
(* on_goal_received ...                                                    *)
MissionRequested(valid) ==
  /\ mission \in {"none"} \cup (Over \ {"raised"})
  /\ mission' = IF valid THEN "accepted" ELSE mission

(* ... and prepare_loop. *)
MissionStarts == mission = "accepted" /\ mission' = "running"

(* on_cancel_received, on a thread of its own ... *)
MissionReset == mission = "running" /\ mission' = "reset"

(* ... and the goal is being cancelled once it has returned. *)
MissionCanceling == mission = "reset" /\ mission' = "canceling"

(* An exception in the loop: the server takes no goal after that; or, if    *)
(* the goal was not yet being cancelled, rclpy aborts the goal instead.    *)
RaisedStage == IF mission = "canceling" THEN "raised" ELSE "broken"
-----------------------------------------------------------------------------
(* The servers, and the client callbacks that their answers run: an answer  *)
(* reaches the client as it is given.  ActionLink has what late and         *)
(* reordered answers do.                                                   *)

Answers(s, g, state, handle, goal) ==
  /\ link' = [link EXCEPT ![s].state = state, ![s].handle = handle, ![s].goals[g] = goal]
  /\ UNCHANGED <<leaf, mission>>

AnswersGoal(s, g, accepted) ==
  /\ link[s].goals[g].stage = "requested"
  /\ IF accepted THEN Answers(s, g, "ACCEPTED", g, [stage |-> "EXECUTING", transit |-> {}])
                 ELSE Answers(s, g, "REJECTED", NoSlot, FreeGoal)

(* A cancellation that is refused, or comes too late, changes nothing. *)
AnswersCancel(s, g, granted) ==
  LET goal == link[s].goals[g] IN
    /\ "cancel" \in goal.transit
    /\ granted => goal.stage = "EXECUTING"
    /\ IF granted THEN Answers(s, g, "CANCELLED", link[s].handle,
                               [stage |-> "CANCELING", transit |-> {}])
                  ELSE Answers(s, g, link[s].state, link[s].handle,
                               [goal EXCEPT !.transit = {}])

(* With the goal its handle is gone too, as Forgotten has it. *)
AnswersResult(s, g, stage) ==
  LET goal == link[s].goals[g] IN
    /\ goal.stage \in Underway
    /\ stage = "CANCELED" => goal.stage = "CANCELING"
    /\ Answers(s, g, ResultState(stage),
               IF link[s].handle = g THEN NoSlot ELSE link[s].handle, FreeGoal)

Executes(s) == \E g \in Slots : link[s].goals[g].stage = "EXECUTING"

(* accepting: the server has no goal of another client executing. *)
ServerAnswers(s, accepting) ==
  \E g \in Slots :
    \/ AnswersGoal(s, g, FALSE)
    \/ accepting /\ AnswersGoal(s, g, TRUE)
    \/ \E granted \in BOOLEAN : AnswersCancel(s, g, granted)
    \/ \E stage \in Ended : AnswersResult(s, g, stage)
-----------------------------------------------------------------------------
\* A_ActionClient.update, its goal being set.
LeafUpdate(k) ==
  CASE k.state = "CANCELLED"                        -> "recover"
    [] k.state = "READY"                            -> "send"
    [] k.state \in running_states                   -> "wait"
    [] k.state \in failure_states \ {"CANCELLED"}   -> "fail"
    [] k.state \in success_states                   -> "succeed"

\* stop(INVALID) of a leaf, if it was ticked before.
Stopped(s) == IF leaf[s].status = "INVALID" THEN link[s] ELSE terminate(link[s], "INVALID")
=============================================================================
