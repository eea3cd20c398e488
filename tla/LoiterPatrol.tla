----------------------------- MODULE LoiterPatrol -----------------------------
(***************************************************************************)
(* Evolo's patrol (evolo_loiter_patrol.cpp): an action server that sends   *)
(* the vehicle back and forth between two waypoints by goals of another    *)
(* action server, move_to.                                                 *)
(*                                                                         *)
(* The node's main thread runs the callbacks of the patrol's own server    *)
(* (CppActionServer) and those of the move_to client; the execution thread *)
(* runs loop_inner.  They share the delegate's state under its mutex: one  *)
(* section under the mutex is one step.  delegate_generation_ is only ever *)
(* compared with itself: a goal knows whether it is of the current one.    *)
(***************************************************************************)
EXTENDS CppActionServer, Integers

CONSTANTS
  Moves,      (* slots for goals of move_to; bound: those not over yet      *)
  NoMove      (* no goal handle of move_to                                 *)

ASSUME PatrolAssumption == NoMove \notin Moves

VARIABLES
  delegate,   (* delegate_state_ and active_move_to_goal_                  *)
  current_waypoint_index,
  moves,      (* the goals sent to move_to                                 *)
  arrived_at, (* the waypoint whose goal has succeeded                     *)
  step,       (* where loop_inner stands                                   *)
  callback,   (* the callback the main thread is in, and ...               *)
  subject     (* ... the goal it is about                                  *)

patrolVars == <<delegate, current_waypoint_index, moves, arrived_at, step,
                callback, subject>>

DelegateState == {"IDLE", "WAITING_FOR_ACCEPTANCE", "RUNNING", "SUCCEEDED", "FAILED",
                  "CANCELING"}
Waypoints == {0, 1}
MoveStage == {"free", "requested", "accepted", "rejected", "running", "succeeded", "failed"}
Steps     == {"look", "switch", "idle?", "send"}

NewMove(w) == [stage |-> "requested", waypoint |-> w, stale |-> FALSE, canceled |-> FALSE]
NoGoalSent == [stage |-> "free", waypoint |-> 0, stale |-> FALSE, canceled |-> FALSE]

PatrolTypeOK ==
  /\ CppTypeOK
  /\ delegate \in [state : DelegateState, active : Moves \cup {NoMove}]
  /\ current_waypoint_index \in Waypoints /\ arrived_at \in Waypoints
  /\ moves \in [Moves -> [stage : MoveStage, waypoint : Waypoints,
                          stale : BOOLEAN, canceled : BOOLEAN]]
  /\ step \in Steps
  /\ callback \in {"none", "goal", "response", "shutdown"}
  /\ subject \in Goals \cup Moves \cup {NoGoal}

PatrolInit ==
  /\ delegate = [state |-> "IDLE", active |-> NoMove]
  /\ current_waypoint_index = 0 /\ arrived_at = 0
  /\ moves = [m \in Moves |-> NoGoalSent]
  /\ step = "look"
  /\ callback = "none" /\ subject = NoGoal

Spinning == MainAt("spin") /\ callback = "none"
-----------------------------------------------------------------------------
(* The callbacks of the patrol's own server. *)

\* Mutant: the delegate counts as idle at once.
cancel_active_move_to_goal_Idle ==
  /\ moves' = [m \in Moves |-> IF m = delegate.active THEN [moves[m] EXCEPT !.canceled = TRUE]
                                                      ELSE moves[m]]
  /\ delegate' = [state |-> "IDLE", active |-> NoMove]

cancel_active_move_to_goal ==
  /\ moves' = [m \in Moves |-> IF m = delegate.active THEN [moves[m] EXCEPT !.canceled = TRUE]
                                                      ELSE moves[m]]
  /\ delegate' = [state |-> "CANCELING", active |-> NoMove]

(* on_goal_received cancels and resets what a running patrol works on; that *)
(* the goal is any good comes out only then.                               *)
PatrolGoal(g) ==
  /\ Spinning
  /\ goal_status[g] = "unknown" /\ ~Refusing
  /\ cancel_active_move_to_goal
  /\ callback' = "goal" /\ subject' = g
  /\ UNCHANGED <<cppVars, current_waypoint_index, arrived_at, step>>

PatrolParsed(accepts) ==
  /\ callback = "goal"
  /\ ReceiveGoal(subject, accepts)
  /\ current_waypoint_index' = 0
  /\ callback' = "none" /\ subject' = NoGoal
  /\ UNCHANGED <<delegate, moves, arrived_at, step>>

PatrolCancel(g) ==
  /\ Spinning
  /\ ReceiveCancel(g)
  /\ cancel_active_move_to_goal
  /\ UNCHANGED <<current_waypoint_index, arrived_at, step, callback, subject>>

ShutdownCancels ==
  /\ Spinning
  /\ cancel_active_move_to_goal
  /\ callback' = "shutdown"
  /\ UNCHANGED <<cppVars, current_waypoint_index, arrived_at, step, subject>>

ShutdownGoesOn ==
  /\ callback = "shutdown"
  /\ RequestShutdown
  /\ callback' = "none"
  /\ UNCHANGED <<delegate, current_waypoint_index, moves, arrived_at, step, subject>>

(* Whether a goal of an earlier generation was cancelled no longer matters. *)
Stale(move) ==
  IF move.stage = "free" THEN move ELSE [move EXCEPT !.stale = TRUE, !.canceled = FALSE]

(* prepare_loop: the generation of all goals sent so far is over. *)
PatrolPrepares ==
  /\ PrepareLoop(FALSE)
  /\ delegate' = [state |-> "IDLE", active |-> NoMove]
  /\ moves' = [m \in Moves |-> Stale(moves[m])]
  /\ current_waypoint_index' = 0 /\ arrived_at' = 0
  /\ step' = "look"
  /\ UNCHANGED <<callback, subject>>
-----------------------------------------------------------------------------
(* loop_inner. *)

InnerAt(s) == ThreadAt("inner") /\ step = s

LoopComes(loop_status) == LoopInner(loop_status) /\ step' = "look"

(* The server is not ready, at first or for too long; or its goal failed.   *)
LoopLooks ==
  /\ InnerAt("look")
  /\ \/ \E loop_status \in {"RUNNING", "FAILURE"} : LoopComes(loop_status)
     \/ delegate.state = "FAILED" /\ LoopComes("FAILURE")
     \/ /\ delegate.state # "FAILED"
        /\ step' = IF delegate.state = "SUCCEEDED" THEN "switch" ELSE "idle?"
        /\ UNCHANGED cppVars
  /\ UNCHANGED <<delegate, current_waypoint_index, moves, arrived_at, callback, subject>>

LoopSwitches ==
  /\ InnerAt("switch")
  /\ current_waypoint_index' = 1 - current_waypoint_index
  /\ delegate' = [delegate EXCEPT !.state = "IDLE"]
  /\ step' = "idle?"
  /\ arrived_at' = 0
  /\ UNCHANGED <<cppVars, moves, callback, subject>>

LoopAsksIdle ==
  /\ InnerAt("idle?")
  /\ IF delegate.state = "IDLE" THEN step' = "send" /\ UNCHANGED cppVars
                                ELSE LoopComes("RUNNING")
  /\ UNCHANGED <<delegate, current_waypoint_index, moves, arrived_at, callback, subject>>

send_current_move_to_goal ==
  /\ InnerAt("send")
  /\ \E m \in Moves :
       /\ moves[m].stage = "free"
       /\ moves' = [moves EXCEPT ![m] = NewMove(current_waypoint_index)]
  /\ delegate' = [delegate EXCEPT !.state = "WAITING_FOR_ACCEPTANCE"]
  /\ LoopComes("RUNNING")
  /\ UNCHANGED <<current_waypoint_index, arrived_at, callback, subject>>
-----------------------------------------------------------------------------
(* The callbacks of the move_to client.  While the node flushes they run too, *)
(* but nothing reads what they write.                                      *)

MoveComes(m, stage) == moves' = [moves EXCEPT ![m].stage = stage]
MoveOver(m) == moves' = [moves EXCEPT ![m] = NoGoalSent]

Takes(m) == IF moves[m].stage = "rejected" THEN MoveOver(m) ELSE MoveComes(m, "running")

(* goal_response_callback: the generation is compared in one section ...   *)
ResponseArrives(m) ==
  /\ Spinning
  /\ moves[m].stage \in {"accepted", "rejected"}
  /\ IF moves[m].stale THEN Takes(m) /\ UNCHANGED <<callback, subject>>
                       ELSE callback' = "response" /\ subject' = m /\ UNCHANGED moves
  /\ UNCHANGED <<cppVars, delegate, current_waypoint_index, arrived_at, step>>

(* ... and the answer stored in another. *)
ResponseStored ==
  /\ callback = "response"
  /\ Takes(subject)
  /\ delegate' = IF moves[subject].stage = "rejected"
                   THEN [delegate EXCEPT !.state = "FAILED"]
                   ELSE [state |-> "RUNNING", active |-> subject]
  /\ callback' = "none" /\ subject' = NoGoal
  /\ UNCHANGED <<cppVars, current_waypoint_index, arrived_at, step>>

ResultState(m) ==
  IF delegate.state = "CANCELING" THEN "IDLE"
  ELSE IF moves[m].stage = "succeeded" THEN "SUCCEEDED" ELSE "FAILED"

\* Mutant: the generation is not compared.
ResultArrives_AnyGeneration(m) ==
  /\ Spinning
  /\ moves[m].stage \in {"succeeded", "failed"}
  /\ delegate' = [state |-> ResultState(m), active |-> NoMove]
  /\ arrived_at' = IF delegate'.state = "SUCCEEDED" THEN moves[m].waypoint ELSE arrived_at
  /\ MoveOver(m)
  /\ UNCHANGED <<cppVars, current_waypoint_index, step, callback, subject>>

(* result_callback, all of it under the mutex. *)
ResultArrives(m) ==
  /\ Spinning
  /\ moves[m].stage \in {"succeeded", "failed"}
  /\ IF moves[m].stale
       THEN UNCHANGED <<delegate, arrived_at>>
       ELSE /\ delegate' = [state |-> ResultState(m), active |-> NoMove]
            /\ arrived_at' = IF delegate'.state = "SUCCEEDED" THEN moves[m].waypoint
                                                              ELSE arrived_at
  /\ MoveOver(m)
  /\ UNCHANGED <<cppVars, current_waypoint_index, step, callback, subject>>

(* The move_to server.  What it makes of a cancellation shows in the result; *)
(* what it does while the node shuts down no callback sees any more.       *)
MoveToServer(m) ==
  /\ ~stop_requested
  /\ \/ moves[m].stage = "requested" /\ \E a \in {"accepted", "rejected"} : MoveComes(m, a)
     \/ moves[m].stage = "running" /\ \E r \in {"succeeded", "failed"} : MoveComes(m, r)
  /\ UNCHANGED <<cppVars, delegate, current_waypoint_index, arrived_at, step, callback, subject>>
-----------------------------------------------------------------------------
PatrolLoop ==
  \/ PatrolPrepares
  \/ LoopLooks \/ LoopSwitches \/ LoopAsksIdle \/ send_current_move_to_goal

PatrolNext ==
  \/ \E g \in Goals :
       \/ callback = "none" /\ RefuseGoal(g) /\ UNCHANGED patrolVars
       \/ PatrolGoal(g) \/ PatrolCancel(g)
  \/ \E accepts \in BOOLEAN : PatrolParsed(accepts)
  \/ ShutdownCancels \/ ShutdownGoesOn
  \/ (MainStep \/ ThreadOwnStep) /\ UNCHANGED patrolVars
  \/ PatrolLoop
  \/ ResponseStored
  \/ \E m \in Moves : ResponseArrives(m) \/ ResultArrives(m) \/ MoveToServer(m)

PatrolSafety == CppInit /\ PatrolInit /\ [][PatrolNext]_<<cppVars, patrolVars>>
-----------------------------------------------------------------------------
(* Properties. *)

\* Nothing has taken the patrol from its goal: no newer goal is being received
\* or has been, accepted or not.
OnItsOwn ==
  /\ active_goal_handle = thread_goal
  /\ callback # "goal" /\ main_pc # "accepting"
  /\ \A g \in Goals : goal_status[g] # "rejected"

\* "If the delegated move_to action succeeded, switch waypoint": the patrol turns
\* to its other waypoint only when the goal for this one, sent by this patrol,
\* has succeeded; not on the late result of an earlier patrol's.
TurnsOnArrival ==
  [][thread_pc = "inner" /\ OnItsOwn /\ current_waypoint_index' # current_waypoint_index
     => arrived_at = current_waypoint_index]_<<cppVars, patrolVars>>

\* A cancellation of the patrol reaches the move_to goal that drives the vehicle:
\* once its acceptance has arrived, the handle is kept until the goal is
\* cancelled or over, and no second goal of the same patrol runs beside it.
RunningMoveIsHeld ==
  \A m \in Moves :
    moves[m].stage = "running" /\ ~moves[m].stale /\ ~moves[m].canceled
      => delegate.active = m
=============================================================================
