---------------------------- MODULE ActionServer ----------------------------
(***************************************************************************)
(* The action server every SMaRC Python node is built on: SMARCActionServer *)
(* (smarc_action_base.py) with GentlerActionServer on top, run by a        *)
(* multi-threaded executor with a reentrant callback group.                *)
(*                                                                         *)
(* A goal is named by its id.  The thread that handles the request for g   *)
(* is thread g; so is the task that later runs the execution callback that *)
(* thread started.  The two sections under _goal_lock are one step each;   *)
(* what runs between them interleaves with every other thread.             *)
(*                                                                         *)
(* rclpy is modelled from how this code uses it: a goal handle refuses an  *)
(* illegal transition by raising; out of the execution callback that ends  *)
(* in an abort of the goal, out of the acceptance callback it leaves the   *)
(* executor's spin and ends the node.                                      *)
(***************************************************************************)
EXTENDS Naturals, FiniteSets

CONSTANTS
  Goals,       (* goal ids; each is requested at most once                *)
  NoGoal,      (* no goal handle yet                                      *)
  MaxRequests  (* bound: goal requests handled at the same time           *)

ASSUME ServerAssumption ==
  /\ IsFiniteSet(Goals)
  /\ NoGoal \notin Goals
  /\ MaxRequests \in Nat \ {0}

VARIABLES
  status,            (* of each goal handle; "unknown" before acceptance   *)
  request,           (* where the thread that handles the request stands   *)
  execution,         (* where the task that runs the callback stands       *)
  running,           (* the goal handle that task was started with         *)
  _base_goal_handle,
  _user_failure,
  alive              (* FALSE: an exception left the executor              *)

serverVars == <<status, request, execution, running, _base_goal_handle,
                _user_failure, alive>>

Terminal    == {"SUCCEEDED", "ABORTED", "CANCELED"}
Uncanceled  == {"ACCEPTED", "EXECUTING"}
GoalStatus  == {"unknown", "CANCELING"} \cup Uncanceled \cup Terminal
InHandling  == {"checked", "asking", "accepted", "registered"}
RequestPc   == {"none", "rejected", "done", "raised"} \cup InHandling
InExecution == {"prepare", "check", "inner", "cancel_normal", "cancel_forever"}
ExecutionPc == {"none", "ended"} \cup InExecution

ServerTypeOK ==
  /\ status \in [Goals -> GoalStatus]
  /\ request \in [Goals -> RequestPc]
  /\ execution \in [Goals -> ExecutionPc]
  /\ running \in [Goals -> Goals \cup {NoGoal}]
  /\ _base_goal_handle \in Goals \cup {NoGoal}
  /\ _user_failure \in BOOLEAN /\ alive \in BOOLEAN

ServerInit ==
  /\ status = [g \in Goals |-> "unknown"]
  /\ request = [g \in Goals |-> "none"]
  /\ execution = [g \in Goals |-> "none"]
  /\ running = [g \in Goals |-> NoGoal]
  /\ _base_goal_handle = NoGoal
  /\ _user_failure = FALSE /\ alive = TRUE

InRequest == {g \in Goals : request[g] \in InHandling}

\* Mutant: a goal that executes no longer counts.
is_valid_goal_OnlyAccepted ==
  /\ _base_goal_handle # NoGoal
  /\ status[_base_goal_handle] = "ACCEPTED"

_no_lock_is_valid_goal ==
  /\ _base_goal_handle # NoGoal
  /\ status[_base_goal_handle] \in Uncanceled
-----------------------------------------------------------------------------
(* Goal requests: _wrap_goal_callback, goal_callback, then, with the goal  *)
(* accepted and the client answered, _handle_accepted_callback.            *)

CheckValid(g) ==
  /\ alive
  /\ request[g] = "none"
  /\ Cardinality(InRequest) < MaxRequests
  /\ request' = [request EXCEPT ![g] = IF _no_lock_is_valid_goal THEN "rejected"
                                                                 ELSE "checked"]
  /\ UNCHANGED <<status, execution, running, _base_goal_handle, _user_failure, alive>>

CheckFailure(g) ==
  /\ alive
  /\ request[g] = "checked"
  /\ request' = [request EXCEPT ![g] = IF _user_failure THEN "rejected" ELSE "asking"]
  /\ UNCHANGED <<status, execution, running, _base_goal_handle, _user_failure, alive>>

(* on_goal_received accepts, *)
UserAccepts(g) ==
  /\ alive
  /\ request[g] = "asking"
  /\ request' = [request EXCEPT ![g] = "accepted"]
  /\ status' = [status EXCEPT ![g] = "ACCEPTED"]
  /\ UNCHANGED <<execution, running, _base_goal_handle, _user_failure, alive>>

(* ... or refuses or raises. *)
UserRefuses(g, raises) ==
  /\ alive
  /\ request[g] = "asking"
  /\ request' = [request EXCEPT ![g] = "rejected"]
  /\ _user_failure' = (_user_failure \/ raises)
  /\ UNCHANGED <<status, execution, running, _base_goal_handle, alive>>

\* Mutant: a handle that can still be cancelled is not replaced.
RegisterGoal_KeepsOld(g) ==
  /\ alive
  /\ request[g] = "accepted"
  /\ _base_goal_handle' =
       IF _base_goal_handle # NoGoal /\ status[_base_goal_handle] \notin Terminal
         THEN _base_goal_handle ELSE g
  /\ request' = [request EXCEPT ![g] = "registered"]
  /\ UNCHANGED <<status, execution, running, _user_failure, alive>>

(* The section under the lock.  The handle is replaced before it is tested, *)
(* so what is aborted is the new goal, when it is already being cancelled.  *)
RegisterGoal(g) ==
  /\ alive
  /\ request[g] = "accepted"
  /\ _base_goal_handle' = g
  /\ status' = IF status[g] \in Uncanceled THEN status
                                           ELSE [status EXCEPT ![g] = "ABORTED"]
  /\ request' = [request EXCEPT ![g] = "registered"]
  /\ UNCHANGED <<execution, running, _user_failure, alive>>

(* self._base_goal_handle.execute(), after the lock is released: whichever  *)
(* goal is there by now.                                                   *)
Execute(g) ==
  /\ alive
  /\ request[g] = "registered"
  /\ LET h == _base_goal_handle IN
       IF status[h] \in {"ACCEPTED", "CANCELING"}
         THEN /\ status' = [status EXCEPT ![h] = IF @ = "ACCEPTED" THEN "EXECUTING"
                                                                   ELSE @]
              /\ running' = [running EXCEPT ![g] = h]
              /\ execution' = [execution EXCEPT ![g] = "prepare"]
              /\ request' = [request EXCEPT ![g] = "done"]
              /\ UNCHANGED alive
         ELSE /\ request' = [request EXCEPT ![g] = "raised"]
              /\ alive' = FALSE
              /\ UNCHANGED <<status, running, execution>>
  /\ UNCHANGED <<_base_goal_handle, _user_failure>>
-----------------------------------------------------------------------------
(* Cancel requests: rclpy offers the callback only goals that can still be *)
(* cancelled.  One that is refused changes nothing.                        *)

CancelAccepted(g) ==
  /\ alive
  /\ status[g] \in Uncanceled
  /\ status' = [status EXCEPT ![g] = "CANCELING"]
  /\ UNCHANGED <<request, execution, running, _base_goal_handle, _user_failure, alive>>

CancelRaises(g) ==
  /\ alive
  /\ status[g] \in Uncanceled
  /\ _user_failure' = TRUE
  /\ UNCHANGED <<status, request, execution, running, _base_goal_handle, alive>>
-----------------------------------------------------------------------------
(* The execution callback. *)

At(t, pc) == alive /\ execution[t] = pc

Goto(t, pc) == execution' = [execution EXCEPT ![t] = pc]

(* prepare_loop and create_rate succeed, or one of them raises. *)
Prepare(t, raises) ==
  /\ At(t, "prepare")
  /\ Goto(t, IF raises THEN "cancel_forever" ELSE "check")
  /\ UNCHANGED <<status, request, running, _base_goal_handle, _user_failure, alive>>

\* Mutant: a cancel request is not looked for.
LoopTest_Deaf(t) ==
  /\ At(t, "check")
  /\ Goto(t, "inner")
  /\ UNCHANGED <<status, request, running, _base_goal_handle, _user_failure, alive>>

(* The test of the while loop. *)
LoopTest(t) ==
  /\ At(t, "check")
  /\ Goto(t, IF status[running[t]] = "CANCELING" THEN "cancel_normal" ELSE "inner")
  /\ UNCHANGED <<status, request, running, _base_goal_handle, _user_failure, alive>>

(* loop_inner returns None and give_feedback is published. *)
LoopContinues(t) ==
  /\ At(t, "inner")
  /\ Goto(t, "check")
  /\ UNCHANGED <<status, request, running, _base_goal_handle, _user_failure, alive>>

(* loop_inner or give_feedback raises. *)
LoopRaises(t) ==
  /\ At(t, "inner")
  /\ Goto(t, "cancel_forever")
  /\ UNCHANGED <<status, request, running, _base_goal_handle, _user_failure, alive>>

(* loop_inner returns True or False.  A handle already in a terminal state  *)
(* refuses; the task ends all the same.                                    *)
LoopReturns(t, success) ==
  /\ At(t, "inner")
  /\ Goto(t, "ended")
  /\ LET h == running[t] IN
       status' = IF status[h] \in Terminal THEN status
                 ELSE [status EXCEPT ![h] = IF success THEN "SUCCEEDED" ELSE "ABORTED"]
  /\ UNCHANGED <<request, running, _base_goal_handle, _user_failure, alive>>

CancelNormal(t) ==
  /\ At(t, "cancel_normal")
  /\ Goto(t, "ended")
  /\ status' = [status EXCEPT ![running[t]] = IF @ = "CANCELING" THEN "CANCELED" ELSE @]
  /\ UNCHANGED <<request, running, _base_goal_handle, _user_failure, alive>>

\* Mutant: canceled() is called without regard to the state of the goal.
CancelForever_Anyhow(t) ==
  /\ At(t, "cancel_forever")
  /\ Goto(t, "ended")
  /\ status' = [status EXCEPT ![running[t]] = "CANCELED"]
  /\ _user_failure' = TRUE
  /\ UNCHANGED <<request, running, _base_goal_handle, alive>>

(* canceled() is legal only of a goal that is being cancelled.  Otherwise it *)
(* raises before _user_failure is set, and rclpy aborts the goal.           *)
CancelForever(t) ==
  /\ At(t, "cancel_forever")
  /\ Goto(t, "ended")
  /\ LET h == running[t] IN
       IF status[h] = "CANCELING"
         THEN /\ status' = [status EXCEPT ![h] = "CANCELED"]
              /\ _user_failure' = TRUE
         ELSE /\ status' = [status EXCEPT ![h] = IF @ \in Terminal THEN @ ELSE "ABORTED"]
              /\ UNCHANGED _user_failure
  /\ UNCHANGED <<request, running, _base_goal_handle, alive>>
-----------------------------------------------------------------------------
RequestStep(g) ==
  \/ CheckFailure(g)
  \/ UserAccepts(g)
  \/ \E raises \in BOOLEAN : UserRefuses(g, raises)
  \/ RegisterGoal(g)
  \/ Execute(g)

ExecutionStep(t) ==
  \/ \E raises \in BOOLEAN : Prepare(t, raises)
  \/ LoopTest(t)
  \/ LoopContinues(t)
  \/ LoopRaises(t)
  \/ \E success \in BOOLEAN : LoopReturns(t, success)
  \/ CancelNormal(t)
  \/ CancelForever(t)

ServerNext ==
  \E g \in Goals :
    \/ CheckValid(g) \/ RequestStep(g)
    \/ CancelAccepted(g) \/ CancelRaises(g)
    \/ ExecutionStep(g)

ServerSafety == ServerInit /\ [][ServerNext]_serverVars

(* The executor has threads to spare: a request being handled and a task   *)
(* being run go on.                                                        *)
ServerFairness ==
  \A g \in Goals : WF_serverVars(RequestStep(g)) /\ WF_serverVars(ExecutionStep(g))

ServerSpec == ServerSafety /\ ServerFairness
-----------------------------------------------------------------------------
(* Properties. *)

\* While requests are handled one at a time (MaxRequests = 1), a goal that
\* nobody has cancelled keeps every other goal out: is_valid_goal, read when a
\* request arrives, is still good when the goal is registered.  "This server
\* only allows one goal at a time."
OneUncanceledGoal ==
  \A g, h \in Goals :
    status[g] \in Uncanceled /\ status[h] \in Uncanceled => g = h

\* While requests are handled one at a time, no handle is worked on by two
\* tasks.
OneTaskPerGoal ==
  \A s, t \in Goals :
    running[s] # NoGoal /\ running[s] = running[t] => s = t

\* A goal that was accepted is started, and one whose cancellation was accepted
\* comes to an end.
GoalsGetOn ==
  \A g \in Goals :
    /\ status[g] = "ACCEPTED" ~> (status[g] # "ACCEPTED" \/ ~alive)
    /\ status[g] = "CANCELING" ~> (status[g] \in Terminal \/ ~alive)
-----------------------------------------------------------------------------
(* A goal the client was told nothing of yet, or was refused, is that in    *)
(* the abstract server too; accepted but not started counts as executing.  *)
PromisedTo(g) ==
  CASE status[g] = "ACCEPTED" -> "EXECUTING"
    [] request[g] = "rejected" -> "rejected"
    [] OTHER -> status[g]

Abstract == INSTANCE GoalServer WITH goal_status <- [g \in Goals |-> PromisedTo(g)]

\* Handling one request at a time, the server keeps its promise to clients.
\* (With MaxRequests above 1 it does not: two goals pass is_valid_goal.)
KeepsPromise == Abstract!Promise
=============================================================================
