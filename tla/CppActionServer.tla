--------------------------- MODULE CppActionServer ---------------------------
(***************************************************************************)
(* The action server the C++ nodes are built on: GentlerActionServer       *)
(* (gentler_action_server.cpp) and the shutdown of its node                *)
(* (spin_with_graceful_shutdown).                                          *)
(*                                                                         *)
(* Two threads.  spin_once runs every handler on the main thread, and so   *)
(* does request_shutdown; execute() runs on a thread of its own, one goal  *)
(* at a time, since handle_accepted joins the last one first.  The two     *)
(* interleave between any two accesses to goal_mutex_, to stop_requested_  *)
(* or to the goal handle.                                                  *)
(*                                                                         *)
(* rclcpp_action is modelled from how this code uses it: a goal handle     *)
(* throws on a transition its state does not have, and a goal that is      *)
(* accepted is EXECUTING before handle_accepted is called.  The callbacks  *)
(* of the user return anything, and those of the loop may throw in a node    *)
(* where user_throws is set.                                               *)
(***************************************************************************)
CONSTANTS
  Goals,       (* goal ids; each is requested at most once                 *)
  NoGoal       (* no goal handle                                           *)

ASSUME CppAssumption == NoGoal \notin Goals

VARIABLES
  goal_status,          (* the goal handles' states; "unknown", "rejected" *)
  preempt_active_goal,  (* config_.preempt_active_goal                     *)
  stop_requested,
  active_goal_handle,
  main_pc, main_goal,      (* the main thread and the handle it works on   *)
  thread_pc, thread_goal,  (* execution_thread_ and its goal_handle        *)
  user_throws,          (* prepare_loop and loop_inner may throw; fixed    *)
  alive                    (* FALSE: std::terminate                        *)

mainVars   == <<main_pc, main_goal>>
threadVars == <<thread_pc, thread_goal>>
config     == <<preempt_active_goal, user_throws>>
cppVars    == <<goal_status, config, stop_requested, active_goal_handle,
                mainVars, threadVars, alive>>

Promised == INSTANCE GoalServer

Underway == {"EXECUTING", "CANCELING"}
Ended    == {"SUCCEEDED", "ABORTED", "CANCELED"}
Handles  == Goals \cup {NoGoal}

(* request_shutdown, from the raised flag on. *)
Stopping == {"locking", "aborting", "ending", "down"}
MainPc   == {"spin", "accepting", "joining", "cancelling"} \cup Stopping

(* execute(), while the goal is still its business. *)
Verdicts == {"succeed", "fail", "cancel"}
Live     == {"prepare", "top", "preempted?", "canceled?", "inner", "caught", "abort"}
              \cup Verdicts
ThreadPc == {"none", "reset", "done"} \cup Live

CppTypeOK ==
  /\ goal_status \in [Goals -> {"unknown", "rejected"} \cup Underway \cup Ended]
  /\ preempt_active_goal \in BOOLEAN /\ user_throws \in BOOLEAN
  /\ stop_requested \in BOOLEAN /\ alive \in BOOLEAN
  /\ active_goal_handle \in Handles
  /\ main_pc \in MainPc /\ main_goal \in Handles
  /\ thread_pc \in ThreadPc /\ thread_goal \in Handles

CppInit ==
  /\ goal_status = [g \in Goals |-> "unknown"]
  /\ preempt_active_goal \in BOOLEAN /\ user_throws \in BOOLEAN
  /\ stop_requested = FALSE /\ alive = TRUE
  /\ active_goal_handle = NoGoal
  /\ main_pc = "spin" /\ main_goal = NoGoal
  /\ thread_pc = "none" /\ thread_goal = NoGoal

IsActive(h) == h \in Goals /\ goal_status[h] \in Underway
Becomes(g, st) == goal_status' = [goal_status EXCEPT ![g] = st]
-----------------------------------------------------------------------------
(* The main thread: handle_goal, handle_accepted, handle_cancel. *)

MainAt(pc) == alive /\ main_pc = pc
MainGoes(pc, g) == main_pc' = pc /\ main_goal' = g

\* Mutant: the test for another goal is dropped.
Refusing_NotBusy == stop_requested

Refusing == stop_requested \/ (~preempt_active_goal /\ IsActive(active_goal_handle))

(* A goal is refused without asking the user; also while the node flushes. *)
RefuseGoal(g) ==
  /\ alive /\ main_pc \in {"spin", "down"}
  /\ goal_status[g] = "unknown"
  /\ Refusing
  /\ Becomes(g, "rejected")
  /\ UNCHANGED <<config, stop_requested, active_goal_handle, mainVars,
                 threadVars, alive>>

(* on_goal_received; a goal it does not like, or that is not JSON, is      *)
(* refused.                                                                *)
ReceiveGoal(g, accepts) ==
  /\ MainAt("spin")
  /\ goal_status[g] = "unknown"
  /\ ~Refusing
  /\ IF accepts THEN Becomes(g, "EXECUTING") /\ MainGoes("accepting", g)
                ELSE Becomes(g, "rejected") /\ UNCHANGED mainVars
  /\ UNCHANGED <<config, stop_requested, active_goal_handle, threadVars, alive>>

(* handle_accepted up to the join; its return on stop_requested_ is never   *)
(* taken, the flag being raised by this same thread.                       *)
HandleAccepted ==
  /\ MainAt("accepting")
  /\ active_goal_handle' = main_goal
  /\ MainGoes("joining", main_goal)
  /\ UNCHANGED <<goal_status, config, stop_requested, threadVars, alive>>

StartThread ==
  /\ MainAt("joining")
  /\ thread_pc \in {"none", "done"}
  /\ thread_pc' = "prepare" /\ thread_goal' = main_goal
  /\ MainGoes("spin", NoGoal)
  /\ UNCHANGED <<goal_status, config, stop_requested, active_goal_handle, alive>>

(* handle_cancel is asked about goals that can be cancelled; on_cancel_received *)
(* agrees, *)
ReceiveCancel(g) ==
  /\ MainAt("spin")
  /\ goal_status[g] = "EXECUTING"
  /\ MainGoes("cancelling", g)
  /\ UNCHANGED <<goal_status, config, stop_requested, active_goal_handle,
                 threadVars, alive>>

(* ... and the goal is cancelled, if it has not ended meanwhile. *)
CancelGoal ==
  /\ MainAt("cancelling")
  /\ IF goal_status[main_goal] = "EXECUTING" THEN Becomes(main_goal, "CANCELING")
                                              ELSE UNCHANGED goal_status
  /\ MainGoes("spin", NoGoal)
  /\ UNCHANGED <<config, stop_requested, active_goal_handle, threadVars, alive>>
-----------------------------------------------------------------------------
(* request_shutdown, on the main thread. *)

RequestShutdown ==
  /\ MainAt("spin")
  /\ stop_requested' = TRUE
  /\ MainGoes("locking", NoGoal)
  /\ UNCHANGED <<goal_status, config, active_goal_handle, threadVars, alive>>

\* Mutant: the handle is reset before it is copied.
TakeHandle_Reset ==
  /\ MainAt("locking")
  /\ active_goal_handle' = NoGoal
  /\ MainGoes("aborting", NoGoal)
  /\ UNCHANGED <<goal_status, config, stop_requested, threadVars, alive>>

TakeHandle ==
  /\ MainAt("locking")
  /\ active_goal_handle' = NoGoal
  /\ MainGoes("aborting", active_goal_handle)
  /\ UNCHANGED <<goal_status, config, stop_requested, threadVars, alive>>

(* An abort that comes too late throws, and that is caught. *)
AbortTaken ==
  /\ MainAt("aborting")
  /\ IF IsActive(main_goal) THEN Becomes(main_goal, "ABORTED") ELSE UNCHANGED goal_status
  /\ MainGoes("ending", NoGoal)
  /\ UNCHANGED <<config, stop_requested, active_goal_handle, threadVars, alive>>

JoinLast ==
  /\ MainAt("ending")
  /\ thread_pc \in {"none", "done"}
  /\ thread_pc' = "none" /\ thread_goal' = NoGoal
  /\ MainGoes("down", NoGoal)
  /\ UNCHANGED <<goal_status, config, stop_requested, active_goal_handle, alive>>
-----------------------------------------------------------------------------
(* execute(). *)

ThreadAt(pc) == alive /\ thread_pc = pc
ThreadGoes(pc) == thread_pc' = pc /\ UNCHANGED thread_goal

PrepareLoop(throws) ==
  /\ ThreadAt("prepare")
  /\ throws => user_throws
  /\ ThreadGoes(IF throws THEN "caught" ELSE "top")
  /\ UNCHANGED <<goal_status, config, stop_requested, active_goal_handle,
                 mainVars, alive>>

CheckStop ==
  /\ ThreadAt("top")
  /\ ThreadGoes(IF stop_requested THEN "done" ELSE "preempted?")
  /\ UNCHANGED <<goal_status, config, stop_requested, active_goal_handle,
                 mainVars, alive>>

\* Mutant: a preempted goal goes on.
CheckPreempted_Deaf ==
  /\ ThreadAt("preempted?")
  /\ ThreadGoes("canceled?")
  /\ UNCHANGED <<goal_status, config, stop_requested, active_goal_handle,
                 mainVars, alive>>

CheckPreempted ==
  /\ ThreadAt("preempted?")
  /\ LET preempted == active_goal_handle # thread_goal IN
       /\ ThreadGoes(IF preempted THEN "done" ELSE "canceled?")
       /\ IF preempted /\ ~stop_requested /\ IsActive(thread_goal)
            THEN Becomes(thread_goal, "ABORTED")
            ELSE UNCHANGED goal_status
  /\ UNCHANGED <<config, stop_requested, active_goal_handle, mainVars, alive>>

CheckCanceled ==
  /\ ThreadAt("canceled?")
  /\ ThreadGoes(IF goal_status[thread_goal] = "CANCELING" THEN "cancel" ELSE "inner")
  /\ UNCHANGED <<goal_status, config, stop_requested, active_goal_handle,
                 mainVars, alive>>

LoopStatus == {"RUNNING", "SUCCESS", "FAILURE"}

(* loop_inner returns, and stop_requested_ is looked at again. *)
LoopInner(loop_status) ==
  /\ ThreadAt("inner")
  /\ ThreadGoes(CASE stop_requested          -> "done"
                  [] ~stop_requested /\ loop_status = "RUNNING" -> "top"
                  [] ~stop_requested /\ loop_status = "SUCCESS" -> "succeed"
                  [] ~stop_requested /\ loop_status = "FAILURE" -> "fail")
  /\ UNCHANGED <<goal_status, config, stop_requested, active_goal_handle,
                 mainVars, alive>>

LoopThrows ==
  /\ ThreadAt("inner")
  /\ user_throws
  /\ ThreadGoes("caught")
  /\ UNCHANGED <<goal_status, config, stop_requested, active_goal_handle,
                 mainVars, alive>>

Verdict == CASE thread_pc = "succeed" -> "SUCCEEDED"
             [] thread_pc = "fail"    -> "ABORTED"
             [] thread_pc = "cancel"  -> "CANCELED"

(* succeed(), abort() or canceled(): throws, and is caught, if shutdown's   *)
(* abort was first.                                                        *)
ReportResult ==
  /\ alive /\ thread_pc \in Verdicts
  /\ IF IsActive(thread_goal)
       THEN Becomes(thread_goal, Verdict) /\ ThreadGoes("reset")
       ELSE UNCHANGED goal_status /\ ThreadGoes("caught")
  /\ UNCHANGED <<config, stop_requested, active_goal_handle, mainVars, alive>>

CheckActive ==
  /\ ThreadAt("caught")
  /\ ThreadGoes(IF IsActive(thread_goal) THEN "abort" ELSE "reset")
  /\ UNCHANGED <<goal_status, config, stop_requested, active_goal_handle,
                 mainVars, alive>>

(* The last abort is outside the try: if shutdown's comes between, this one *)
(* throws out of the thread.                                               *)
AbortLast ==
  /\ ThreadAt("abort")
  /\ IF IsActive(thread_goal)
       THEN Becomes(thread_goal, "ABORTED") /\ ThreadGoes("reset") /\ UNCHANGED alive
       ELSE alive' = FALSE /\ UNCHANGED <<goal_status, threadVars>>
  /\ UNCHANGED <<config, stop_requested, active_goal_handle, mainVars>>

\* Mutant: the handle is reset whoever holds it.
ResetHandle_Any ==
  /\ ThreadAt("reset")
  /\ active_goal_handle' = NoGoal
  /\ ThreadGoes("done")
  /\ UNCHANGED <<goal_status, config, stop_requested, mainVars, alive>>

ResetHandle ==
  /\ ThreadAt("reset")
  /\ active_goal_handle' = IF active_goal_handle = thread_goal THEN NoGoal
                                                               ELSE active_goal_handle
  /\ ThreadGoes("done")
  /\ UNCHANGED <<goal_status, config, stop_requested, mainVars, alive>>
-----------------------------------------------------------------------------
MainStep ==
  \/ HandleAccepted \/ StartThread \/ CancelGoal
  \/ TakeHandle \/ AbortTaken \/ JoinLast

ThreadOwnStep ==
  \/ CheckStop \/ CheckPreempted \/ CheckCanceled \/ ReportResult
  \/ CheckActive \/ AbortLast \/ ResetHandle

UserStep ==
  \/ \E throws \in BOOLEAN : PrepareLoop(throws)
  \/ \E st \in LoopStatus : LoopInner(st)
  \/ LoopThrows

CppNext ==
  \/ \E g \in Goals :
       \/ RefuseGoal(g) \/ ReceiveCancel(g)
       \/ \E accepts \in BOOLEAN : ReceiveGoal(g, accepts)
  \/ RequestShutdown
  \/ MainStep \/ ThreadOwnStep \/ UserStep

CppSafety == CppInit /\ [][CppNext]_cppVars

(* Both threads run, and the user's callbacks return. *)
CppSpec ==
  /\ CppSafety
  /\ WF_cppVars(MainStep) /\ WF_cppVars(ThreadOwnStep) /\ WF_cppVars(UserStep)
-----------------------------------------------------------------------------
(* Properties. *)

\* A goal is aborted only because its loop failed or threw, the node shuts
\* down, or a newer goal holds the active handle: never because a goal that had
\* ended already took the handle away with it.
AbortsAreDue ==
  [][\A g \in Goals :
       goal_status[g] # "ABORTED" /\ goal_status'[g] = "ABORTED" =>
         \/ stop_requested
         \/ thread_goal = g /\ thread_pc \in {"fail", "abort"}
         \/ /\ preempt_active_goal
            /\ active_goal_handle \in Goals \ {g}
            /\ goal_status[active_goal_handle] # "unknown"
    ]_cppVars

\* Without preemption the server keeps the promise its Python sibling makes:
\* no goal is accepted while another is executing.
CppKeepsPromise == [][preempt_active_goal \/ Promised!PromiseNext]_goal_status

\* Once request_shutdown has got past its abort, no goal is left under way.
ShutdownEndsGoals ==
  main_pc \in {"ending", "down"} => \A g \in Goals : goal_status[g] \notin Underway

\* Only a callback that throws while the node shuts down can terminate it.
TerminatesOnlyOnThrow == ~alive => user_throws /\ stop_requested
=============================================================================
