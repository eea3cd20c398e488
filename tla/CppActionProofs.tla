--------------------------- MODULE CppActionProofs ---------------------------
(***************************************************************************)
(* Proofs about the C++ action server and the actions built on it: for any *)
(* set of goals, with and without preemption, whether or not the user's    *)
(* callbacks throw.                                                        *)
(***************************************************************************)
EXTENDS LoiterPatrol, TargetActions, TLAPS

\* A goal under way is in somebody's hands: of the handler that accepted it, of
\* the thread that runs it, or of the shutdown that is about to abort it.
InHands(g) ==
  \/ main_pc \in {"accepting", "joining"} /\ main_goal = g
  \/ main_pc \in {"spin", "cancelling", "accepting", "joining"} /\ thread_goal = g
       /\ thread_pc \in Live
  \/ main_pc = "locking" /\ active_goal_handle = g
  \/ main_pc = "aborting" /\ main_goal = g

\* What the main thread knows.
MainOK ==
  /\ stop_requested <=> main_pc \in Stopping
  /\ main_pc \in {"accepting", "joining", "cancelling"} =>
       main_goal \in Goals /\ goal_status[main_goal] \in Underway \cup Ended
  /\ main_pc = "joining" => active_goal_handle = main_goal
  /\ main_pc \in {"accepting", "joining"} =>
       /\ goal_status[main_goal] \in Underway
       /\ thread_pc # "none" => thread_goal # main_goal
       /\ ~preempt_active_goal => thread_pc \notin Live

\* What the thread of the loop knows.
ThreadOK ==
  /\ thread_pc # "none" =>
       thread_goal \in Goals /\ goal_status[thread_goal] \in Underway \cup Ended
  /\ thread_pc \in Live /\ ~stop_requested => goal_status[thread_goal] \in Underway
  /\ thread_pc \in Live /\ main_pc \in {"spin", "cancelling", "accepting", "locking"} =>
       active_goal_handle = thread_goal
  /\ thread_pc = "reset" => goal_status[thread_goal] \in Ended
  /\ thread_pc = "cancel" => goal_status[thread_goal] # "EXECUTING"
  /\ thread_pc = "abort" => user_throws
  /\ thread_pc = "caught" /\ ~user_throws => goal_status[thread_goal] \in Ended
  /\ ~alive => user_throws /\ stop_requested

CppInv ==
  /\ CppTypeOK /\ MainOK /\ ThreadOK
  /\ \A g \in Goals : goal_status[g] \in Underway => InHands(g)

USE CppAssumption
USE DEF Underway, Ended, Handles, Stopping, MainPc, Verdicts, Live, ThreadPc

LEMMA CppInitInv == CppInit => CppInv
  BY DEF CppInit, CppInv, CppTypeOK, MainOK, ThreadOK, InHands

\* The handlers and the shutdown preserve the invariant.
LEMMA MainInv ==
  ASSUME CppInv, NEW g \in Goals,
         \/ RefuseGoal(g) \/ ReceiveCancel(g)
         \/ \E accepts \in BOOLEAN : ReceiveGoal(g, accepts)
         \/ RequestShutdown \/ MainStep
  PROVE  CppInv'
<1> USE DEF CppInv, CppTypeOK, MainOK, ThreadOK, InHands, MainAt, MainGoes, Becomes,
            IsActive, mainVars, threadVars, config
<1>1. CASE RefuseGoal(g)
  BY <1>1 DEF RefuseGoal
<1>2. CASE ReceiveCancel(g)
  BY <1>2 DEF ReceiveCancel
<1>3. ASSUME NEW accepts \in BOOLEAN, ReceiveGoal(g, accepts) PROVE CppInv'
  <2>1. CASE accepts
    BY <1>3, <2>1 DEF ReceiveGoal, Refusing
  <2>2. CASE ~accepts
    BY <1>3, <2>2 DEF ReceiveGoal
  <2> QED
    BY <2>1, <2>2
<1>4. CASE RequestShutdown
  BY <1>4 DEF RequestShutdown
<1>5. CASE HandleAccepted
  BY <1>5 DEF HandleAccepted
<1>6. CASE StartThread
  BY <1>6 DEF StartThread
<1>7. CASE CancelGoal
  BY <1>7 DEF CancelGoal
<1>8. CASE TakeHandle
  BY <1>8 DEF TakeHandle
<1>9. CASE AbortTaken
  BY <1>9 DEF AbortTaken
<1>10. CASE JoinLast
  BY <1>10 DEF JoinLast
<1> QED
  BY <1>1, <1>2, <1>3, <1>4, <1>5, <1>6, <1>7, <1>8, <1>9, <1>10 DEF MainStep

\* So do the steps of execute().
LEMMA ThreadInv ==
  ASSUME CppInv, ThreadOwnStep \/ UserStep
  PROVE  CppInv'
<1> USE DEF CppInv, CppTypeOK, MainOK, ThreadOK, InHands, ThreadAt, ThreadGoes, Becomes,
            IsActive, mainVars, threadVars, config
<1>1. CASE CheckStop
  BY <1>1 DEF CheckStop
<1>2. CASE CheckPreempted
  BY <1>2 DEF CheckPreempted
<1>3. CASE CheckCanceled
  BY <1>3 DEF CheckCanceled
<1>4. CASE ReportResult
  BY <1>4 DEF ReportResult, Verdict
<1>5. CASE CheckActive
  BY <1>5 DEF CheckActive
<1>6. CASE AbortLast
  <2>1. CASE thread_goal \in Goals /\ goal_status[thread_goal] \in Underway
    BY <1>6, <2>1 DEF AbortLast
  <2>2. CASE ~(thread_goal \in Goals /\ goal_status[thread_goal] \in Underway)
    BY <1>6, <2>2 DEF AbortLast
  <2>3. QED
    BY <2>1, <2>2
<1>7. CASE ResetHandle
  BY <1>7 DEF ResetHandle
<1>8. ASSUME NEW throws \in BOOLEAN, PrepareLoop(throws) PROVE CppInv'
  BY <1>8 DEF PrepareLoop
<1>9. ASSUME NEW st \in LoopStatus, LoopInner(st) PROVE CppInv'
  BY <1>9 DEF LoopInner, LoopStatus
<1>10. CASE LoopThrows
  BY <1>10 DEF LoopThrows
<1> QED
  BY <1>1, <1>2, <1>3, <1>4, <1>5, <1>6, <1>7, <1>8, <1>9, <1>10 DEF ThreadOwnStep, UserStep

LEMMA CppStepInv == CppInv /\ [CppNext]_cppVars => CppInv'
<1>1. ASSUME CppInv, UNCHANGED cppVars PROVE CppInv'
  BY <1>1 DEF CppInv, CppTypeOK, MainOK, ThreadOK, InHands, cppVars, config, mainVars, threadVars
<1>2. ASSUME CppInv, CppNext PROVE CppInv'
  <2>1. CASE \E g \in Goals :
               \/ RefuseGoal(g) \/ ReceiveCancel(g)
               \/ \E accepts \in BOOLEAN : ReceiveGoal(g, accepts)
    BY <1>2, <2>1, MainInv
  <2>2. CASE RequestShutdown \/ MainStep
    <3>1. CASE Goals = {}
      BY <1>2, <2>2, <3>1
      DEF RequestShutdown, MainStep, HandleAccepted, StartThread, CancelGoal, TakeHandle,
          AbortTaken, JoinLast, CppInv, CppTypeOK, MainOK, ThreadOK, MainAt, MainGoes,
          IsActive, mainVars, threadVars, config
    <3>2. CASE Goals # {}
      BY <1>2, <2>2, <3>2, MainInv
    <3> QED
      BY <3>1, <3>2
  <2>3. CASE ThreadOwnStep \/ UserStep
    BY <1>2, <2>3, ThreadInv
  <2> QED
    BY <1>2, <2>1, <2>2, <2>3 DEF CppNext
<1> QED
  BY <1>1, <1>2

THEOREM CppInvHolds == CppSafety => []CppInv
  BY CppInitInv, CppStepInv, PTL DEF CppSafety

(* The types of the state. *)
THEOREM CppTypes == CppSafety => []CppTypeOK
  BY CppInvHolds, PTL DEF CppInv

(* No goal is left under way by a shutdown: request_shutdown raises the     *)
(* flag, takes the handle under the lock and aborts it, whatever execute()  *)
(* and the handlers were about to do.                                       *)
THEOREM CppShutdownEndsGoals == CppSafety => []ShutdownEndsGoals
<1>1. CppInv => ShutdownEndsGoals
  BY DEF CppInv, CppTypeOK, InHands, ShutdownEndsGoals
<1> QED
  BY <1>1, CppInvHolds, PTL

(* std::terminate, from the abort outside the try, needs a callback that    *)
(* throws and a shutdown.                                                   *)
THEOREM CppTerminatesOnlyOnThrow == CppSafety => []TerminatesOnlyOnThrow
<1>1. CppInv => TerminatesOnlyOnThrow
  BY DEF CppInv, ThreadOK, TerminatesOnlyOnThrow
<1> QED
  BY <1>1, CppInvHolds, PTL

\* What a step does to the goals.
AbortIsDue ==
  \A g \in Goals :
    goal_status[g] # "ABORTED" /\ goal_status'[g] = "ABORTED" =>
      \/ stop_requested
      \/ thread_goal = g /\ thread_pc \in {"fail", "abort"}
      \/ /\ preempt_active_goal
         /\ active_goal_handle \in Goals \ {g}
         /\ goal_status[active_goal_handle] # "unknown"

LEMMA MainAborts ==
  ASSUME CppInv, NEW g \in Goals,
         \/ RefuseGoal(g) \/ ReceiveCancel(g)
         \/ \E accepts \in BOOLEAN : ReceiveGoal(g, accepts)
         \/ RequestShutdown \/ MainStep
  PROVE  AbortIsDue
<1> USE DEF CppInv, CppTypeOK, MainOK, MainAt, Becomes, AbortIsDue
<1>1. CASE RefuseGoal(g) \/ ReceiveCancel(g) \/ \E accepts \in BOOLEAN : ReceiveGoal(g, accepts)
  BY <1>1 DEF RefuseGoal, ReceiveCancel, ReceiveGoal
<1>2. CASE RequestShutdown \/ HandleAccepted \/ StartThread \/ TakeHandle \/ JoinLast
  BY <1>2 DEF RequestShutdown, HandleAccepted, StartThread, TakeHandle, JoinLast
<1>3. CASE CancelGoal
  BY <1>3 DEF CancelGoal
<1>4. CASE AbortTaken
  BY <1>4 DEF AbortTaken, IsActive
<1> QED
  BY <1>1, <1>2, <1>3, <1>4 DEF MainStep

LEMMA ThreadAborts ==
  ASSUME CppInv, ThreadOwnStep \/ UserStep
  PROVE  AbortIsDue
<1> USE DEF CppInv, CppTypeOK, MainOK, ThreadOK, ThreadAt, Becomes, IsActive, AbortIsDue
<1>1. CASE CheckPreempted
  BY <1>1 DEF CheckPreempted
<1>2. CASE ReportResult
  BY <1>2 DEF ReportResult, Verdict
<1>3. CASE AbortLast
  BY <1>3 DEF AbortLast
<1>4. CASE CheckStop \/ CheckCanceled \/ CheckActive \/ ResetHandle \/ UserStep
  BY <1>4 DEF CheckStop, CheckCanceled, CheckActive, ResetHandle, UserStep, PrepareLoop,
              LoopInner, LoopThrows
<1> QED
  BY <1>1, <1>2, <1>3, <1>4 DEF ThreadOwnStep

(* A goal is aborted only by its own failure, a shutdown or a newer goal.    *)
THEOREM CppAbortsAreDue == CppSafety => AbortsAreDue
<1>1. CppInv /\ [CppNext]_cppVars => AbortIsDue \/ UNCHANGED cppVars
  <2> SUFFICES ASSUME CppInv, CppNext PROVE AbortIsDue
    OBVIOUS
  <2>1. CASE Goals = {}
    BY <2>1 DEF AbortIsDue
  <2>2. CASE Goals # {}
    BY <2>2, MainAborts, ThreadAborts DEF CppNext
  <2> QED
    BY <2>1, <2>2
<1>2. AbortsAreDue <=> [][AbortIsDue]_cppVars
  BY PTL DEF AbortsAreDue, AbortIsDue
<1> QED
  BY <1>1, <1>2, CppInvHolds, PTL DEF CppSafety

LEMMA MainKeepsPromise ==
  ASSUME CppInv, ~preempt_active_goal, NEW g \in Goals,
         \/ RefuseGoal(g) \/ ReceiveCancel(g)
         \/ \E accepts \in BOOLEAN : ReceiveGoal(g, accepts)
         \/ RequestShutdown \/ MainStep
  PROVE  Promised!PromiseNext \/ UNCHANGED goal_status
<1> USE DEF CppInv, CppTypeOK, MainOK, MainAt, Becomes, Promised!PromiseNext, Promised!Becomes
<1>1. CASE RefuseGoal(g)
  BY <1>1 DEF RefuseGoal, Promised!Reject
<1>2. ASSUME NEW accepts \in BOOLEAN, ReceiveGoal(g, accepts)
      PROVE  Promised!PromiseNext
  <2>1. \A h \in Goals : goal_status[h] # "EXECUTING"
    BY <1>2 DEF ReceiveGoal, Refusing, IsActive, InHands, ThreadOK
  <2> QED
    BY <1>2, <2>1 DEF ReceiveGoal, Promised!Accept, Promised!Reject
<1>3. CASE CancelGoal
  BY <1>3 DEF CancelGoal, Promised!Cancel
<1>4. CASE AbortTaken
  BY <1>4 DEF AbortTaken, IsActive, Promised!Finish
<1>5. CASE \/ ReceiveCancel(g) \/ RequestShutdown \/ HandleAccepted \/ StartThread
           \/ TakeHandle \/ JoinLast
  BY <1>5 DEF ReceiveCancel, RequestShutdown, HandleAccepted, StartThread, TakeHandle, JoinLast
<1> QED
  BY <1>1, <1>2, <1>3, <1>4, <1>5 DEF MainStep

LEMMA ThreadKeepsPromise ==
  ASSUME CppInv, ThreadOwnStep \/ UserStep
  PROVE  Promised!PromiseNext \/ UNCHANGED goal_status
<1> USE DEF CppInv, CppTypeOK, ThreadOK, ThreadAt, Becomes, IsActive, Promised!PromiseNext,
            Promised!Becomes, Promised!Finish
<1>1. CASE CheckPreempted
  BY <1>1 DEF CheckPreempted
<1>2. CASE ReportResult
  <2>1. CASE IsActive(thread_goal)
    <3>1. goal_status' = [goal_status EXCEPT ![thread_goal] = Verdict]
      BY <1>2, <2>1 DEF ReportResult
    <3>2. CASE thread_pc \in {"succeed", "fail"}
      BY <2>1, <3>1, <3>2 DEF Verdict
    <3>3. CASE thread_pc = "cancel"
      <4>1. goal_status[thread_goal] = "CANCELING"
        BY <2>1, <3>3
      <4> QED
        BY <2>1, <3>1, <3>3, <4>1 DEF Verdict
    <3> QED
      BY <1>2, <3>2, <3>3 DEF ReportResult
  <2>2. CASE ~IsActive(thread_goal)
    BY <1>2, <2>2 DEF ReportResult
  <2> QED
    BY <2>1, <2>2
<1>3. CASE AbortLast
  BY <1>3 DEF AbortLast
<1>4. CASE CheckStop \/ CheckCanceled \/ CheckActive \/ ResetHandle \/ UserStep
  BY <1>4 DEF CheckStop, CheckCanceled, CheckActive, ResetHandle, UserStep, PrepareLoop,
              LoopInner, LoopThrows
<1> QED
  BY <1>1, <1>2, <1>3, <1>4 DEF ThreadOwnStep

(* Without preemption the server implements the abstract GoalServer, as the *)
(* Python server does: no goal is accepted while another executes.          *)
THEOREM CppServerKeepsPromise == CppSafety => Promised!PromiseInit /\ CppKeepsPromise
<1>1. CppInit => Promised!PromiseInit
  BY DEF CppInit, Promised!PromiseInit
<1>2. CppInv /\ [CppNext]_cppVars =>
        preempt_active_goal \/ Promised!PromiseNext \/ UNCHANGED goal_status
  <2>1. ASSUME CppInv, CppNext, ~preempt_active_goal
        PROVE  Promised!PromiseNext \/ UNCHANGED goal_status
    <3>1. CASE Goals = {}
      BY <2>1, <3>1, ThreadKeepsPromise
      DEF CppNext, RequestShutdown, MainStep, HandleAccepted, StartThread, CancelGoal,
          TakeHandle, AbortTaken, JoinLast, IsActive, CppInv, CppTypeOK, MainOK, MainAt
    <3>2. CASE Goals # {}
      BY <2>1, <3>2, MainKeepsPromise, ThreadKeepsPromise DEF CppNext
    <3> QED
      BY <3>1, <3>2
  <2> QED
    BY <2>1 DEF cppVars
<1>3. CppKeepsPromise <=> [][preempt_active_goal \/ Promised!PromiseNext]_goal_status
  BY PTL DEF CppKeepsPromise
<1> QED
  BY <1>1, <1>2, <1>3, CppInvHolds, PTL DEF CppSafety
-----------------------------------------------------------------------------
(***************************************************************************)
(* A cancellation of Evolo's patrol always has the handle of the move_to   *)
(* goal that drives the vehicle: for any number of goals of either server. *)
(* It holds for whatever the server below does: nothing is needed of       *)
(* CppActionServer but that its steps leave the delegate alone.            *)
(***************************************************************************)

\* The goals of the patrol's own generation.
Current(m) == moves[m].stage # "free" /\ ~moves[m].stale

Move == [stage : MoveStage, waypoint : Waypoints, stale : BOOLEAN, canceled : BOOLEAN]

DelegateOK ==
  /\ delegate \in [state : DelegateState, active : Moves \cup {NoMove}]
  /\ moves \in [Moves -> Move]
  /\ current_waypoint_index \in Waypoints

\* There is one such goal at a time: another is sent only after the first is over,
\* which the delegate says, or the loop has just been told.
OneCurrent ==
  /\ \A m, n \in Moves : Current(m) /\ Current(n) => m = n
  /\ delegate.state \in {"IDLE", "SUCCEEDED"} \/ step \in {"switch", "send"}
       => \A m \in Moves : ~Current(m)

\* While an acceptance is being stored, which may have become one of an earlier
\* generation, no goal of this generation can have been accepted.
ResponseOK ==
  callback = "response" =>
    /\ subject \in Moves /\ moves[subject].stage \in {"accepted", "rejected"}
    /\ \A m \in Moves : Current(m) => moves[m].stage \in {"requested", "accepted", "rejected"}

PatrolInv == DelegateOK /\ OneCurrent /\ ResponseOK /\ RunningMoveIsHeld

USE PatrolAssumption
USE DEF DelegateState, MoveStage, Waypoints

LEMMA PatrolInitInv == PatrolInit => PatrolInv
  BY DEF PatrolInit, PatrolInv, DelegateOK, OneCurrent, ResponseOK, RunningMoveIsHeld, Move,
         NoGoalSent, Current

\* A cancellation leaves the stages and generations as they are.
LEMMA CancelKeepsInv ==
  ASSUME PatrolInv, cancel_active_move_to_goal, callback' # "response",
         UNCHANGED <<current_waypoint_index, step>>
  PROVE  PatrolInv'
<1> USE DEF PatrolInv, DelegateOK, Move, cancel_active_move_to_goal
<1>1. DelegateOK'
  <2>1. delegate' \in [state : DelegateState, active : Moves \cup {NoMove}]
    OBVIOUS
  <2>2. ASSUME NEW m \in Moves
        PROVE  (IF m = delegate.active THEN [moves[m] EXCEPT !.canceled = TRUE] ELSE moves[m]) \in Move
    <3> HIDE DEF cancel_active_move_to_goal, Move
    <3>1. moves[m] \in Move
      OBVIOUS
    <3>2. [moves[m] EXCEPT !.canceled = TRUE] \in Move
      BY <3>1 DEF Move
    <3>3. QED
      BY <3>1, <3>2
  <2>3. moves' \in [Moves -> Move]
    <3> HIDE DEF Move
    <3> QED
      BY <2>2
  <2>4. QED
    BY <2>1, <2>3
<1>2. \A m \in Moves : /\ moves'[m].stage = moves[m].stage /\ moves'[m].stale = moves[m].stale
                       /\ m = delegate.active => moves'[m].canceled
                       /\ m # delegate.active => moves'[m] = moves[m]
  OBVIOUS
<1>3. OneCurrent'
  BY <1>2 DEF OneCurrent, Current
<1>4. RunningMoveIsHeld'
  BY <1>2 DEF RunningMoveIsHeld
<1>5. QED
  BY <1>1, <1>3, <1>4 DEF ResponseOK

\* What becomes of the goals sent so far when their generation is over.
LEMMA StaleMove ==
  ASSUME NEW move \in Move
  PROVE  /\ Stale(move) \in Move /\ Stale(move).stage = move.stage
         /\ move.stage # "free" => Stale(move).stale
<1>1. CASE move.stage = "free"
  BY <1>1 DEF Stale, Move
<1>2. CASE move.stage # "free"
  <2>1. Stale(move) = [move EXCEPT !.stale = TRUE, !.canceled = FALSE]
    BY <1>2 DEF Stale
  <2>2. Stale(move) = [stage |-> move.stage, waypoint |-> move.waypoint,
                       stale |-> TRUE, canceled |-> FALSE]
    BY <2>1 DEF Move
  <2>3. QED
    BY <2>2 DEF Move
<1>3. QED
  BY <1>1, <1>2

\* Taking an answer changes that goal alone, and never its generation.
LEMMA TakesOne ==
  ASSUME DelegateOK, NEW m \in Moves, Takes(m)
  PROVE  /\ moves' \in [Moves -> Move]
         /\ \A n \in Moves \ {m} : moves'[n] = moves[n]
         /\ moves[m].stage = "rejected" => moves'[m].stage = "free"
         /\ moves[m].stage # "rejected" => /\ moves'[m].stage = "running"
                                          /\ moves'[m].stale = moves[m].stale
<1> USE DEF DelegateOK, Takes
<1>1. CASE moves[m].stage = "rejected"
  <2>1. NoGoalSent \in Move /\ NoGoalSent.stage = "free"
    BY DEF NoGoalSent, Move
  <2>2. QED
    BY <1>1, <2>1 DEF MoveOver
<1>2. CASE moves[m].stage # "rejected"
  <2>1. moves[m] \in Move /\ moves' = [moves EXCEPT ![m].stage = "running"]
    BY <1>2 DEF MoveComes
  <2>2. [moves[m] EXCEPT !.stage = "running"] \in Move
    BY <2>1 DEF Move
  <2>3. moves'[m] = [moves[m] EXCEPT !.stage = "running"]
    BY <2>1
  <2>4. moves'[m].stage = "running" /\ moves'[m].stale = moves[m].stale
    BY <2>1, <2>3 DEF Move
  <2>5. QED
    BY <1>2, <2>1, <2>2, <2>4
<1>3. QED
  BY <1>1, <1>2

\* After prepare_loop no goal is of the current generation.
LEMMA PrepareKeepsInv ==
  ASSUME PatrolInv, PatrolPrepares PROVE PatrolInv'
<1> USE DEF PatrolInv, DelegateOK, PatrolPrepares
<1>1. \A m \in Moves : moves[m] \in Move /\ moves'[m] = Stale(moves[m])
  OBVIOUS
<1>2. \A m \in Moves : moves'[m] \in Move /\ moves'[m].stage = moves[m].stage
                         /\ (moves'[m].stage # "free" => moves'[m].stale)
  BY <1>1, StaleMove
<1>3. DelegateOK'
  BY <1>2
<1>4. OneCurrent' /\ ResponseOK' /\ RunningMoveIsHeld'
  BY <1>2 DEF OneCurrent, ResponseOK, RunningMoveIsHeld, Current
<1>5. QED
  BY <1>3, <1>4

\* So does the rest of the loop; it sends when there is no current goal.
LEMMA LoopKeepsInv ==
  ASSUME PatrolInv, PatrolLoop PROVE PatrolInv'
<1> USE DEF PatrolInv, DelegateOK, Move
<1>1. CASE PatrolPrepares
  BY <1>1, PrepareKeepsInv
<1>2. CASE LoopLooks
  <2>1. UNCHANGED <<delegate, moves, current_waypoint_index, callback, subject>>
    BY <1>2 DEF LoopLooks
  <2>2. step' \in {"look", "idle?"} \/ (step' = "switch" /\ delegate.state = "SUCCEEDED")
    BY <1>2 DEF LoopLooks, LoopComes
  <2>3. QED
    BY <2>1, <2>2 DEF OneCurrent, ResponseOK, RunningMoveIsHeld, Current
<1>3. CASE LoopSwitches
  BY <1>3 DEF LoopSwitches, InnerAt, OneCurrent, ResponseOK, RunningMoveIsHeld, Current
<1>4. CASE LoopAsksIdle
  <2>1. UNCHANGED <<delegate, moves, current_waypoint_index, callback, subject>>
    BY <1>4 DEF LoopAsksIdle
  <2>2. step' = "look" \/ (step' = "send" /\ delegate.state = "IDLE")
    BY <1>4 DEF LoopAsksIdle, LoopComes
  <2>3. QED
    BY <2>1, <2>2 DEF OneCurrent, ResponseOK, RunningMoveIsHeld, Current
<1>5. CASE send_current_move_to_goal
  <2>1. PICK m \in Moves : /\ moves[m].stage = "free"
                           /\ moves' = [moves EXCEPT ![m] = NewMove(current_waypoint_index)]
    BY <1>5 DEF send_current_move_to_goal
  <2>2. /\ \A n \in Moves : ~Current(n)
        /\ delegate' = [delegate EXCEPT !.state = "WAITING_FOR_ACCEPTANCE"] /\ step' = "look"
        /\ UNCHANGED <<current_waypoint_index, callback, subject>>
    BY <1>5 DEF send_current_move_to_goal, InnerAt, LoopComes, OneCurrent
  <2>3. DelegateOK'
    BY <2>1, <2>2 DEF NewMove
  <2>4. OneCurrent' /\ ResponseOK' /\ RunningMoveIsHeld'
    BY <2>1, <2>2 DEF NewMove, OneCurrent, ResponseOK, RunningMoveIsHeld, Current
  <2>5. QED
    BY <2>3, <2>4
<1>6. QED
  BY <1>1, <1>2, <1>3, <1>4, <1>5 DEF PatrolLoop

\* The answers of move_to: an acceptance is stored with its handle, ...
LEMMA ResponseKeepsInv ==
  ASSUME PatrolInv, ResponseStored \/ \E m \in Moves : ResponseArrives(m)
  PROVE  PatrolInv'
<1> USE DEF PatrolInv, DelegateOK
<1>1. CASE ResponseStored
  <2>1. /\ subject \in Moves /\ moves[subject].stage \in {"accepted", "rejected"}
        /\ callback' = "none" /\ UNCHANGED <<current_waypoint_index, step>>
        /\ Takes(subject)
    BY <1>1 DEF ResponseStored, ResponseOK
  <2>2. DelegateOK'
    <3>1. delegate' \in [state : DelegateState, active : Moves \cup {NoMove}]
      BY <1>1, <2>1 DEF ResponseStored
    <3>2. QED
      BY <2>1, <3>1, TakesOne
  <2>3. /\ delegate'.state \in {"FAILED", "RUNNING"}
        /\ moves[subject].stage # "rejected" => delegate'.active = subject
        /\ \A m \in Moves \ {subject} : moves'[m] = moves[m]
        /\ moves[subject].stage = "rejected" => moves'[subject].stage = "free"
        /\ moves'[subject].stage # "free" /\ ~moves'[subject].stale => Current(subject)
    <3>1. /\ delegate'.state \in {"FAILED", "RUNNING"}
          /\ moves[subject].stage # "rejected" => delegate'.active = subject
      BY <1>1, <2>1 DEF ResponseStored
    <3>2. QED
      BY <2>1, <3>1, TakesOne DEF Current
  <2>4. OneCurrent'
    BY <2>1, <2>3 DEF OneCurrent, Current
  <2>5. RunningMoveIsHeld'
    <3>1. \A m \in Moves \ {subject} : moves[m].stage = "running" => moves[m].stale
      BY <1>1 DEF ResponseStored, ResponseOK, Current
    <3>2. QED
      BY <2>1, <2>3, <3>1 DEF RunningMoveIsHeld
  <2>6. QED
    BY <2>1, <2>2, <2>4, <2>5 DEF ResponseOK
<1>2. ASSUME NEW m \in Moves, ResponseArrives(m) PROVE PatrolInv'
  <2>1. CASE moves[m].stale
    <3>1. /\ Takes(m) /\ callback = "none"
          /\ UNCHANGED <<callback, subject, delegate, current_waypoint_index, step>>
      BY <1>2, <2>1 DEF ResponseArrives, Spinning
    <3>2. DelegateOK'
      BY <3>1, TakesOne
    <3>3. /\ \A n \in Moves \ {m} : moves'[n] = moves[n]
          /\ moves'[m].stage = "free" \/ moves'[m].stale
      BY <2>1, <3>1, TakesOne
    <3>4. OneCurrent' /\ ResponseOK' /\ RunningMoveIsHeld'
      BY <3>1, <3>3 DEF OneCurrent, ResponseOK, RunningMoveIsHeld, Current
    <3>5. QED
      BY <3>2, <3>4
  <2>2. CASE ~moves[m].stale
    <3>1. /\ subject' = m /\ moves[m].stage \in {"accepted", "rejected"}
          /\ UNCHANGED <<moves, delegate, current_waypoint_index, step>>
      BY <1>2, <2>2 DEF ResponseArrives
    <3>2. \A n \in Moves : Current(n) => n = m
      BY <2>2, <3>1 DEF OneCurrent, Current
    <3>3. QED
      BY <3>1, <3>2 DEF OneCurrent, ResponseOK, RunningMoveIsHeld, Current
  <2>3. QED
    BY <2>1, <2>2
<1>3. QED
  BY <1>1, <1>2

\* ... a result takes away the one current goal, ...
LEMMA ResultKeepsInv ==
  ASSUME PatrolInv, NEW m \in Moves, ResultArrives(m) PROVE PatrolInv'
<1> USE DEF PatrolInv, DelegateOK, Move
<1>1. /\ moves' = [moves EXCEPT ![m] = NoGoalSent] /\ callback = "none"
      /\ moves[m].stage # "free"
      /\ UNCHANGED <<callback, subject, current_waypoint_index, step>>
      /\ IF moves[m].stale THEN delegate' = delegate
                           ELSE delegate' = [state |-> ResultState(m), active |-> NoMove]
  BY DEF ResultArrives, Spinning, MoveOver
<1>2. DelegateOK'
  BY <1>1 DEF NoGoalSent, ResultState
<1>3. /\ \A n \in Moves \ {m} : moves'[n] = moves[n]
      /\ moves'[m].stage = "free"
  BY <1>1 DEF NoGoalSent
<1>4. ~moves[m].stale => \A n \in Moves : ~Current(n)'
  BY <1>1, <1>3 DEF OneCurrent, Current
<1>5. OneCurrent' /\ RunningMoveIsHeld'
  <2>1. CASE moves[m].stale
    BY <1>1, <1>3, <2>1 DEF OneCurrent, RunningMoveIsHeld, Current
  <2>2. CASE ~moves[m].stale
    BY <1>4, <2>2 DEF OneCurrent, RunningMoveIsHeld, Current
  <2>3. QED
    BY <2>1, <2>2
<1>6. QED
  BY <1>1, <1>2, <1>5 DEF ResponseOK

\* ... and the server starts no goal by itself.
LEMMA MoveToKeepsInv ==
  ASSUME PatrolInv, NEW m \in Moves, MoveToServer(m) PROVE PatrolInv'
<1> USE DEF PatrolInv, DelegateOK, Move
<1>1. /\ UNCHANGED <<delegate, callback, subject, current_waypoint_index, step>>
      /\ \E st \in {"accepted", "rejected", "succeeded", "failed"} :
           /\ moves' = [moves EXCEPT ![m].stage = st]
           /\ \/ moves[m].stage = "requested" /\ st \in {"accepted", "rejected"}
              \/ moves[m].stage = "running" /\ st \in {"succeeded", "failed"}
  <2>1. UNCHANGED <<delegate, callback, subject, current_waypoint_index, step>>
    BY DEF MoveToServer
  <2>2. CASE moves[m].stage = "requested"
    BY <2>1, <2>2 DEF MoveToServer, MoveComes
  <2>3. CASE moves[m].stage = "running"
    BY <2>1, <2>3 DEF MoveToServer, MoveComes
  <2>4. QED
    BY <2>2, <2>3 DEF MoveToServer
<1>2. DelegateOK'
  BY <1>1
<1>3. /\ \A n \in Moves \ {m} : moves'[n] = moves[n]
      /\ moves'[m].stale = moves[m].stale
      /\ moves[m].stage \in {"requested", "running"} /\ moves'[m].stage # "running"
      /\ moves[m].stage = "requested" => moves'[m].stage \in {"accepted", "rejected"}
      /\ moves'[m].stage # "free"
  BY <1>1
<1>4. OneCurrent' /\ ResponseOK' /\ RunningMoveIsHeld'
  BY <1>1, <1>3 DEF OneCurrent, ResponseOK, RunningMoveIsHeld, Current
<1>5. QED
  BY <1>2, <1>4

LEMMA PatrolStepInv == PatrolInv /\ [PatrolNext]_<<cppVars, patrolVars>> => PatrolInv'
<1> SUFFICES ASSUME PatrolInv, [PatrolNext]_<<cppVars, patrolVars>> PROVE PatrolInv'
  OBVIOUS
<1>1. CASE UNCHANGED patrolVars
  BY <1>1 DEF PatrolInv, DelegateOK, OneCurrent, ResponseOK, RunningMoveIsHeld, Current, patrolVars
<1>2. CASE \E g \in Goals : PatrolGoal(g) \/ PatrolCancel(g)
  BY <1>2, CancelKeepsInv DEF PatrolGoal, PatrolCancel, Spinning
<1>3. ASSUME NEW accepts \in BOOLEAN, PatrolParsed(accepts) PROVE PatrolInv'
  BY <1>3 DEF PatrolParsed, PatrolInv, DelegateOK, OneCurrent, ResponseOK, RunningMoveIsHeld,
              Current
<1>4. CASE ShutdownCancels
  BY <1>4, CancelKeepsInv DEF ShutdownCancels
<1>5. CASE ShutdownGoesOn
  BY <1>5 DEF ShutdownGoesOn, PatrolInv, DelegateOK, OneCurrent, ResponseOK, RunningMoveIsHeld,
              Current
<1>6. CASE PatrolLoop
  BY <1>6, LoopKeepsInv
<1>7. CASE ResponseStored \/ \E m \in Moves : ResponseArrives(m)
  BY <1>7, ResponseKeepsInv
<1>8. ASSUME NEW m \in Moves, ResultArrives(m) PROVE PatrolInv'
  BY <1>8, ResultKeepsInv
<1>9. ASSUME NEW m \in Moves, MoveToServer(m) PROVE PatrolInv'
  BY <1>9, MoveToKeepsInv
<1>10. QED
  BY <1>1, <1>2, <1>3, <1>4, <1>5, <1>6, <1>7, <1>8, <1>9 DEF PatrolNext, patrolVars

\* Whenever a goal of this patrol that nobody has cancelled drives the vehicle, its
\* handle is the one that a cancellation uses: for any goals, moves and any order of
\* the callbacks.
THEOREM PatrolHoldsItsMove == PatrolSafety => []RunningMoveIsHeld
<1>1. PatrolInv => RunningMoveIsHeld
  BY DEF PatrolInv
<1>2. QED
  BY <1>1, PatrolInitInv, PatrolStepInv, PTL DEF PatrolSafety

-----------------------------------------------------------------------------
(***************************************************************************)
(* The loop of Evolo's actions on a target follows a null pointer only      *)
(* when a goal has been requested or cancelled since: for any goals, and    *)
(* any order of the messages.                                              *)
(***************************************************************************)

\* The messages the loop has found there when it comes to a stage, of those it
\* does not test again.
Needed(s) ==
  CASE s \in {"status?", "path?"} -> {}
    [] s = "status" -> {"status"}
    [] s \in {"path", "control?"} -> {"path"}
    [] s \in {"control", "valid path"} -> {"path", "control"}
    [] s = "geofence" -> {"control", "geofence"}
    [] s = "polygons" -> {"control", "polygons"}
    [] OTHER -> {"control"}

\* A goal was requested, or this one cancelled, since the loop ran on its own.
TargetDisturbed ==
  \/ main_pc \in {"cancelling", "accepting", "joining"} \/ receiving # NoGoal
  \/ goal_status[thread_goal] # "EXECUTING"
  \/ \E g \in Goals : goal_status[g] = "rejected"

TargetInv ==
  /\ CppInv
  /\ stage \in Stages /\ receiving \in Handles
  /\ receiving # NoGoal => main_pc = "spin"
  /\ main_pc = "cancelling" => thread_goal = main_goal
  /\ thread_pc # "inner" => stage = "status?"
  /\ thread_pc = "inner" /\ ~TargetDisturbed => Needed(stage) \subseteq cached
  /\ NullOnlyAfterReset

LEMMA TargetInitInv == CppInit /\ TargetInit => TargetInv
  BY CppInitInv DEF CppInit, TargetInit, TargetInv, Stages, NullOnlyAfterReset

\* A step of the server, while no message is touched.  A goal that is disturbed
\* stays so while the thread is in its loop.
LEMMA ServerKeepsTargetInv ==
  ASSUME TargetInv, ~crashed, UNCHANGED targetVars,
         \/ MainStep \/ ThreadOwnStep
         \/ receiving = NoGoal /\ (RequestShutdown \/ \E g \in Goals : RefuseGoal(g))
  PROVE  TargetInv'
<1> USE DEF TargetInv, targetVars, CppTypeOK
<1>1. CppInv'
  BY CppStepInv DEF CppNext
<1>2. /\ stage' = stage /\ receiving' = receiving /\ cached' = cached /\ crashed' = crashed
      /\ stage' \in Stages /\ ~crashed'
      /\ NullOnlyAfterReset'
  BY DEF NullOnlyAfterReset
<1>3. CASE MainStep
  <2>1. CASE HandleAccepted
    <3>1. main_pc = "accepting" /\ main_pc' = "joining" /\ UNCHANGED threadVars
      BY <2>1 DEF HandleAccepted, MainAt, MainGoes
    <3>2. QED
      BY <1>1, <1>2, <3>1 DEF TargetDisturbed, threadVars
  <2>2. CASE StartThread
    <3>1. thread_pc \in {"none", "done"} /\ main_pc = "joining" /\ thread_pc' = "prepare" /\ main_pc' = "spin"
      BY <2>2 DEF StartThread, MainAt, MainGoes
    <3>2. QED
      BY <1>1, <1>2, <3>1
  <2>3. CASE CancelGoal
    <3>1. /\ main_pc = "cancelling" /\ main_pc' = "spin" /\ UNCHANGED threadVars
          /\ main_goal = thread_goal /\ receiving' = NoGoal
          /\ goal_status' = goal_status \/ Becomes(main_goal, "CANCELING")
          /\ goal_status[main_goal] = "EXECUTING" => Becomes(main_goal, "CANCELING")
      BY <1>2, <2>3 DEF CancelGoal, MainAt, MainGoes
    <3>2. goal_status'[thread_goal] # "EXECUTING"
      BY <3>1 DEF Becomes, CppInv, MainOK
    <3>3. QED
      BY <1>1, <1>2, <3>1, <3>2 DEF TargetDisturbed, threadVars
  <2>4. CASE TakeHandle
    <3>1. main_pc = "locking" /\ main_pc' = "aborting" /\ UNCHANGED <<threadVars, goal_status>>
      BY <2>4 DEF TakeHandle, MainAt, MainGoes
    <3>2. QED
      BY <1>1, <1>2, <3>1 DEF TargetDisturbed, threadVars
  <2>5. CASE AbortTaken
    <3>1. /\ main_pc = "aborting" /\ main_pc' = "ending" /\ UNCHANGED threadVars
          /\ goal_status' = goal_status \/ (IsActive(main_goal) /\ Becomes(main_goal, "ABORTED"))
      BY <2>5 DEF AbortTaken, MainAt, MainGoes
    <3>2. goal_status[thread_goal] # "EXECUTING" => goal_status'[thread_goal] # "EXECUTING" \/ thread_pc # "inner"
      BY <3>1 DEF Becomes, IsActive, CppInv, ThreadOK
    <3>3. \A g \in Goals : goal_status[g] = "rejected" => goal_status'[g] = "rejected"
      BY <3>1 DEF Becomes, IsActive, CppInv
    <3>4. QED
      BY <1>1, <1>2, <3>1, <3>2, <3>3 DEF TargetDisturbed, threadVars
  <2>6. CASE JoinLast
    <3>1. thread_pc \in {"none", "done"} /\ main_pc = "ending" /\ thread_pc' = "none" /\ main_pc' = "down"
      BY <2>6 DEF JoinLast, MainAt, MainGoes
    <3>2. QED
      BY <1>1, <1>2, <3>1
  <2>7. QED
    BY <1>3, <2>1, <2>2, <2>3, <2>4, <2>5, <2>6 DEF MainStep
<1>4. CASE ThreadOwnStep
  <2>1. /\ main_pc' = main_pc /\ main_goal' = main_goal /\ thread_goal' = thread_goal
        /\ thread_pc # "inner"
        /\ thread_pc' = "inner" => stage = "status?"
    BY <1>4 DEF ThreadOwnStep, CheckStop, CheckPreempted, CheckCanceled, ReportResult, CheckActive,
                AbortLast, ResetHandle, ThreadAt, ThreadGoes, mainVars, threadVars
  <2>2. QED
    BY <1>1, <1>2, <2>1 DEF Needed
<1>5. CASE receiving = NoGoal /\ (RequestShutdown \/ \E g \in Goals : RefuseGoal(g))
  <2>1. CASE RequestShutdown
    <3>1. main_pc = "spin" /\ main_pc' = "locking" /\ UNCHANGED <<threadVars, goal_status>>
      BY <2>1 DEF RequestShutdown, MainAt, MainGoes
    <3>2. QED
      BY <1>1, <1>2, <1>5, <3>1 DEF TargetDisturbed, threadVars
  <2>2. ASSUME NEW g \in Goals, RefuseGoal(g) PROVE TargetInv'
    <3>1. UNCHANGED <<mainVars, threadVars>> /\ goal_status'[g] = "rejected"
      BY <2>2 DEF RefuseGoal, Becomes, CppInv
    <3>2. QED
      BY <1>1, <1>2, <1>5, <3>1 DEF TargetDisturbed, mainVars, threadVars
  <2>3. QED
    BY <1>5, <2>1, <2>2
<1>6. QED
  BY <1>3, <1>4, <1>5

\* The handlers of the node: a request or a cancellation drops the messages, and
\* disturbs the goal until another has taken its place or its loop is over.
LEMMA HandlersKeepTargetInv ==
  ASSUME TargetInv, ~crashed,
         \/ \E g \in Goals : GoalResets(g) \/ TargetCancel(g)
         \/ \E accepts \in BOOLEAN : TargetParsed(accepts)
         \/ \E topic \in Topics : MessageArrives(topic)
  PROVE  TargetInv'
<1> USE DEF TargetInv, CppTypeOK, Listening, MainAt
<1>1. ASSUME NEW g \in Goals, GoalResets(g) PROVE TargetInv'
  <2>1. /\ UNCHANGED <<cppVars, stage, crashed>> /\ receiving' = g /\ main_pc = "spin"
    BY <1>1 DEF GoalResets
  <2>2. CppInv'
    BY <2>1, CppStepInv
  <2>3. QED
    BY <2>1, <2>2 DEF TargetDisturbed, NullOnlyAfterReset, cppVars, mainVars, threadVars
<1>2. ASSUME NEW g \in Goals, TargetCancel(g) PROVE TargetInv'
  <2>1. /\ UNCHANGED <<stage, crashed, receiving, threadVars, goal_status>> /\ ReceiveCancel(g)
        /\ main_pc' = "cancelling" /\ main_goal' = g /\ receiving = NoGoal
        /\ main_pc = "spin" /\ goal_status[g] = "EXECUTING"
    BY <1>2 DEF TargetCancel, ReceiveCancel, MainGoes
  <2>2. CppInv'
    BY <2>1, CppStepInv DEF CppNext
  <2>3. thread_goal = g
    BY <2>1 DEF CppInv, InHands
  <2>4. QED
    BY <2>1, <2>2, <2>3 DEF TargetDisturbed, NullOnlyAfterReset, threadVars
<1>3. ASSUME NEW accepts \in BOOLEAN, TargetParsed(accepts) PROVE TargetInv'
  <2>1. /\ UNCHANGED <<stage, crashed, threadVars>> /\ receiving # NoGoal /\ receiving' = NoGoal
        /\ ReceiveGoal(receiving, accepts)
    BY <1>3 DEF TargetParsed, ReceiveGoal
  <2>2. receiving \in Goals
    BY <2>1 DEF ReceiveGoal
  <2>3. CppInv'
    BY <2>1, <2>2, CppStepInv DEF CppNext
  <2>4. \/ main_pc' = "accepting"
        \/ main_pc' = main_pc /\ goal_status'[receiving] = "rejected"
    BY <2>1, <2>2 DEF ReceiveGoal, MainGoes, Becomes, CppInv, mainVars
  <2>5. QED
    BY <2>1, <2>2, <2>3, <2>4 DEF TargetDisturbed, NullOnlyAfterReset, threadVars
<1>4. ASSUME NEW topic \in Topics, MessageArrives(topic) PROVE TargetInv'
  <2>1. UNCHANGED <<cppVars, stage, receiving, crashed>> /\ cached \subseteq cached'
    BY <1>4 DEF MessageArrives
  <2>2. CppInv'
    BY <2>1, CppStepInv
  <2>3. QED
    BY <2>1, <2>2 DEF TargetDisturbed, NullOnlyAfterReset, cppVars, mainVars, threadVars
<1>5. QED
  BY <1>1, <1>2, <1>3, <1>4

\* One stage of the loop: what it tests is there afterwards, and what it follows
\* was there, but for a goal that is disturbed.
LEMMA LoopKeepsTargetInv ==
  ASSUME TargetInv, ~crashed, TargetLoop PROVE TargetInv'
<1> USE DEF TargetInv, CppTypeOK
<1>1. /\ thread_pc = "inner" /\ alive
      /\ UNCHANGED <<cached, receiving>>
  BY DEF TargetLoop, Gate, FenceGate, Forward, Tested, Followed, StatusWaits, FenceAsked, StageAt,
         ThreadAt
<1>2. ASSUME NEW loop_status \in LoopStatus, Comes(loop_status), crashed' = crashed
      PROVE  TargetInv'
  <2>1. /\ LoopInner(loop_status) /\ stage' = "status?" /\ UNCHANGED <<mainVars, goal_status, thread_goal>>
    BY <1>2 DEF Comes, LoopInner, ThreadGoes
  <2>2. CppInv'
    BY <2>1, CppStepInv DEF CppNext, UserStep
  <2>3. QED
    BY <1>1, <1>2, <2>1, <2>2 DEF Needed, Stages, NullOnlyAfterReset, mainVars
<1>3. ASSUME NEW s \in Stages, GoesTo(s), crashed' = crashed, Needed(s) \subseteq cached \/ TargetDisturbed
      PROVE  TargetInv'
  <2>1. UNCHANGED cppVars /\ stage' = s
    BY <1>3 DEF GoesTo
  <2>2. CppInv'
    BY <2>1, CppStepInv
  <2>3. QED
    BY <1>1, <1>3, <2>1, <2>2
    DEF NullOnlyAfterReset, TargetDisturbed, cppVars, mainVars, threadVars
<1>4. ASSUME NEW topic, topic \notin cached, topic \in Needed(stage),
             UNCHANGED <<cppVars, stage>>, crashed' = TRUE
      PROVE  TargetInv'
  <2>1. CppInv'
    BY <1>4, CppStepInv
  <2>2. QED
    BY <1>1, <1>4, <2>1 DEF NullOnlyAfterReset, TargetDisturbed, cppVars, mainVars, threadVars
<1>5. ASSUME NEW topic, NEW missing \in LoopStatus, NEW s \in Stages, Tested(s, topic, missing),
             topic \in Stages, Needed(topic) \subseteq Needed(s) \cup {topic}
      PROVE  TargetInv'
  <2>1. CASE topic \in cached
    BY <1>1, <1>3, <1>5, <2>1 DEF Tested, StageAt
  <2>2. CASE topic \notin cached
    BY <1>2, <1>5, <2>2 DEF Tested
  <2>3. QED
    BY <2>1, <2>2
<1>6. ASSUME NEW topic, NEW s \in Stages, NEW next \in Stages, Followed(s, topic, next),
             topic \in Needed(s), Needed(next) \subseteq Needed(s)
      PROVE  TargetInv'
  <2>1. CASE topic \in cached
    BY <1>1, <1>2, <1>3, <1>6, <2>1 DEF Followed, StageAt, LoopStatus
  <2>2. CASE topic \notin cached
    BY <1>4, <1>6, <2>2 DEF Followed, StageAt
  <2>3. QED
    BY <2>1, <2>2
<1>7. CASE Gate
  <2>1. CASE StatusWaits
    BY <1>2, <2>1 DEF StatusWaits, LoopStatus
  <2>2. CASE \/ Tested("status?", "status", "RUNNING") \/ Tested("path?", "path", "FAILURE")
             \/ Tested("control?", "control", "FAILURE")
    <3> HIDE DEF TargetInv
    <3> QED
      BY <1>5, <2>2 DEF Needed, Stages, LoopStatus
  <2>3. CASE \/ Followed("status", "status", "path?") \/ Followed("path", "path", "control?")
             \/ Followed("control", "control", "valid path")
             \/ Followed("valid path", "path", "valid control")
             \/ Followed("valid control", "control", "fence?")
    <3> HIDE DEF TargetInv
    <3>1. CASE \/ Followed("status", "status", "path?") \/ Followed("path", "path", "control?")
               \/ Followed("control", "control", "valid path")
      BY <1>6, <3>1 DEF Needed, Stages
    <3>2. CASE \/ Followed("valid path", "path", "valid control")
               \/ Followed("valid control", "control", "fence?")
      BY <1>6, <3>2 DEF Needed, Stages
    <3> QED
      BY <2>3, <3>1, <3>2
  <2>4. QED
    BY <1>7, <2>1, <2>2, <2>3 DEF Gate
<1>8. CASE FenceGate
  <2>1. CASE FenceAsked
    <3>1. PICK s \in {"geofence?", "forward"} : stage = "fence?" /\ GoesTo(s) /\ crashed' = crashed
      BY <2>1 DEF FenceAsked, StageAt
    <3>2. s \in Stages /\ Needed(s) = Needed(stage)
      BY <3>1 DEF Stages, Needed
    <3>3. QED
      BY <1>1, <1>3, <3>1, <3>2
  <2>2. CASE \/ Tested("geofence?", "geofence", "FAILURE") \/ Tested("polygons?", "polygons", "FAILURE")
    <3> HIDE DEF TargetInv
    <3> QED
      BY <1>5, <2>2 DEF Needed, Stages, LoopStatus
  <2>3. CASE \/ Followed("geofence", "geofence", "polygons?")
             \/ Followed("polygons", "polygons", "forward fenced")
    <3> HIDE DEF TargetInv
    <3>1. CASE Followed("geofence", "geofence", "polygons?")
      <4>1. /\ Needed("geofence") = {"control", "geofence"}
            /\ Needed("polygons?") \in {{"control"}, {"control", "geofence"}}
        BY DEF Needed
      <4>2. "geofence" \in Stages /\ "polygons?" \in Stages
        BY DEF Stages
      <4> QED
        BY <1>6, <3>1, <4>1, <4>2
    <3>2. CASE Followed("polygons", "polygons", "forward fenced")
      <4>1. Needed("polygons") = {"control", "polygons"} /\ Needed("forward fenced") = {"control"}
        BY DEF Needed
      <4>2. "polygons" \in Stages /\ "forward fenced" \in Stages
        BY DEF Stages
      <4> QED
        BY <1>6, <3>2, <4>1, <4>2
    <3> QED
      BY <2>3, <3>1, <3>2
  <2>4. QED
    BY <1>8, <2>1, <2>2, <2>3 DEF FenceGate
<1>9. CASE Forward
  <2>1. "control" \in Needed(stage)
    BY <1>9 DEF Forward, StageAt, Needed
  <2>2. CASE "control" \in cached
    BY <1>2, <1>9, <2>2 DEF Forward, LoopStatus
  <2>3. CASE "control" \notin cached
    BY <1>4, <1>9, <2>1, <2>3 DEF Forward
  <2>4. QED
    BY <2>2, <2>3
<1>10. QED
  BY <1>7, <1>8, <1>9 DEF TargetLoop

LEMMA TargetStepInv ==
  TargetInv /\ [TargetNext]_<<cppVars, targetVars>> => TargetInv'
<1> SUFFICES ASSUME TargetInv, [TargetNext]_<<cppVars, targetVars>> PROVE TargetInv'
  OBVIOUS
<1>1. CASE UNCHANGED <<cppVars, targetVars>>
  <2>1. CppInv'
    BY <1>1, CppStepInv DEF TargetInv
  <2>2. QED
    BY <1>1, <2>1 DEF TargetInv, TargetDisturbed, NullOnlyAfterReset, cppVars, targetVars,
                      mainVars, threadVars
<1>2. ASSUME ~crashed, TargetPrepares PROVE TargetInv'
  <2>1. /\ PrepareLoop(FALSE) /\ stage' = "status?" /\ UNCHANGED <<receiving, crashed, mainVars>>
        /\ thread_pc' = "top" /\ thread_goal' = thread_goal
    BY <1>2 DEF TargetPrepares, PrepareLoop, ThreadGoes
  <2>2. CppInv'
    BY <2>1, CppStepInv DEF CppNext, UserStep, TargetInv
  <2>3. QED
    BY <1>2, <2>1, <2>2 DEF TargetInv, Stages, NullOnlyAfterReset, mainVars
<1>3. CASE ~crashed /\ UNCHANGED targetVars
           /\ (\/ MainStep \/ ThreadOwnStep
               \/ receiving = NoGoal /\ (RequestShutdown \/ \E g \in Goals : RefuseGoal(g)))
  BY <1>3, ServerKeepsTargetInv
<1>4. CASE ~crashed /\ (\/ \E g \in Goals : GoalResets(g) \/ TargetCancel(g)
                        \/ \E accepts \in BOOLEAN : TargetParsed(accepts)
                        \/ \E topic \in Topics : MessageArrives(topic))
  BY <1>4, HandlersKeepTargetInv
<1>5. CASE ~crashed /\ TargetLoop
  BY <1>5, LoopKeepsTargetInv
<1>6. QED
  BY <1>1, <1>2, <1>3, <1>4, <1>5 DEF TargetNext

\* What the target actions do to their server, the server does.
LEMMA TargetIsCpp ==
  ASSUME TargetInv, [TargetNext]_<<cppVars, targetVars>> PROVE [CppNext]_cppVars
<1>1. CASE \E g \in Goals : \/ receiving = NoGoal /\ RefuseGoal(g) /\ UNCHANGED targetVars
                            \/ GoalResets(g) \/ TargetCancel(g)
  BY <1>1 DEF GoalResets, TargetCancel, CppNext
<1>2. CASE \E accepts \in BOOLEAN : TargetParsed(accepts)
  BY <1>2 DEF TargetParsed, TargetInv, Handles, CppNext
<1>3. CASE \E topic \in Topics : MessageArrives(topic)
  BY <1>3 DEF MessageArrives
<1>4. CASE (RequestShutdown \/ MainStep \/ ThreadOwnStep) /\ UNCHANGED targetVars
  BY <1>4 DEF CppNext
<1>5. CASE TargetPrepares
  BY <1>5 DEF TargetPrepares, CppNext, UserStep
<1>6. CASE TargetLoop
  <2>1. \A st \in LoopStatus : LoopInner(st) => CppNext
    BY DEF CppNext, UserStep
  <2>2. {"RUNNING", "FAILURE"} \subseteq LoopStatus
    BY DEF LoopStatus
  <2>3. \A p, topic : \A missing \in LoopStatus : Tested(p, topic, missing) => CppNext \/ UNCHANGED cppVars
    BY <2>1 DEF Tested, GoesTo, Comes
  <2>4. \A p, topic, next : Followed(p, topic, next) => CppNext \/ UNCHANGED cppVars
    BY <2>1, <2>2 DEF Followed, GoesTo, Comes
  <2>5. StatusWaits \/ FenceAsked \/ Forward => CppNext \/ UNCHANGED cppVars
    BY <2>1, <2>2 DEF StatusWaits, FenceAsked, Forward, GoesTo, Comes
  <2>6. QED
    BY <1>6, <2>2, <2>3, <2>4, <2>5 DEF TargetLoop, Gate, FenceGate
<1>7. CASE UNCHANGED <<cppVars, targetVars>>
  BY <1>7
<1>8. QED
  BY <1>1, <1>2, <1>3, <1>4, <1>5, <1>6, <1>7 DEF TargetNext

\* With the callbacks of the interception or of the inspection the server makes no
\* step that CppActionServer does not make: what is proved of it holds of them.
THEOREM TargetIsCppServer == TargetSafety => CppSafety
<1>1. TargetInv /\ [TargetNext]_<<cppVars, targetVars>> => [CppNext]_cppVars
  BY TargetIsCpp
<1>2. QED
  BY <1>1, TargetInitInv, TargetStepInv, PTL DEF TargetSafety, CppSafety

\* The loop follows no pointer that is gone, unless a goal was requested or cancelled
\* while it ran: whatever comes on the topics, and with or without preemption.
THEOREM TargetReadsWhatIsThere == TargetSafety => []NullOnlyAfterReset
<1>1. TargetInv => NullOnlyAfterReset
  BY DEF TargetInv
<1>2. QED
  BY <1>1, TargetInitInv, TargetStepInv, PTL DEF TargetSafety

-----------------------------------------------------------------------------
(***************************************************************************)
(* The geofence check of an interception is lost only through a goal that   *)
(* was refused: for any goals, whatever they and the node's default ask     *)
(* for.                                                                    *)
(***************************************************************************)

SomeRefused == \E g \in Goals : goal_status[g] = "rejected"

\* With no goal refused, the check is what the goal asks for that was accepted last,
\* from its acceptance until another goal or a cancellation comes in; and the loop has
\* not passed by the geofence of a goal that asks for it.
FenceAskedInv ==
  \/ SomeRefused \/ receiving # NoGoal
  \/ /\ main_pc \in {"accepting", "joining"} =>
          (geofence_check_enabled <=> main_goal \in FencedGoals)
     /\ main_pc = "spin" /\ thread_pc \in Live /\ goal_status[thread_goal] = "EXECUTING" =>
          /\ geofence_check_enabled <=> thread_goal \in FencedGoals
          /\ stage = "forward" /\ intercepts => thread_goal \notin FencedGoals

\* A refused goal stays refused.
LEMMA RefusedStays ==
  ASSUME CppInv, [CppNext]_cppVars, SomeRefused
  PROVE  SomeRefused'
<1> USE DEF CppInv, CppTypeOK, Becomes, SomeRefused
<1>1. PICK r \in Goals : goal_status[r] = "rejected"
  OBVIOUS
<1>2. ASSUME NEW g \in Goals,
             RefuseGoal(g) \/ ReceiveCancel(g) \/ \E accepts \in BOOLEAN : ReceiveGoal(g, accepts)
      PROVE  goal_status'[r] = "rejected"
  BY <1>1, <1>2 DEF RefuseGoal, ReceiveCancel, ReceiveGoal
<1>3. CASE RequestShutdown \/ MainStep
  BY <1>1, <1>3 DEF RequestShutdown, MainStep, HandleAccepted, StartThread, CancelGoal, TakeHandle,
                    AbortTaken, JoinLast, IsActive
<1>4. CASE ThreadOwnStep
  BY <1>1, <1>4 DEF ThreadOwnStep, CheckStop, CheckPreempted, CheckCanceled, ReportResult,
                    CheckActive, AbortLast, ResetHandle, IsActive
<1>5. CASE UserStep
  BY <1>1, <1>5 DEF UserStep, PrepareLoop, LoopInner, LoopThrows
<1>6. CASE UNCHANGED cppVars
  BY <1>1, <1>6 DEF cppVars
<1>7. QED
  BY <1>1, <1>2, <1>3, <1>4, <1>5, <1>6 DEF CppNext

\* The handlers: what is found of the check is undone only with a goal that is refused.
LEMMA HandlersKeepFence ==
  ASSUME TargetInv, FenceAskedInv, ~SomeRefused, ~SomeRefused', receiving' = NoGoal,
         \/ \E g \in Goals : GoalResets(g) \/ TargetCancel(g)
         \/ \E accepts \in BOOLEAN : TargetParsed(accepts)
         \/ \E topic \in Topics : MessageArrives(topic)
  PROVE  FenceAskedInv'
<1>1. ASSUME NEW g \in Goals, GoalResets(g) PROVE FALSE
  BY <1>1 DEF GoalResets
<1>2. ASSUME NEW g \in Goals, TargetCancel(g) PROVE FenceAskedInv'
  BY <1>2 DEF TargetCancel, ReceiveCancel, MainGoes, FenceAskedInv
<1>3. ASSUME NEW accepts \in BOOLEAN, TargetParsed(accepts) PROVE FenceAskedInv'
  <2>1. receiving \in Goals
    BY <1>3 DEF TargetParsed, TargetInv
  <2>2. CASE accepts
    BY <1>3, <2>2 DEF TargetParsed, ReceiveGoal, MainGoes, FenceAskedInv
  <2>3. CASE ~accepts
    <3>1. goal_status'[receiving] = "rejected"
      BY <1>3, <2>1, <2>3 DEF TargetParsed, ReceiveGoal, Becomes, TargetInv, CppInv, CppTypeOK
    <3>2. QED
      BY <2>1, <3>1 DEF SomeRefused
  <2>4. QED
    BY <2>2, <2>3
<1>4. ASSUME NEW topic \in Topics, MessageArrives(topic) PROVE FenceAskedInv'
  BY <1>4 DEF MessageArrives, FenceAskedInv, cppVars, mainVars, threadVars, targetConfig
<1>5. QED
  BY <1>1, <1>2, <1>3, <1>4

\* The server: the thread takes the goal that the handler has asked for, and a goal
\* that was cancelled executes no more.
LEMMA ServerKeepsFence ==
  ASSUME TargetInv, FenceAskedInv, ~SomeRefused, receiving = NoGoal, UNCHANGED targetVars,
         RequestShutdown \/ MainStep \/ ThreadOwnStep
  PROVE  FenceAskedInv'
<1>1. /\ UNCHANGED <<geofence_check_enabled, stage, intercepts>>
      /\ main_pc \in {"accepting", "joining"} =>
           (geofence_check_enabled <=> main_goal \in FencedGoals)
      /\ main_pc = "spin" /\ thread_pc \in Live /\ goal_status[thread_goal] = "EXECUTING" =>
           /\ geofence_check_enabled <=> thread_goal \in FencedGoals
           /\ stage = "forward" /\ intercepts => thread_goal \notin FencedGoals
  BY DEF FenceAskedInv, targetVars, targetConfig
<1> USE <1>1 DEF FenceAskedInv
<1>2. CASE RequestShutdown \/ TakeHandle \/ AbortTaken \/ JoinLast
  BY <1>2 DEF RequestShutdown, TakeHandle, AbortTaken, JoinLast, MainGoes
<1>3. CASE HandleAccepted
  BY <1>3 DEF HandleAccepted, MainAt, MainGoes
<1>4. CASE StartThread
  BY <1>4 DEF StartThread, MainAt, MainGoes, TargetInv
<1>5. CASE CancelGoal
  <2>1. main_pc' = "spin" /\ thread_goal' = thread_goal /\ main_goal = thread_goal
    BY <1>5 DEF CancelGoal, MainAt, MainGoes, threadVars, TargetInv
  <2>2. goal_status'[thread_goal] # "EXECUTING"
    BY <1>5, <2>1 DEF CancelGoal, MainAt, Becomes, TargetInv, CppInv, CppTypeOK, MainOK
  <2>3. QED
    BY <2>1, <2>2
<1>6. CASE ThreadOwnStep
  <2>1. UNCHANGED mainVars /\ thread_goal' = thread_goal /\ (thread_pc' \in Live => thread_pc \in Live)
    BY <1>6 DEF ThreadOwnStep, CheckStop, CheckPreempted, CheckCanceled, ReportResult, CheckActive,
                AbortLast, ResetHandle, ThreadAt, ThreadGoes, threadVars
  <2>2. thread_pc \in Live /\ goal_status'[thread_goal] = "EXECUTING"
          => goal_status[thread_goal] = "EXECUTING"
    BY <1>6 DEF ThreadOwnStep, CheckStop, CheckPreempted, CheckCanceled, ReportResult, CheckActive,
                AbortLast, ResetHandle, ThreadAt, Becomes, Verdict, IsActive, TargetInv, CppInv,
                CppTypeOK, ThreadOK
  <2>3. QED
    BY <2>1, <2>2 DEF mainVars
<1>7. QED
  BY <1>2, <1>3, <1>4, <1>5, <1>6 DEF MainStep

\* The loop comes to forward a control unchecked only by asking for the check.
LEMMA LoopKeepsFence ==
  ASSUME FenceAskedInv, ~SomeRefused, TargetLoop, receiving = NoGoal
  PROVE  FenceAskedInv'
<1>1. /\ UNCHANGED <<mainVars, thread_goal, goal_status, targetConfig, geofence_check_enabled>>
      /\ thread_pc = "inner"
      /\ stage' = "forward" => stage = "forward" \/ ~(intercepts /\ geofence_check_enabled)
  BY DEF TargetLoop, Gate, FenceGate, Forward, Tested, Followed, StatusWaits, FenceAsked, StageAt,
         GoesTo, Comes, LoopInner, ThreadAt, ThreadGoes, cppVars, threadVars
<1>2. QED
  BY <1>1 DEF FenceAskedInv, mainVars, targetConfig

LEMMA FenceStepInv ==
  ASSUME TargetInv, FenceAskedInv, [TargetNext]_<<cppVars, targetVars>>
  PROVE  FenceAskedInv'
<1> SUFFICES ASSUME ~SomeRefused', receiving' = NoGoal
             PROVE  FenceAskedInv'
  BY DEF FenceAskedInv
<1>1. ~SomeRefused
  BY TargetIsCpp, RefusedStays DEF TargetInv
<1>2. CASE \/ \E g \in Goals : GoalResets(g) \/ TargetCancel(g)
           \/ \E accepts \in BOOLEAN : TargetParsed(accepts)
           \/ \E topic \in Topics : MessageArrives(topic)
  BY <1>1, <1>2, HandlersKeepFence
<1>3. CASE UNCHANGED targetVars /\ (RequestShutdown \/ MainStep \/ ThreadOwnStep)
  BY <1>1, <1>3, ServerKeepsFence DEF targetVars
<1>4. ASSUME NEW g \in Goals, RefuseGoal(g) PROVE FALSE
  BY <1>4 DEF RefuseGoal, Becomes, SomeRefused, TargetInv, CppInv, CppTypeOK
<1>5. CASE TargetPrepares
  BY <1>1, <1>5 DEF TargetPrepares, PrepareLoop, ThreadAt, ThreadGoes, FenceAskedInv, mainVars, targetConfig
<1>6. CASE TargetLoop
  BY <1>1, <1>6, LoopKeepsFence DEF TargetLoop
<1>7. CASE UNCHANGED <<cppVars, targetVars>>
  BY <1>1, <1>7 DEF FenceAskedInv, cppVars, mainVars, threadVars, targetVars, targetConfig
<1>8. QED
  BY <1>2, <1>3, <1>4, <1>5, <1>6, <1>7 DEF TargetNext

\* A goal that asks for the geofence check has no control forwarded without it, as long as
\* no goal has been refused: neither preemption, nor a cancellation, nor messages that come
\* and go lose the check.
THEOREM FenceHoldsUnlessRefused == TargetSafety => [](FenceGateHolds \/ SomeRefused)
<1>1. CppInit /\ TargetInit => FenceAskedInv
  BY DEF CppInit, TargetInit, FenceAskedInv
<1>2. TargetInv /\ FenceAskedInv /\ [TargetNext]_<<cppVars, targetVars>> => FenceAskedInv'
  BY FenceStepInv
<1>3. FenceAskedInv => FenceGateHolds \/ SomeRefused
  BY DEF FenceAskedInv, FenceGateHolds, StageAt, ThreadAt, Listening, MainAt
<1>4. QED
  BY <1>1, <1>2, <1>3, TargetInitInv, TargetStepInv, PTL DEF TargetSafety

-----------------------------------------------------------------------------
(***************************************************************************)
(* The patrol turns to its other waypoint only on arrival: for any number   *)
(* of goals of either server.  This needs both invariants: that of the     *)
(* server, to say when the patrol is on its own, and that of the delegate. *)
(***************************************************************************)

\* The goal of the current generation is for the current waypoint, and the success
\* the loop acts on was that of the current waypoint.
OnCourse ==
  /\ \A m \in Moves : Current(m) => moves[m].waypoint = current_waypoint_index
  /\ delegate.state = "SUCCEEDED" \/ step = "switch" => arrived_at = current_waypoint_index

\* The thread is in the loop of its goal, prepare_loop behind it.
LoopPc == {"top", "preempted?", "canceled?", "inner"}

CourseInv ==
  /\ CppInv /\ PatrolInv
  /\ callback = "goal" => subject \in Goals
  /\ thread_pc # "inner" => step = "look"
  /\ thread_pc \in LoopPc /\ OnItsOwn => OnCourse

LEMMA CourseInitInv == CppInit /\ PatrolInit => CourseInv
  BY CppInitInv, PatrolInitInv DEF CppInit, PatrolInit, CourseInv, LoopPc

\* What the patrol does to its server, the server does.
LEMMA PatrolIsCpp ==
  ASSUME CourseInv, [PatrolNext]_<<cppVars, patrolVars>> PROVE [CppNext]_cppVars
<1>1. CASE \E g \in Goals : \/ callback = "none" /\ RefuseGoal(g) /\ UNCHANGED patrolVars
                            \/ PatrolGoal(g) \/ PatrolCancel(g)
  BY <1>1 DEF PatrolGoal, PatrolCancel, CppNext
<1>2. CASE \E accepts \in BOOLEAN : PatrolParsed(accepts)
  BY <1>2 DEF PatrolParsed, CourseInv, CppNext
<1>3. CASE ShutdownCancels \/ ShutdownGoesOn \/ ((MainStep \/ ThreadOwnStep) /\ UNCHANGED patrolVars)
  BY <1>3 DEF ShutdownCancels, ShutdownGoesOn, CppNext
<1>4. CASE PatrolLoop
  BY <1>4 DEF PatrolLoop, PatrolPrepares, LoopLooks, LoopSwitches, LoopAsksIdle, LoopComes,
              send_current_move_to_goal, CppNext, UserStep, LoopStatus
<1>5. CASE ResponseStored \/ \E m \in Moves : ResponseArrives(m) \/ ResultArrives(m) \/ MoveToServer(m)
  BY <1>5 DEF ResponseStored, ResponseArrives, ResultArrives, MoveToServer
<1>6. CASE UNCHANGED <<cppVars, patrolVars>>
  BY <1>6
<1>7. QED
  BY <1>1, <1>2, <1>3, <1>4, <1>5, <1>6 DEF PatrolNext

\* A patrol that is on its own in the loop was so before: what has taken its goal
\* from it keeps it until the thread is done.
LEMMA StaysTaken ==
  ASSUME CourseInv, PatrolNext, thread_pc' \in LoopPc, OnItsOwn'
  PROVE  \/ PatrolPrepares
         \/ thread_pc \in LoopPc /\ OnItsOwn
<1> USE DEF CppTypeOK, LoopPc
<1>2. ASSUME NEW g \in Goals, callback = "none" /\ RefuseGoal(g) /\ UNCHANGED patrolVars
      PROVE  FALSE
  <2>1. goal_status'[g] = "rejected"
    BY <1>2 DEF RefuseGoal, Becomes, CourseInv, CppInv
  <2>2. QED
    BY <2>1 DEF OnItsOwn
<1>3. CASE \E g \in Goals : PatrolGoal(g)
  BY <1>3 DEF PatrolGoal, OnItsOwn
<1>4. CASE \/ \E g \in Goals : PatrolCancel(g)
           \/ ShutdownCancels \/ ShutdownGoesOn
  <2>1. UNCHANGED <<threadVars, goal_status, active_goal_handle>> /\ callback # "goal" /\ main_pc = "spin"
    BY <1>4 DEF PatrolCancel, ReceiveCancel, ShutdownCancels, ShutdownGoesOn, RequestShutdown, MainAt,
                Spinning, cppVars, mainVars, threadVars
  <2>2. QED
    BY <2>1 DEF OnItsOwn, threadVars
<1>5. ASSUME NEW accepts \in BOOLEAN, PatrolParsed(accepts) PROVE FALSE
  <2>1. subject \in Goals /\ (main_pc' = "accepting" \/ goal_status'[subject] = "rejected")
    BY <1>5 DEF PatrolParsed, ReceiveGoal, MainGoes, Becomes, CourseInv, CppInv
  <2>2. QED
    BY <2>1 DEF OnItsOwn
<1>6. CASE MainStep /\ UNCHANGED patrolVars
  <2>1. CASE HandleAccepted
    <3>1. main_pc = "accepting" /\ active_goal_handle' = main_goal /\ UNCHANGED threadVars
      BY <2>1 DEF HandleAccepted, MainAt
    <3>2. QED
      BY <3>1 DEF OnItsOwn, CourseInv, CppInv, MainOK, threadVars
  <2>2. CASE StartThread \/ JoinLast
    BY <2>2 DEF StartThread, JoinLast
  <2>3. CASE CancelGoal \/ AbortTaken
    <3>1. /\ main_pc \in {"cancelling", "aborting"} /\ UNCHANGED <<threadVars, active_goal_handle, callback>>
          /\ \A g \in Goals : goal_status[g] = "rejected" => goal_status'[g] = "rejected"
      BY <1>6, <2>3 DEF CancelGoal, AbortTaken, MainAt, Becomes, IsActive, CourseInv, CppInv, patrolVars
    <3>2. QED
      BY <3>1 DEF OnItsOwn, threadVars
  <2>4. CASE TakeHandle
    <3>1. active_goal_handle' = NoGoal /\ UNCHANGED threadVars
      BY <2>4 DEF TakeHandle
    <3>2. QED
      BY <3>1 DEF OnItsOwn, CourseInv, CppInv, ThreadOK, threadVars
  <2>5. QED
    BY <1>6, <2>1, <2>2, <2>3, <2>4 DEF MainStep
<1>7. CASE ThreadOwnStep /\ UNCHANGED patrolVars
  <2>1. /\ UNCHANGED <<mainVars, thread_goal, callback, active_goal_handle>>
        /\ thread_pc \in LoopPc
        /\ goal_status' = goal_status \/ thread_pc' = "done"
    BY <1>7 DEF ThreadOwnStep, CheckStop, CheckPreempted, CheckCanceled, ReportResult, CheckActive,
                AbortLast, ResetHandle, ThreadAt, ThreadGoes, mainVars, threadVars, patrolVars
  <2>2. QED
    BY <2>1 DEF OnItsOwn, mainVars
<1>8. CASE PatrolLoop
  <2>1. \/ PatrolPrepares
        \/ /\ thread_pc = "inner"
           /\ UNCHANGED <<mainVars, thread_goal, callback, active_goal_handle, goal_status>>
    BY <1>8 DEF PatrolLoop, LoopLooks, LoopSwitches, LoopAsksIdle, send_current_move_to_goal,
                LoopComes, LoopInner, ThreadGoes, InnerAt, ThreadAt, cppVars, mainVars, threadVars
  <2>2. QED
    BY <2>1 DEF OnItsOwn, mainVars
<1>9. CASE ResponseStored \/ \E m \in Moves : ResponseArrives(m) \/ ResultArrives(m) \/ MoveToServer(m)
  <2>1. UNCHANGED cppVars /\ (callback = "goal" => callback' = "goal")
    BY <1>9 DEF ResponseStored, ResponseArrives, ResultArrives, MoveToServer, Spinning
  <2>2. QED
    BY <2>1 DEF OnItsOwn, cppVars, mainVars, threadVars
<1>10. QED
  BY <1>2, <1>3, <1>4, <1>5, <1>6, <1>7, <1>8, <1>9 DEF PatrolNext

\* Taking an answer changes no waypoint of a goal that stays of this generation.
LEMMA TakesKeepsWaypoint ==
  ASSUME DelegateOK, NEW m \in Moves, moves[m].stage # "free", Takes(m),
         NEW n \in Moves, Current(n)'
  PROVE  Current(n) /\ moves'[n].waypoint = moves[n].waypoint
<1>1. CASE moves[m].stage = "rejected"
  BY <1>1 DEF Takes, MoveOver, NoGoalSent, Current, DelegateOK
<1>2. CASE moves[m].stage # "rejected"
  <2>1. moves' = [moves EXCEPT ![m].stage = "running"]
    BY <1>2 DEF Takes, MoveComes
  <2>2. n # m => moves'[n] = moves[n]
    BY <2>1 DEF DelegateOK
  <2>3. /\ moves'[m].waypoint = moves[m].waypoint /\ moves'[m].stale = moves[m].stale
    BY <2>1 DEF DelegateOK, Move
  <2>4. m = n => Current(m)
    BY <2>3 DEF Current
  <2>5. QED
    BY <2>2, <2>3, <2>4 DEF Current
<1>3. QED
  BY <1>1, <1>2

\* Only the loop itself takes the thread out of loop_inner.
LEMMA PatrolLeavesThread ==
  ASSUME CppInv, PatrolNext, ~PatrolLoop PROVE thread_pc' = thread_pc \/ thread_pc # "inner"
<1>1. CASE MainStep
  BY <1>1 DEF MainStep, HandleAccepted, StartThread, CancelGoal, TakeHandle, AbortTaken, JoinLast,
              threadVars
<1>2. CASE ThreadOwnStep
  BY <1>2 DEF ThreadOwnStep, CheckStop, CheckPreempted, CheckCanceled, ReportResult, CheckActive,
              AbortLast, ResetHandle, ThreadAt
<1>3. CASE ~MainStep /\ ~ThreadOwnStep
  BY <1>3 DEF PatrolNext, PatrolGoal, PatrolCancel, PatrolParsed, RefuseGoal, ReceiveGoal,
              ReceiveCancel, RequestShutdown, ShutdownCancels, ShutdownGoesOn, ResponseStored,
              ResponseArrives, ResultArrives, MoveToServer, cppVars, threadVars
<1>4. QED
  BY <1>1, <1>2, <1>3

\* No step of the patrol leads a goal on its own off its course.
LEMMA StaysOnCourse ==
  ASSUME CourseInv, PatrolNext, thread_pc \in LoopPc, OnItsOwn, OnItsOwn'
  PROVE  OnCourse'
<1> USE DEF CourseInv, PatrolInv, DelegateOK
<1>1. OnCourse
  OBVIOUS
<1>2. CASE UNCHANGED <<moves, delegate, current_waypoint_index, step, arrived_at>>
  BY <1>1, <1>2 DEF OnCourse, Current
<1>3. CASE cancel_active_move_to_goal /\ UNCHANGED <<current_waypoint_index, step, arrived_at>>
  <2>1. /\ \A m \in Moves : Current(m)' => Current(m) /\ moves'[m].waypoint = moves[m].waypoint
        /\ delegate'.state = "CANCELING"
    BY <1>3 DEF cancel_active_move_to_goal, Current, Move
  <2>2. QED
    BY <1>1, <1>3, <2>1 DEF OnCourse
<1>4. CASE PatrolLoop
  <2>1. CASE PatrolPrepares
    BY <2>1 DEF PatrolPrepares, PrepareLoop, ThreadAt, LoopPc
  <2>2. CASE LoopLooks
    <3>1. /\ UNCHANGED <<moves, delegate, current_waypoint_index, arrived_at>>
          /\ step' = "switch" => delegate.state = "SUCCEEDED"
      BY <2>2 DEF LoopLooks, LoopComes
    <3>2. QED
      BY <1>1, <3>1 DEF OnCourse, Current
  <2>3. CASE LoopSwitches
    <3>1. /\ step = "switch" /\ step' = "idle?" /\ UNCHANGED moves
          /\ delegate'.state = "IDLE"
      BY <2>3 DEF LoopSwitches, InnerAt
    <3>2. \A m \in Moves : ~Current(m)'
      BY <3>1 DEF OneCurrent, Current
    <3>3. QED
      BY <3>1, <3>2 DEF OnCourse
  <2>4. CASE LoopAsksIdle
    <3>1. /\ UNCHANGED <<moves, delegate, current_waypoint_index, arrived_at>>
          /\ step' # "switch"
      BY <2>4 DEF LoopAsksIdle, LoopComes
    <3>2. QED
      BY <1>1, <3>1 DEF OnCourse, Current
  <2>5. CASE send_current_move_to_goal
    <3>1. PICK m \in Moves : moves' = [moves EXCEPT ![m] = NewMove(current_waypoint_index)]
      BY <2>5 DEF send_current_move_to_goal
    <3>2. /\ current_waypoint_index' = current_waypoint_index
          /\ delegate'.state = "WAITING_FOR_ACCEPTANCE" /\ step' = "look"
      BY <2>5 DEF send_current_move_to_goal, LoopComes
    <3>3. /\ moves'[m].waypoint = current_waypoint_index
          /\ \A n \in Moves \ {m} : moves'[n] = moves[n]
      BY <3>1 DEF NewMove
    <3>4. QED
      BY <1>1, <3>2, <3>3 DEF OnCourse, Current
  <2>6. QED
    BY <1>4, <2>1, <2>2, <2>3, <2>4, <2>5 DEF PatrolLoop
<1>5. CASE ResponseStored
  <2>1. /\ subject \in Moves /\ moves[subject].stage # "free" /\ Takes(subject)
        /\ delegate'.state # "SUCCEEDED"
        /\ UNCHANGED <<current_waypoint_index, step, arrived_at>>
    BY <1>5 DEF ResponseStored, ResponseOK
  <2>2. \A m \in Moves : Current(m)' => Current(m) /\ moves'[m].waypoint = moves[m].waypoint
    BY <2>1, TakesKeepsWaypoint
  <2>3. QED
    BY <1>1, <2>1, <2>2 DEF OnCourse
<1>6. ASSUME NEW m \in Moves, ResponseArrives(m) PROVE OnCourse'
  <2>1. /\ Takes(m) \/ UNCHANGED moves
        /\ moves[m].stage # "free"
        /\ UNCHANGED <<delegate, current_waypoint_index, step, arrived_at>>
    BY <1>6 DEF ResponseArrives
  <2>2. \A n \in Moves : Current(n)' => Current(n) /\ moves'[n].waypoint = moves[n].waypoint
    BY <2>1, TakesKeepsWaypoint DEF Current
  <2>3. QED
    BY <1>1, <2>1, <2>2 DEF OnCourse
<1>7. ASSUME NEW m \in Moves, ResultArrives(m) PROVE OnCourse'
  <2>1. /\ moves' = [moves EXCEPT ![m] = NoGoalSent] /\ moves[m].stage # "free"
        /\ UNCHANGED <<current_waypoint_index, step>>
        /\ moves[m].stale => UNCHANGED <<delegate, arrived_at>>
        /\ ~moves[m].stale /\ delegate'.state = "SUCCEEDED" => arrived_at' = moves[m].waypoint
    BY <1>7 DEF ResultArrives, MoveOver
  <2>2. \A n \in Moves : Current(n)' => Current(n) /\ moves'[n] = moves[n]
    BY <2>1 DEF Current, NoGoalSent
  <2>3. ~moves[m].stale => Current(m) /\ step # "switch"
    BY <2>1 DEF Current, OneCurrent
  <2>4. QED
    BY <1>1, <2>1, <2>2, <2>3 DEF OnCourse
<1>8. ASSUME NEW m \in Moves, MoveToServer(m) PROVE OnCourse'
  <2>1. /\ UNCHANGED <<delegate, current_waypoint_index, step, arrived_at>>
        /\ \E st \in MoveStage : moves' = [moves EXCEPT ![m].stage = st]
        /\ moves[m].stage # "free"
    BY <1>8 DEF MoveToServer, MoveComes
  <2>2. \A n \in Moves : Current(n)' => Current(n) /\ moves'[n].waypoint = moves[n].waypoint
    BY <2>1 DEF Current, Move
  <2>3. QED
    BY <1>1, <2>1, <2>2 DEF OnCourse
<1>9. CASE \E g \in Goals : \/ callback = "none" /\ RefuseGoal(g) /\ UNCHANGED patrolVars
                            \/ PatrolGoal(g) \/ PatrolCancel(g)
  BY <1>2, <1>3, <1>9 DEF PatrolGoal, PatrolCancel, patrolVars
<1>10. CASE \E accepts \in BOOLEAN : PatrolParsed(accepts)
  BY <1>10 DEF PatrolParsed, OnItsOwn
<1>11. CASE ShutdownCancels \/ ShutdownGoesOn \/ ((MainStep \/ ThreadOwnStep) /\ UNCHANGED patrolVars)
  BY <1>2, <1>3, <1>11 DEF ShutdownCancels, ShutdownGoesOn, patrolVars
<1>12. QED
  BY <1>4, <1>5, <1>6, <1>7, <1>8, <1>9, <1>10, <1>11 DEF PatrolNext

LEMMA CourseStepInv ==
  CourseInv /\ [PatrolNext]_<<cppVars, patrolVars>> => CourseInv'
<1> SUFFICES ASSUME CourseInv, [PatrolNext]_<<cppVars, patrolVars>> PROVE CourseInv'
  OBVIOUS
<1>1. CppInv' /\ PatrolInv'
  BY PatrolIsCpp, CppStepInv, PatrolStepInv DEF CourseInv
<1>2. CASE UNCHANGED <<cppVars, patrolVars>>
  BY <1>1, <1>2 DEF CourseInv, OnItsOwn, OnCourse, Current, cppVars, patrolVars, mainVars, threadVars
<1>3. CASE PatrolNext
  <2>1. callback' = "goal" => subject' \in Goals
    BY <1>3 DEF PatrolNext, CourseInv, PatrolGoal, PatrolCancel, PatrolParsed, ShutdownCancels,
                ShutdownGoesOn, PatrolLoop, PatrolPrepares, LoopLooks, LoopSwitches, LoopAsksIdle,
                send_current_move_to_goal, ResponseStored, ResponseArrives, ResultArrives,
                MoveToServer, patrolVars
  <2>2. thread_pc' # "inner" => step' = "look"
    <3>1. CASE PatrolLoop
      BY <3>1 DEF PatrolLoop, PatrolPrepares, LoopLooks, LoopSwitches, LoopAsksIdle, LoopComes,
                  send_current_move_to_goal, InnerAt, ThreadAt, cppVars, threadVars
    <3>2. CASE ~PatrolLoop
      <4>1. step' = step
        BY <1>3, <3>2 DEF PatrolNext, PatrolGoal, PatrolCancel, PatrolParsed, ShutdownCancels,
                ShutdownGoesOn, ResponseStored, ResponseArrives, ResultArrives,
                MoveToServer, patrolVars
      <4>2. thread_pc' = thread_pc \/ thread_pc # "inner"
        BY <1>3, <3>2, PatrolLeavesThread DEF CourseInv
      <4>3. QED
        BY <4>1, <4>2 DEF CourseInv
    <3>3. QED
      BY <3>1, <3>2
  <2>3. ASSUME thread_pc' \in LoopPc, OnItsOwn' PROVE OnCourse'
    <3>1. CASE PatrolPrepares
      <4>1. /\ current_waypoint_index' = 0 /\ arrived_at' = 0
            /\ \A m \in Moves : moves[m] \in Move /\ moves'[m] = Stale(moves[m])
        BY <3>1 DEF PatrolPrepares, CourseInv, PatrolInv, DelegateOK
      <4>2. \A m \in Moves : ~Current(m)'
        BY <4>1, StaleMove DEF Current
      <4>3. QED
        BY <4>1, <4>2 DEF OnCourse
    <3>2. QED
      BY <1>3, <2>3, <3>1, StaysTaken, StaysOnCourse
  <2>4. QED
    BY <1>1, <2>1, <2>2, <2>3 DEF CourseInv
<1>4. QED
  BY <1>2, <1>3

\* What a turn to the other waypoint takes.
Turn ==
  thread_pc = "inner" /\ OnItsOwn /\ current_waypoint_index' # current_waypoint_index
    => arrived_at = current_waypoint_index

\* The patrol turns only when the goal for its waypoint, sent by this patrol, has
\* succeeded: never on the late result of an earlier one, for any goals and moves.
THEOREM PatrolTurnsOnArrival == PatrolSafety => TurnsOnArrival
<1>1. CourseInv /\ [PatrolNext]_<<cppVars, patrolVars>> => [Turn]_<<cppVars, patrolVars>>
  <2> SUFFICES ASSUME CourseInv, PatrolNext, thread_pc = "inner", OnItsOwn,
                      current_waypoint_index' # current_waypoint_index
               PROVE  arrived_at = current_waypoint_index
    BY DEF Turn
  <2>1. LoopSwitches
    BY DEF PatrolNext, PatrolGoal, PatrolCancel, PatrolParsed, ShutdownCancels, ShutdownGoesOn,
           PatrolLoop, PatrolPrepares, PrepareLoop, ThreadAt, LoopLooks, LoopAsksIdle,
           send_current_move_to_goal, ResponseStored, ResponseArrives, ResultArrives, MoveToServer,
           patrolVars, OnItsOwn
  <2>2. QED
    BY <2>1 DEF LoopSwitches, InnerAt, CourseInv, LoopPc, OnCourse
<1>2. TurnsOnArrival <=> [][Turn]_<<cppVars, patrolVars>>
  BY PTL DEF TurnsOnArrival, Turn
<1>3. QED
  BY <1>1, <1>2, CourseInitInv, CourseStepInv, PTL DEF PatrolSafety

\* With the callbacks of the patrol the server makes no step that CppActionServer
\* does not make: what is proved of the server holds of the patrol.
THEOREM PatrolIsCppServer == PatrolSafety => CppSafety
<1>1. CourseInv /\ [PatrolNext]_<<cppVars, patrolVars>> => [CppNext]_cppVars
  BY PatrolIsCpp
<1>2. QED
  BY <1>1, CourseInitInv, CourseStepInv, PTL DEF PatrolSafety, CppSafety
=============================================================================
