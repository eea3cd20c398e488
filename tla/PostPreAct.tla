------------------------------ MODULE PostPreAct ------------------------------
(***************************************************************************)
(* What the mission trees of prox_ops_bt and alars_bt have in common.  A   *)
(* memoryless fallback holds subtrees made by _post_pre_act:               *)
(*                                                                         *)
(*   FB <title>                                     memoryless fallback    *)
(*     post-condition                                                      *)
(*     SQ Try                                       sequence with memory   *)
(*       pre-condition                                                     *)
(*       SQ Do: set goal, A_ActionClient            sequence with memory   *)
(*                                                                         *)
(* A sequence with memory that is RUNNING is resumed at its action: what a *)
(* subtree keeps between ticks is the status of its leaf.                  *)
(*                                                                         *)
(* The callbacks of the action clients and the cancellation of the mission *)
(* run between any two subtrees of a tick.  The action servers stay up.    *)
(***************************************************************************)
EXTENDS MissionServer, FiniteSets, Integers, Sequences

CONSTANTS
  MaxLingering  (* bound: goals not ended yet that no leaf serves any more,  *)
                (* when another is sent                                     *)

ASSUME LingeringAssumption == MaxLingering \in Nat

VARIABLES
  visiting,    (* the subtree the tick has come to, "between" two ticks,   *)
               (* or in loop_inner "after" the tick                        *)
  root_failed, (* the root has come to FAILURE in this tick                *)
  left_over    (* leaves still RUNNING for an earlier mission, whose goal  *)
               (* string and pre-condition they have                       *)

missionVars == <<mission, visiting, root_failed, left_over>>

MissionTypeOK ==
  /\ LinkTypeOK
  /\ mission \in Stages
  /\ visiting \in Servers \cup {"between", "after"}
  /\ root_failed \in BOOLEAN
  /\ left_over \in SUBSET Servers

MissionInit ==
  /\ LinkInit
  /\ mission = "none"
  /\ visiting = "between" /\ root_failed = FALSE
  /\ left_over = {}

LeafRuns(s) == leaf[s].status = "RUNNING"

(* _reset_states terminates the clients, and leaves the tree as it is. *)
ClientsReset == link' = [s \in Servers |-> terminate(link[s], "INVALID")]
-----------------------------------------------------------------------------
(* The mission's goal: requested, started, cancelled. *)

(* on_goal_received resets first, whether or not the goal is any good. *)
ReceiveMission(valid) ==
  /\ MissionRequested(valid)
  /\ ClientsReset
  /\ UNCHANGED <<leaf, visiting, root_failed, left_over>>

PrepareMission ==
  /\ MissionStarts
  /\ ClientsReset
  /\ UNCHANGED <<leaf, visiting, root_failed, left_over>>

ReceiveCancel ==
  /\ MissionReset
  /\ ClientsReset
  /\ UNCHANGED <<leaf, visiting, root_failed, left_over>>

CancelAccepted ==
  /\ MissionCanceling
  /\ UNCHANGED <<linkVars, visiting, root_failed, left_over>>

RunningLeaves == {s \in Servers : leaf[s].status = "RUNNING"}

MissionEnds(stage) ==
  /\ mission' = stage
  /\ visiting' = "between"
  /\ left_over' = RunningLeaves

(* The loop of the goal, from one iteration to the next. *)
LoopCanceled ==
  /\ visiting = "between"
  /\ mission = "canceling"
  /\ MissionEnds("canceled")
  /\ UNCHANGED <<linkVars, root_failed>>

StartTick(order) ==
  /\ visiting = "between"
  /\ mission \in InLoop
  /\ visiting' = Head(order)
  /\ root_failed' = FALSE
  /\ UNCHANGED <<linkVars, mission, left_over>>

(* loop_inner after the tick: it goes on, ... *)
LoopGoesOn ==
  /\ visiting = "after"
  /\ visiting' = "between"
  /\ UNCHANGED <<linkVars, mission, root_failed, left_over>>

(* ... or resets and ends the mission. *)
LoopEnds(succeeds) ==
  /\ visiting = "after"
  /\ ClientsReset
  /\ MissionEnds(IF succeeds THEN "succeeded" ELSE "aborted")
  /\ UNCHANGED <<leaf, root_failed>>
-----------------------------------------------------------------------------
(* A tick visits one subtree after the other. *)

Below(order, s) ==
  {order[j] : j \in {k \in DOMAIN order : \E i \in 1..(k - 1) : order[i] = s}}

(* The subtree of s comes to a status, and leaves client k and leaf status f *)
(* behind.  The root stops what is below a subtree that did not fail.       *)
Comes(order, s, k, f, status) ==
  LET stopped == IF status = "FAILURE" THEN {}
                 ELSE {x \in Below(order, s) : leaf[x].status # "INVALID"}
  IN /\ link' = [x \in Servers |-> IF x = s THEN k
                                   ELSE IF x \in stopped THEN terminate(link[x], "INVALID")
                                   ELSE link[x]]
     /\ leaf' = [x \in Servers |-> IF x = s THEN [leaf[x] EXCEPT !.status = f]
                                   ELSE IF x \in stopped THEN [leaf[x] EXCEPT !.status = "INVALID"]
                                   ELSE leaf[x]]
     /\ left_over' = {x \in left_over : leaf'[x].status = "RUNNING"}
     /\ IF status = "FAILURE" /\ Below(order, s) # {}
          THEN /\ \E j \in 2..Len(order) : order[j - 1] = s /\ visiting' = order[j]
               /\ UNCHANGED root_failed
          ELSE visiting' = "after" /\ root_failed' = (status = "FAILURE")

(* The post-condition holds. *)
PostHolds(order, s) ==
  /\ visiting = s
  /\ Comes(order, s, Stopped(s), "INVALID", "SUCCESS")
  /\ UNCHANGED mission

(* Neither the post- nor the pre-condition holds; or the goal could not be  *)
(* set, and comes says what becomes of the subtree.                        *)
Untried(order, s, comes) ==
  /\ visiting = s
  /\ ~LeafRuns(s)
  /\ Comes(order, s, Stopped(s), "INVALID", comes)
  /\ UNCHANGED mission

(* The action is ticked and comes to a status, and the subtree with it:     *)
(* comes says to which.                                                    *)
TickAction(order, s, k, status, comes) ==
  LET o == LeafUpdate(k) IN
    /\ OutcomeStatus(o) = status
    /\ \E g \in Slots :
         /\ o = "send" => Unused(k, g)
         /\ Comes(order, s, AfterUpdate(k, o, g), status, comes)
    /\ UNCHANGED mission

Lingering ==
  {s \in Servers : ~LeafRuns(s) /\ \E g \in Slots : link[s].goals[g].stage # "free"}

(* The pre-condition holds: the goal is set, the client set up (it is READY *)
(* after that, or busy), and the action ticked.                            *)
TryAction(order, s, setup, status, comes) ==
  /\ visiting = s
  /\ ~LeafRuns(s)
  /\ Cardinality(Lingering) <= MaxLingering
  /\ LET k == Stopped(s)
         r == IF setup /\ k.state \notin running_states THEN get_ready(k) ELSE k
     IN TickAction(order, s, cancel_if_running(r), status, comes)

(* The sequence remembers that its action is running: the pre-condition is  *)
(* not looked at, and the goal not set.                                    *)
ResumeAction(order, s, status, comes) ==
  /\ visiting = s
  /\ LeafRuns(s)
  /\ TickAction(order, s, link[s], status, comes)
-----------------------------------------------------------------------------
(* What comes during a tick comes here before it, or after the tick's last   *)
(* visit: a visit looks at one client only.                                *)
ServersAnswer(s, accepting) ==
  /\ visiting \in {"between", "after"}
  /\ ServerAnswers(s, accepting)
  /\ UNCHANGED <<visiting, root_failed, left_over>>
=============================================================================
