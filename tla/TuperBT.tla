-------------------------------- MODULE TuperBT --------------------------------
(***************************************************************************)
(* LoLo's TUPER mission (lolo_tuper_bt.py, tuper_behaviours.py): go to the *)
(* start, follow the setpoint of the leaders until it stops, settle on it, *)
(* and return at the surface.  The root is a sequence with memory; the     *)
(* first and last phase are goals of one move_to server, the two between   *)
(* steer the vehicle object themselves.                                    *)
(*                                                                         *)
(* A cancellation resets the tree and the vehicle on a thread of its own,  *)
(* between any two accesses of a control phase to what they share.  What a *)
(* phase finds fresh, diverged, stopped or reached is a choice where it is *)
(* read.  A visit to a leg is one step.                                    *)
(***************************************************************************)
EXTENDS MissionServer, FiniteSets, Integers

CONSTANTS
  MaxLingering  (* bound: goals of earlier missions that are not over when    *)
                (* another one is requested                                *)

ASSUME LingeringAssumption == MaxLingering \in Nat

VARIABLES
  at,        (* where the loop of the mission stands                       *)
  visiting,  (* the phase its tick has come to                             *)
  path,      (* what the update of a control phase has found               *)
  root,      (* the status of the root, and ...                            *)
  current,   (* ... its current_child                                      *)
  control,   (* the control phase that is RUNNING, ...                     *)
  ever_ukf_ready, (* ... and what one that is in use remembers             *)
  course,    (* the vehicle object has a goal                              *)
  budget,    (* the mission's timeout                                      *)
  lingering  (* history: a goal of an earlier mission was not over when    *)
             (* this one started                                           *)

treeVars  == <<root, current, control, ever_ukf_ready>>
loopVars  == <<at, visiting, path>>
tuperVars == <<treeVars, loopVars, course, budget, lingering>>

Phases   == {"start", "follow", "settle", "return"}
Legs     == {"start", "return"}
Controls == Phases \ Legs
Places   == {"idle", "visit", "command", "publish", "read", "exit", "after"}
Paths    == {"stale", "hold", "drive"}

TuperTypeOK ==
  /\ at \in Places /\ visiting \in Phases /\ path \in Paths
  /\ root \in LeafStatus /\ current \in Phases \cup {"none"}
  /\ control \in Controls \cup {"none"}
  /\ {ever_ukf_ready, course, lingering} \subseteq BOOLEAN
  /\ budget \in {"left", "spent"}

TuperInit ==
  /\ at = "idle" /\ visiting = "start" /\ path = "hold"
  /\ root = "INVALID" /\ current = "none" /\ control = "none"
  /\ ever_ukf_ready = FALSE /\ course = FALSE /\ lingering = FALSE
  /\ budget = "left"

Leg(phase) == IF phase = "start" THEN "go_to_start" ELSE "surface_and_return"
TuperServers == {Leg(phase) : phase \in Legs}

ASSUME TuperClients == TuperServers \subseteq Servers

Next_(phase) ==
  CASE phase = "start" -> "follow" [] phase = "follow" -> "settle" [] phase = "settle" -> "return"

(* _reset_states: the root is stopped, and the vehicle has no goal. *)
ResetStates ==
  /\ link' = [s \in Servers |-> Stopped(s)]
  /\ leaf' = [s \in Servers |-> [leaf[s] EXCEPT !.status = "INVALID"]]
  /\ root' = "INVALID" /\ current' = "none"
  /\ control' = "none" /\ ever_ukf_ready' = FALSE
  /\ course' = FALSE
-----------------------------------------------------------------------------
(* The mission's goal. *)

Lingering == {p \in TuperServers \X Slots : link[p[1]].goals[p[2]].stage # "free"}

ReceiveTuper(valid) ==
  /\ Cardinality(Lingering) <= MaxLingering
  /\ MissionRequested(valid) /\ ResetStates
  /\ UNCHANGED <<loopVars, budget, lingering>>

PrepareTuper ==
  /\ MissionStarts /\ ResetStates
  /\ budget' = "left"
  /\ lingering' = (Lingering # {})
  /\ UNCHANGED loopVars

CancelTuper ==
  /\ MissionReset /\ ResetStates
  /\ UNCHANGED <<loopVars, budget, lingering>>

CancelingTuper == MissionCanceling /\ UNCHANGED <<linkVars, tuperVars>>

Elapse ==
  /\ mission \in InLoop /\ budget = "left"
  /\ budget' = "spent"
  /\ UNCHANGED <<linkVars, mission, treeVars, loopVars, course, lingering>>
-----------------------------------------------------------------------------
(* The loop, from one tick to the next. *)

At(place) == at = place
TickOver(place) == at' = place /\ visiting' = "start" /\ path' = "hold"

LoopCanceled ==
  /\ At("idle") /\ mission = "canceling"
  /\ mission' = "canceled"
  /\ UNCHANGED <<linkVars, tuperVars>>

\* Mutant: a mission that is out of time ends without a reset.
OutOfTime_NoReset ==
  /\ At("idle") /\ mission \in InLoop /\ budget = "spent"
  /\ mission' = "aborted"
  /\ UNCHANGED <<linkVars, tuperVars>>

\* Mutant: the timer is looked at only once the vehicle follows the setpoint.
OutOfTime_LegsExempt ==
  /\ At("idle") /\ mission \in InLoop /\ budget = "spent"
  /\ current \notin Legs
  /\ ResetStates
  /\ mission' = "aborted"
  /\ UNCHANGED <<loopVars, budget, lingering>>

(* The timer of the whole mission. *)
OutOfTime ==
  /\ At("idle") /\ mission \in InLoop /\ budget = "spent"
  /\ ResetStates
  /\ mission' = "aborted"
  /\ UNCHANGED <<loopVars, budget, lingering>>

(* A tick that would raise does: py_trees asserts a current_child.          *)
LoopRaises ==
  /\ mission' = RaisedStage
  /\ TickOver("idle")
  /\ UNCHANGED <<linkVars, treeVars, course, budget, lingering>>

\* Bound: a client has a slot for one more goal when a tick starts.
HasRoom == \A s \in TuperServers : \E g \in Slots : Unused(link[s], g)

StartTick ==
  /\ At("idle") /\ mission \in InLoop /\ budget = "left"
  /\ HasRoom
  /\ \/ root = "RUNNING" /\ current = "none" /\ LoopRaises
     \/ /\ root = "RUNNING" => current # "none"
        /\ at' = "visit"
        /\ current' = IF root = "RUNNING" THEN current ELSE "start"
        /\ visiting' = current'
        /\ UNCHANGED <<linkVars, mission, root, control, ever_ukf_ready, path, course,
                       budget, lingering>>

(* The phase that was visited comes to a status: the tick goes on to the    *)
(* next one, or is over.                                                   *)
Comes(status) ==
  IF status = "SUCCESS" /\ visiting # "return"
    THEN /\ current' = Next_(visiting) /\ visiting' = current'
         /\ at' = "visit" /\ path' = "hold"
         /\ UNCHANGED root
    ELSE root' = status /\ TickOver("after") /\ UNCHANGED current

AfterTick ==
  /\ At("after")
  /\ TickOver("idle")
  /\ IF root \in {"SUCCESS", "FAILURE"}
       THEN ResetStates /\ mission' = IF root = "SUCCESS" THEN "succeeded" ELSE "aborted"
       ELSE UNCHANGED <<linkVars, mission, treeVars, course>>
  /\ UNCHANGED <<budget, lingering>>
-----------------------------------------------------------------------------
(* The phases. *)

VisitLeg ==
  LET s == Leg(visiting)
      k == EnterClient(link[s], leaf[s])
      o == LeafUpdate(k)
  IN /\ At("visit") /\ visiting \in Legs
     /\ \E g \in Slots :
          /\ o = "send" => Unused(k, g)
          /\ link' = [link EXCEPT ![s] = AfterUpdate(k, o, g)]
     /\ leaf' = [leaf EXCEPT ![s].status = OutcomeStatus(o)]
     /\ Comes(OutcomeStatus(o))
     /\ UNCHANGED <<mission, control, ever_ukf_ready, course, budget, lingering>>

\* Mutant: a phase that succeeds leaves the vehicle its goal.
Finishes_KeepsGoal(status, found) ==
  /\ Comes(status)
  /\ IF status = "RUNNING"
       THEN control' = visiting /\ ever_ukf_ready' = found
       ELSE control' = "none" /\ ever_ukf_ready' = FALSE
  /\ course' = (course /\ status # "FAILURE")
  /\ UNCHANGED <<linkVars, mission, budget, lingering>>

(* A control phase comes to a status, found being what it has found of the  *)
(* UKF.  When it is over, terminate resets the goal of the vehicle.        *)
Finishes(status, found) ==
  /\ Comes(status)
  /\ IF status = "RUNNING"
       THEN control' = visiting /\ ever_ukf_ready' = found /\ UNCHANGED course
       ELSE control' = "none" /\ ever_ukf_ready' = FALSE /\ course' = FALSE
  /\ UNCHANGED <<linkVars, mission, budget, lingering>>

Goes(place) ==
  /\ at' = place
  /\ UNCHANGED <<linkVars, mission, root, current, control, visiting, budget, lingering>>

(* update, up to its command: before the UKF was ever ready only a          *)
(* FollowSetpoint goes on, by its own navigation; afterwards a pose that is *)
(* stale, and a target that is missing, are held for.                      *)
LookAround ==
  /\ At("visit") /\ visiting \in Controls
  /\ \E ready \in BOOLEAN :
       LET found == ready \/ ever_ukf_ready IN
         \/ /\ ever_ukf_ready' = found
            /\ path' \in CASE ~found /\ visiting = "follow" -> {"hold"}
                        [] found /\ visiting = "follow"  -> Paths
                        [] visiting = "settle"           -> Paths \ {"hold"}
            /\ Goes("command") /\ UNCHANGED course
         \/ (found \/ visiting = "settle") /\ Finishes("FAILURE", found)

(* _command: the vehicle takes the goal, or finds it beyond its limits.     *)
Command ==
  /\ At("command")
  /\ \/ course' = TRUE /\ Goes("publish")
     \/ Goes("exit") /\ UNCHANGED course
  /\ UNCHANGED <<path, ever_ukf_ready>>

(* Lolo.update tests that there is a goal, ... *)
Publish ==
  /\ At("publish")
  /\ Goes(IF course THEN "read" ELSE "exit")
  /\ UNCHANGED <<path, ever_ukf_ready, course>>

(* ... and reads it. *)
ReadGoal ==
  /\ At("read")
  /\ IF course THEN Goes("exit") /\ UNCHANGED <<path, ever_ukf_ready, course>>
               ELSE LoopRaises

(* The rest of update.  Its leaders have not stopped for a follower state   *)
(* that was reset meanwhile.                                               *)
Exit ==
  /\ At("exit")
  /\ \/ Finishes("RUNNING", ever_ukf_ready)
     \/ path = "stale" /\ Finishes("FAILURE", ever_ukf_ready)
     \/ path = "drive" /\ (visiting = "follow" => current # "none")
          /\ Finishes("SUCCESS", ever_ukf_ready)

TuperLoop ==
  \/ LoopCanceled \/ OutOfTime \/ StartTick \/ AfterTick
  \/ VisitLeg \/ LookAround \/ Command \/ Publish \/ ReadGoal \/ Exit

(* Both clients are of one server, which grants a cancellation that does    *)
(* not come too late.                                                      *)
MoveToAnswers ==
  /\ at \in {"idle", "visit", "after"}
  /\ \E s \in TuperServers, g \in Slots :
       \/ AnswersGoal(s, g, FALSE)
       \/ (\A x \in TuperServers : ~Executes(x)) /\ AnswersGoal(s, g, TRUE)
       \/ AnswersCancel(s, g, link[s].goals[g].stage = "EXECUTING")
       \/ \E stage \in Ended : AnswersResult(s, g, stage)
  /\ UNCHANGED tuperVars

TuperNext ==
  \/ \E valid \in BOOLEAN : ReceiveTuper(valid)
  \/ PrepareTuper \/ CancelTuper \/ CancelingTuper
  \/ Elapse
  \/ TuperLoop
  \/ MoveToAnswers

TuperSafety ==
  /\ LinkInit /\ mission = "none" /\ TuperInit
  /\ [][TuperNext]_<<linkVars, mission, tuperVars>>
-----------------------------------------------------------------------------
(* Properties. *)

\* "It fails the task when the budget is exhausted", "regardless of which phase
\* is active": whatever a phase waits for, every mission ends.
TuperEnds == mission = "running" ~> mission \in Over

LegsAskedToStop ==
  \A s \in TuperServers, g \in Slots :
    link[s].goals[g].stage = "EXECUTING" => "cancel" \in link[s].goals[g].transit

\* A mission that succeeds or aborts has reset the goal of the vehicle; and the goals
\* of its legs are over or asked to be cancelled, unless it was being cancelled, or an
\* earlier mission's were in the way.  Nothing is claimed of a mission that ends
\* cancelled: a phase may set the vehicle's goal once more after on_cancel_received.
FinishedMissionLetsGo ==
  [][mission' \in {"succeeded", "aborted"} /\ mission \in InLoop =>
       ~course' /\ (mission = "running" /\ ~lingering => LegsAskedToStop')
    ]_<<linkVars, mission, tuperVars>>

\* A leg drives by the move_to server, the phases between by the vehicle object, and
\* both set the same thrusters: while the vehicle has a goal of this node, no leg's
\* goal is under way or asked for, whatever phases come and go, until the mission is
\* cancelled, and unless an earlier mission's goals were in the way.
OneDriver ==
  mission = "running" /\ ~lingering /\ course =>
    \A s \in TuperServers, g \in Slots : link[s].goals[g].stage = "free"
=============================================================================
