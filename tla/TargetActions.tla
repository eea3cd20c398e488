---------------------------- MODULE TargetActions ----------------------------
(***************************************************************************)
(* Evolo's actions on a target, evolo_target_intercept.cpp and             *)
(* evolo_target_inspect.cpp: action servers that forward the controls the  *)
(* backend plans, after a gate.  The inspection is the interception        *)
(* without a geofence.                                                     *)
(*                                                                         *)
(* The main thread stores the last message of each topic, and drops them   *)
(* when a goal comes or is cancelled; loop_inner reads them on the         *)
(* execution thread, and nothing guards them.  Each access to a message is *)
(* a step.  What a message says, and whether it is fresh, is a choice      *)
(* where it is read; to read one that is gone ends the process.            *)
(***************************************************************************)
EXTENDS CppActionServer

CONSTANTS
  FencedGoals  (* the goals that ask for geofence_check_enabled, by       *)
               (* themselves or by the node's default                     *)

ASSUME TargetAssumption == FencedGoals \subseteq Goals

VARIABLES
  intercepts,  (* which of the two nodes it is                             *)
  default_geofence_check_enabled,
  geofence_check_enabled,
  cached,      (* the topics with a last message                           *)
  stage,       (* where loop_inner stands                                  *)
  receiving,   (* the goal on_goal_received is about                       *)
  crashed      (* a null pointer has been read                             *)

targetConfig == <<intercepts, default_geofence_check_enabled>>
targetVars   == <<targetConfig, geofence_check_enabled, cached, stage, receiving, crashed>>

Topics == {"status", "path", "control", "geofence", "polygons"}
Stages == {"status?", "status", "path?", "path", "control?", "control", "valid path",
           "valid control", "fence?", "geofence?", "geofence", "polygons?", "polygons",
           "forward", "forward fenced"}

TargetTypeOK ==
  /\ CppTypeOK
  /\ {intercepts, default_geofence_check_enabled, geofence_check_enabled, crashed} \subseteq BOOLEAN
  /\ cached \subseteq Topics
  /\ stage \in Stages
  /\ receiving \in Handles

TargetInit ==
  /\ intercepts \in BOOLEAN
  /\ default_geofence_check_enabled \in BOOLEAN
  /\ geofence_check_enabled = default_geofence_check_enabled
  /\ cached = {}
  /\ stage = "status?"
  /\ receiving = NoGoal /\ crashed = FALSE

Listening == MainAt("spin") /\ receiving = NoGoal
-----------------------------------------------------------------------------
(* The main thread: on_goal_received drops the messages, and has the default *)
(* back, before it looks at the goal.                                      *)
GoalResets(g) ==
  /\ Listening
  /\ goal_status[g] = "unknown" /\ ~Refusing
  /\ cached' = {}
  /\ geofence_check_enabled' = default_geofence_check_enabled
  /\ receiving' = g
  /\ UNCHANGED <<cppVars, targetConfig, stage, crashed>>

(* An interception may ask for something that is no boolean. *)
TargetParsed(accepts) ==
  /\ receiving # NoGoal
  /\ intercepts \/ accepts
  /\ ReceiveGoal(receiving, accepts)
  /\ geofence_check_enabled' = IF accepts THEN receiving \in FencedGoals
                                          ELSE geofence_check_enabled
  /\ receiving' = NoGoal
  /\ UNCHANGED <<targetConfig, cached, stage, crashed>>

TargetCancel(g) ==
  /\ Listening
  /\ ReceiveCancel(g)
  /\ cached' = {}
  /\ geofence_check_enabled' = default_geofence_check_enabled
  /\ UNCHANGED <<targetConfig, stage, receiving, crashed>>

MessageArrives(topic) ==
  /\ Listening
  /\ intercepts \/ topic \notin {"geofence", "polygons"}
  /\ cached' = cached \cup {topic}
  /\ UNCHANGED <<cppVars, targetConfig, geofence_check_enabled, stage, receiving, crashed>>

TargetPrepares ==
  /\ PrepareLoop(FALSE)
  /\ cached' = {}
  /\ stage' = "status?"
  /\ UNCHANGED <<targetConfig, geofence_check_enabled, receiving, crashed>>
-----------------------------------------------------------------------------
(* loop_inner. *)

StageAt(s) == ThreadAt("inner") /\ stage = s
GoesTo(s)  == stage' = s /\ UNCHANGED cppVars
Comes(loop_status) == LoopInner(loop_status) /\ stage' = "status?"

(* The pointer is tested, ... *)
Tested(at, topic, missing) ==
  /\ StageAt(at)
  /\ IF topic \in cached THEN GoesTo(topic) ELSE Comes(missing)
  /\ UNCHANGED crashed

(* ... and followed: what it points to passes, or is stale or unfit.       *)
Followed(at, topic, next) ==
  /\ StageAt(at)
  /\ IF topic \in cached
       THEN (GoesTo(next) \/ Comes("FAILURE")) /\ UNCHANGED crashed
       ELSE crashed' = TRUE /\ UNCHANGED <<cppVars, stage>>

(* A status that is stale or has no plan is waited for. *)
StatusWaits ==
  /\ StageAt("status")
  /\ "status" \in cached
  /\ Comes("RUNNING")
  /\ UNCHANGED crashed

\* Mutant: the control is validated without a test that there is one.
Gate_ControlUntested ==
  \/ Tested("status?", "status", "RUNNING") \/ StatusWaits
  \/ Followed("status", "status", "path?")
  \/ Tested("path?", "path", "FAILURE") \/ Followed("path", "path", "valid path")
  \/ Followed("valid path", "path", "valid control")
  \/ Followed("valid control", "control", "fence?")

(* loop_inner and candidate_control_is_safe_to_forward, up to the geofence. *)
Gate ==
  \/ Tested("status?", "status", "RUNNING") \/ StatusWaits
  \/ Followed("status", "status", "path?")
  \/ Tested("path?", "path", "FAILURE")    \/ Followed("path", "path", "control?")
  \/ Tested("control?", "control", "FAILURE") \/ Followed("control", "control", "valid path")
  \/ Followed("valid path", "path", "valid control")
  \/ Followed("valid control", "control", "fence?")

(* candidate_path_is_geofence_safe. *)
FenceAsked ==
  /\ StageAt("fence?")
  /\ GoesTo(IF intercepts /\ geofence_check_enabled THEN "geofence?" ELSE "forward")
  /\ UNCHANGED crashed

FenceGate ==
  \/ FenceAsked
  \/ Tested("geofence?", "geofence", "FAILURE") \/ Followed("geofence", "geofence", "polygons?")
  \/ Tested("polygons?", "polygons", "FAILURE") \/ Followed("polygons", "polygons", "forward fenced")

Forward ==
  /\ StageAt("forward") \/ StageAt("forward fenced")
  /\ IF "control" \in cached THEN Comes("RUNNING") /\ UNCHANGED crashed
                             ELSE crashed' = TRUE /\ UNCHANGED <<cppVars, stage>>

TargetLoop ==
  /\ Gate \/ FenceGate \/ Forward
  /\ UNCHANGED <<targetConfig, geofence_check_enabled, cached, receiving>>
-----------------------------------------------------------------------------
TargetNext ==
  /\ ~crashed
  /\ \/ \E g \in Goals :
          \/ receiving = NoGoal /\ RefuseGoal(g) /\ UNCHANGED targetVars
          \/ GoalResets(g) \/ TargetCancel(g)
     \/ \E accepts \in BOOLEAN : TargetParsed(accepts)
     \/ \E topic \in Topics : MessageArrives(topic)
     \/ receiving = NoGoal /\ RequestShutdown /\ UNCHANGED targetVars
     \/ (MainStep \/ ThreadOwnStep) /\ UNCHANGED targetVars
     \/ TargetPrepares \/ TargetLoop

TargetSafety == CppInit /\ TargetInit /\ [][TargetNext]_<<cppVars, targetVars>>
-----------------------------------------------------------------------------
(* Properties. *)

\* The tests of the loop keep it from reading a message that is not there, unless
\* a goal is cancelled or requested while it runs.
NullOnlyAfterReset ==
  crashed =>
    \/ main_pc \in {"cancelling", "accepting", "joining"} \/ receiving # NoGoal
    \/ goal_status[thread_goal] # "EXECUTING"
    \/ \E g \in Goals : goal_status[g] = "rejected"

\* "When evolo_target_intercept is started with geofence_check_enabled:=true, this
\* status must be fresh and STATUS_INSIDE before backend control is forwarded", and
\* "a specific intercept goal can override" the parameter: while nobody cancels or
\* replaces a goal that asks for the check, no control passes without it.
FenceGateHolds ==
  StageAt("forward") /\ intercepts /\ Listening
    /\ active_goal_handle = thread_goal /\ goal_status[thread_goal] = "EXECUTING"
  => thread_goal \notin FencedGoals
=============================================================================
