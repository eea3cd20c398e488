----------------------------- MODULE AlarsActions -----------------------------
(***************************************************************************)
(* The action servers that fly the drone of ALARS: move_to, alars_recover, *)
(* alars_search and alars_follow_auv, each the callbacks of an ActionServer *)
(* (alars_*_action_server.py).  A behaviour is one of the four.             *)
(*                                                                         *)
(* Every goal of a server uses the same attributes: on_goal_received and   *)
(* on_cancel_received write them on threads of their own, and the loop of a *)
(* goal that is being cancelled goes on until it tests for that.  The      *)
(* writes of one callback are one step; loop_inner is split where another  *)
(* thread may spoil what it has read.                                      *)
(*                                                                         *)
(* A target is named by the goal it came with.  Where the drone is, what   *)
(* it sees, and what can be transformed are choices where they are read.   *)
(***************************************************************************)
EXTENDS ActionServer, Sequences

CONSTANTS
  Points       (* bound: the points of a recovery, 6 or 12 in the code     *)

ASSUME PointsAssumption == Points \in Nat \ {0}

VARIABLES
  action,      (* which of the four                                        *)
  cancel,      (* where the thread of a goal's cancel request stands       *)
  step,        (* where a task stands in loop_inner                        *)
  local,       (* the target that it has read                              *)
  aim,         (* whose goal the attributes describe: _goal_in_map,        *)
               (* _search_center_map, _follow_altitude, the distances of a *)
               (* recovery; NoGoal for None or a default pose              *)
  flat,        (* _goal_in_base_flat                                       *)
  known,       (* _distance_remaining, _follow_start_time is not None      *)
  setpoint,    (* _current_setpoint; {} for None                           *)
  _points, _wp_index,
  flown,       (* the last setpoint: by whose loop, to whose target        *)
  reached,     (* history: how many of its own points a goal has reached   *)
  touched      (* history: goals that on_cancel_received, or the loop of a *)
               (* goal before, has overlapped                              *)

attributes == <<aim, flat, known, setpoint, _points, _wp_index>>
histories  == <<flown, reached, touched>>
userVars   == <<action, cancel, step, local, attributes, histories>>
alarsVars  == <<serverVars, userVars>>

Actions == {"move_to", "alars_recover", "alars_search", "alars_follow_auv"}
Targets == Goals \cup {NoGoal}
Steps   == {"enter", "transform", "near", "again", "spiral", "time", "fly", "tell"}

AlarsTypeOK ==
  /\ ServerTypeOK
  /\ action \in Actions
  /\ cancel \in [Goals -> {"none", "offered", "answered"}]
  /\ step \in [Goals -> Steps] /\ local \in [Goals -> Targets]
  /\ {aim, flat} \cup setpoint \subseteq Targets /\ known \in BOOLEAN
  /\ _points \in {<<>>} \cup [1..Points -> Targets \X (1..Points)]
  /\ _wp_index \in 0..Points
  /\ flown \in [by : Targets, to : Targets]
  /\ reached \in [Goals -> 0..Points] /\ touched \subseteq Goals

AlarsInit ==
  /\ ServerInit
  /\ action \in Actions
  /\ cancel = [g \in Goals |-> "none"]
  /\ step = [g \in Goals |-> "enter"] /\ local = [g \in Goals |-> NoGoal]
  /\ aim = NoGoal /\ flat = NoGoal /\ known = FALSE /\ setpoint = {}
  /\ _points = <<>> /\ _wp_index = 0
  /\ flown = [by |-> NoGoal, to |-> NoGoal]
  /\ reached = [g \in Goals |-> 0] /\ touched = {}

Is(a) == action = a
-----------------------------------------------------------------------------
(* on_goal_received.                                                       *)

(* What <<aim, flat>> may be afterwards.  Attributes are written as the goal *)
(* is read, also those of a goal that is refused.                          *)
MoveToWrites(g, accepted) ==
  IF accepted THEN {<<g, g>>}
              ELSE {<<aim, flat>>, <<NoGoal, flat>>, <<g, NoGoal>>, <<g, g>>}

RecoverWrites(g, accepted) ==
  {<<g, flat>>} \cup IF accepted THEN {} ELSE {<<aim, flat>>}

\* A search whose centre cannot be transformed is accepted, with a default one.
SearchWrites(g, accepted) ==
  {<<NoGoal, flat>>} \cup IF accepted THEN {<<g, flat>>} ELSE {}

FollowWrites(g, accepted) ==
  {<<g, flat>>} \cup IF accepted THEN {} ELSE {<<NoGoal, flat>>}

Written(g, accepted) ==
  CASE Is("move_to")          -> MoveToWrites(g, accepted)
    [] Is("alars_recover")    -> RecoverWrites(g, accepted)
    [] Is("alars_search")     -> SearchWrites(g, accepted)
    [] Is("alars_follow_auv") -> FollowWrites(g, accepted)

InFlight == {t \in Goals : execution[t] \in InExecution}

(* A distance of a recovery that is no number raises. *)
ReceiveGoal(g, accepted) ==
  /\ IF accepted THEN UserAccepts(g)
                 ELSE \E raises \in {FALSE, Is("alars_recover")} : UserRefuses(g, raises)
  /\ \E written \in Written(g, accepted) : aim' = written[1] /\ flat' = written[2]
  /\ IF action \in {"alars_search", "alars_follow_auv"}
       THEN known' = FALSE /\ setpoint' = {}
       ELSE UNCHANGED <<known, setpoint>>
  /\ touched' = IF InFlight = {} THEN touched ELSE touched \cup {g}
  /\ UNCHANGED <<action, cancel, step, local, _points, _wp_index, flown, reached>>
-----------------------------------------------------------------------------
(* Cancel requests: rclpy offers the callback a goal that can be cancelled, *)
(* and looks at the goal again once the callback has agreed.               *)

CancelOffered(g) ==
  /\ alive /\ status[g] \in Uncanceled
  /\ cancel[g] = "none"
  /\ cancel' = [cancel EXCEPT ![g] = "offered"]
  /\ UNCHANGED <<serverVars, action, step, local, attributes, histories>>

ReceiveCancel(g) ==
  /\ alive
  /\ cancel[g] = "offered"
  /\ cancel' = [cancel EXCEPT ![g] = "answered"]
  /\ aim' = IF Is("alars_recover") THEN aim ELSE NoGoal
  /\ known' = (known /\ ~Is("alars_follow_auv"))
  /\ setpoint' = {} /\ _points' = <<>> /\ _wp_index' = 0
  /\ touched' = touched \cup {h \in Goals : status[h] # "unknown"}
  /\ UNCHANGED <<serverVars, action, step, local, flat, flown, reached>>

CancelAnswered(g) ==
  /\ alive
  /\ cancel[g] = "answered"
  /\ cancel' = [cancel EXCEPT ![g] = "none"]
  /\ IF status[g] \in Uncanceled THEN CancelAccepted(g) ELSE UNCHANGED serverVars
  /\ UNCHANGED <<action, step, local, attributes, histories>>
-----------------------------------------------------------------------------
(* prepare_loop.                                                           *)

Course(g) == [i \in 1..Points |-> <<g, i>>]

\* Mutant: the recovery before is not reset; with a buoy its points stay.
PrepareRecovery_NoReset ==
  /\ _points' \in {Course(aim), _points \o Course(aim)}
  /\ UNCHANGED _wp_index

PrepareRecovery ==
  /\ _points' = Course(aim)
  /\ _wp_index' = 0

PrepareAction(t) ==
  /\ Prepare(t, FALSE)
  /\ IF Is("alars_recover") THEN PrepareRecovery ELSE UNCHANGED <<_points, _wp_index>>
  /\ known' = (Is("alars_follow_auv") \/ (known /\ ~Is("move_to")))
  /\ UNCHANGED <<action, cancel, step, local, aim, flat, setpoint, histories>>
-----------------------------------------------------------------------------
(* loop_inner and give_feedback.                                           *)

Stands(t, s) == At(t, "inner") /\ step[t] = s

Goes(t, s)       == step' = [step EXCEPT ![t] = s] /\ UNCHANGED serverVars
Loops(t)         == step' = [step EXCEPT ![t] = "enter"] /\ LoopContinues(t)
Raises(t)        == step' = [step EXCEPT ![t] = "enter"] /\ LoopRaises(t)
Returns(t, done) == step' = [step EXCEPT ![t] = "enter"] /\ LoopReturns(t, done)

FliesTo(t, target) == flown' = [by |-> running[t], to |-> target]

\* p is a point of some goal's course.
Reaches(t, p) ==
  reached' = [reached EXCEPT ![running[t]] = IF p = <<running[t], @ + 1>> THEN @ + 1 ELSE @]

\* give_feedback tests what it prints; either may have been reset before it.
Tells(t) ==
  /\ Stands(t, "tell")
  /\ \/ Loops(t)
     \/ (~known \/ (Is("alars_follow_auv") /\ aim = NoGoal)) /\ Raises(t)
  /\ UNCHANGED <<local, attributes, flown, reached>>

(* move_to: a goal that was taken away has no frame to transform from.     *)
MoveTo(t) ==
  \/ /\ Stands(t, "enter")
     /\ IF aim = NoGoal THEN Raises(t) /\ UNCHANGED local
                        ELSE Goes(t, "transform") /\ local' = [local EXCEPT ![t] = aim]
     /\ UNCHANGED <<attributes, flown, reached>>
  \/ /\ Stands(t, "transform")
     /\ \/ flat' = NoGoal /\ Returns(t, FALSE)
        \/ flat' = local[t] /\ Goes(t, "fly")
     /\ UNCHANGED <<local, aim, known, setpoint, _points, _wp_index, flown, reached>>
  \/ /\ Stands(t, "fly")
     /\ \/ /\ \/ Loops(t)
              \/ flat = NoGoal /\ (Returns(t, FALSE) \/ Raises(t))
           /\ UNCHANGED <<known, flown, reached>>
        \/ /\ flat # NoGoal
           /\ known' = TRUE
           /\ \/ Returns(t, TRUE) /\ Reaches(t, <<flat, 1>>) /\ UNCHANGED flown
              \/ Goes(t, "tell") /\ FliesTo(t, flat) /\ UNCHANGED reached
     /\ UNCHANGED <<local, aim, flat, setpoint, _points, _wp_index>>
  \/ Tells(t)

(* alars_recover: without points, it is complete. *)
Recover(t) ==
  /\ \/ /\ Stands(t, "enter")
        /\ \/ Returns(t, FALSE)
           \/ _wp_index >= Len(_points) /\ Returns(t, TRUE)
           \/ _wp_index < Len(_points) /\ Goes(t, "fly")
        /\ UNCHANGED <<_wp_index, flown, reached>>
     \/ /\ Stands(t, "fly")
        /\ \/ _wp_index >= Len(_points) /\ Raises(t) /\ UNCHANGED <<_wp_index, flown, reached>>
           \/ /\ _wp_index < Len(_points)
              /\ Loops(t)
              /\ LET p == _points[_wp_index + 1] IN
                   \/ _wp_index' = _wp_index + 1 /\ Reaches(t, p) /\ UNCHANGED flown
                   \/ FliesTo(t, p[1]) /\ UNCHANGED <<_wp_index, reached>>
  /\ UNCHANGED <<local, aim, flat, known, setpoint, _points>>

(* alars_search: the AUV is seen, or its projection waited for; or there is *)
(* a setpoint to get near to; or the spiral goes on around the centre.      *)
Search(t) ==
  /\ \/ /\ Stands(t, "enter")
        /\ \/ \E done \in BOOLEAN : Returns(t, done)
           \/ Loops(t)
           \/ Goes(t, IF setpoint = {} THEN "spiral" ELSE "near")
        /\ UNCHANGED <<local, setpoint, flown>>
     \/ /\ Stands(t, "near")
        /\ \/ setpoint = {} /\ Raises(t) /\ UNCHANGED setpoint
           \/ setpoint # {} /\ Goes(t, "again") /\ UNCHANGED setpoint
           \/ setpoint # {} /\ Goes(t, "spiral") /\ setpoint' = {}
        /\ UNCHANGED <<local, flown>>
     \/ /\ Stands(t, "again")
        /\ \/ setpoint = {} /\ (Loops(t) \/ Raises(t)) /\ UNCHANGED flown
           \/ Loops(t) /\ \E target \in setpoint : FliesTo(t, target)
        /\ UNCHANGED <<local, setpoint>>
     \/ /\ Stands(t, "spiral")
        /\ \/ Returns(t, FALSE) /\ UNCHANGED local
           \/ Goes(t, "fly") /\ local' = [local EXCEPT ![t] = aim]
        /\ UNCHANGED <<setpoint, flown>>
     \/ /\ Stands(t, "fly")
        /\ Loops(t)
        /\ setpoint' = {local[t]} /\ FliesTo(t, local[t])
        /\ UNCHANGED local
  /\ UNCHANGED <<aim, flat, known, _points, _wp_index, reached>>

(* alars_follow_auv: until the projection is stale, or time is out. *)
Follow(t) ==
  \/ /\ Stands(t, "enter")
     /\ \/ \E done \in BOOLEAN : Returns(t, done)
        \/ known /\ aim # NoGoal /\ Goes(t, "time")
     /\ UNCHANGED <<local, attributes, flown, reached>>
  \/ /\ Stands(t, "time")
     /\ \/ (aim = NoGoal \/ ~known) /\ Raises(t)
        \/ aim # NoGoal /\ known /\ Returns(t, TRUE)
        \/ aim # NoGoal /\ Goes(t, "fly")
     /\ UNCHANGED <<local, attributes, flown, reached>>
  \/ /\ Stands(t, "fly")
     /\ IF aim = NoGoal THEN Raises(t) /\ UNCHANGED flown
                        ELSE Goes(t, "tell") /\ FliesTo(t, aim)
     /\ UNCHANGED <<local, attributes, reached>>
  \/ Tells(t)

Loop(t) ==
  /\ \/ Is("move_to") /\ MoveTo(t)
     \/ Is("alars_recover") /\ Recover(t)
     \/ Is("alars_search") /\ Search(t)
     \/ Is("alars_follow_auv") /\ Follow(t)
  /\ UNCHANGED <<action, cancel, touched>>
-----------------------------------------------------------------------------
(* A request that is no JSON raises before on_goal_received. *)
AlarsRequest(g) ==
  \/ (CheckFailure(g) \/ UserRefuses(g, TRUE) \/ RegisterGoal(g) \/ Execute(g))
       /\ UNCHANGED userVars
  \/ \E accepted \in BOOLEAN : ReceiveGoal(g, accepted)

AlarsTask(t) ==
  \/ PrepareAction(t)
  \/ Loop(t)
  \/ (LoopTest(t) \/ CancelNormal(t) \/ CancelForever(t)) /\ UNCHANGED userVars

AlarsNext ==
  \E g \in Goals :
    \/ CheckValid(g) /\ UNCHANGED userVars
    \/ AlarsRequest(g) \/ AlarsTask(g)
    \/ CancelOffered(g) \/ ReceiveCancel(g) \/ CancelAnswered(g)

AlarsSafety == AlarsInit /\ [][AlarsNext]_alarsVars
-----------------------------------------------------------------------------
(* Properties. *)

\* The loop of a goal flies to its own target or to none, but never to the target
\* of another goal, unless a cancellation, or the loop of the goal before, has
\* overlapped it: it is is_valid_goal that keeps the attributes from the requests
\* that arrive while the goal runs.
FliesToNoOthersTarget ==
  flown.by \notin touched => flown.to \in {flown.by, NoGoal}

\* move_to and the recovery succeed only when every point of their own has been
\* reached in order, unless the same has overlapped them.
SuccessIsArrival ==
  \A g \in Goals \ touched :
    status[g] = "SUCCEEDED" =>
      /\ Is("move_to") => reached[g] = 1
      /\ Is("alars_recover") => reached[g] = Points
=============================================================================
