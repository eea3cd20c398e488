---------------------------- MODULE GeofenceNode ----------------------------
(***************************************************************************)
(* The node that keeps the geofence (geofence_node.py).  Actions start and *)
(* stop fences and islands; a timer checks the vehicle's position against  *)
(* them and publishes a status.  The timer, and the subscription to the    *)
(* position, take turns; the callbacks of the actions run on other threads *)
(* and write between any two reads of a check.                             *)
(*                                                                         *)
(* Altitudes are told apart against one ceiling and one floor above which  *)
(* and below which a vehicle may be; a polygon is a name, and a position   *)
(* says which polygons it is within: PointInPolygon has the test for that.  *)
(***************************************************************************)
EXTENDS FiniteSets, Integers, Sequences

CONSTANTS
  Polygons,     (* what the goals send                                     *)
  NoPosition,   (* None                                                    *)
  MaxCalls      (* bound: callbacks of actions that run at the same time   *)

ASSUME GeofenceAssumption == Polygons # {} /\ MaxCalls \in Nat

VARIABLES
  zone,         (* _fences, _islands, and whether there are limits to the  *)
                (* altitude                                                *)
  position,     (* _robot_position                                         *)
  checking,     (* how far the timer's check has come                      *)
  steady,       (* history: nothing was written since the check began      *)
  writing,      (* for each callback of an action, what it has to write    *)
  failed,       (* the calls that have raised: the server of a callback    *)
                (* that did has _user_failure, a timer ends the node       *)
  status        (* the last status published, with its reason              *)

fenceVars == <<zone, position, checking, steady, writing, failed, status>>

Callbacks  == {"start", "stop", "cancel"}
Altitudes  == {"over", "within", "under"}
Positions  == [within : SUBSET Polygons, altitude : Altitudes]
CheckSteps == {"idle", "setup", "ceiling", "over", "floor", "under", "fences", "islands", "raised"}
Outside    == {"FENCE", "CEILING", "FLOOR", "ISLAND"}

FenceInit ==
  /\ zone = [fences |-> {}, islands |-> {}, ceiling |-> FALSE, floor |-> FALSE]
  /\ position = NoPosition
  /\ checking = "idle" /\ steady = TRUE
  /\ writing = [c \in Callbacks |-> <<>>]
  /\ failed = {}
  /\ status = "INACTIVE"

valid_geofence_setup == zone.fences # {} \/ zone.islands # {}

(* The node, until a timer raises: the check, or that of the polygons. *)
Up == checking # "raised" /\ "timer" \notin failed

(* _publish_geofence_polygons raises if polygons are left, the zone is known *)
(* by a position, and there is no transform to the map.                    *)
MayRaise == valid_geofence_setup /\ position # NoPosition
-----------------------------------------------------------------------------
(* The callbacks of the actions: what they write, in order. *)

Write(field, value)  == [field |-> field, value |-> value, appends |-> FALSE]
Appends(list, value) == [field |-> list, value |-> {value}, appends |-> TRUE]

(* _on_goal_received_start.  The polygon joins its list before the limits   *)
(* are parsed: limits that do not parse have the goal refused, and nothing *)
(* else.  A ceiling that is not above the floor takes the limits away.     *)
StartWrites(list, polygon, limits) ==
  <<Appends(list, polygon)>>
    \o IF limits = "malformed" THEN <<>>
       ELSE <<Write("ceiling", limits = "proper"), Write("floor", limits = "proper")>>

(* _on_goal_received_stop.  Without the field of the islands the fences are *)
(* reset before the exception that has the server refuse every later goal. *)
StopWrites(fences, islands) ==
  (IF fences THEN <<Write("fences", {}), Write("floor", FALSE), Write("ceiling", FALSE)>> ELSE <<>>)
    \o CASE islands = "reset"   -> <<Write("islands", {}), Write("polygons", FALSE)>>
         [] islands = "keep"    -> <<Write("polygons", FALSE)>>
         [] islands = "missing" -> <<Write("polygons", TRUE)>>

(* _on_cancel_received_start. *)
CancelWrites ==
  <<Write("fences", {}), Write("islands", {}), Write("ceiling", FALSE), Write("floor", FALSE),
    Write("polygons", FALSE)>>

Calls(c, writes) ==
  /\ Up
  /\ writing[c] = <<>>
  /\ Cardinality({d \in Callbacks : writing[d] # <<>>}) < MaxCalls
  /\ writing' = [writing EXCEPT ![c] = writes]
  /\ UNCHANGED <<zone, position, checking, steady, failed, status>>

FenceRequest ==
  \/ \E list \in {"fences", "islands"}, p \in Polygons, limits \in {"malformed", "improper", "proper"} :
       "cancel" \notin failed /\ Calls("start", StartWrites(list, p, limits))
  \/ \E fences \in BOOLEAN, islands \in {"reset", "keep", "missing"} :
       "stop" \notin failed /\ Calls("stop", StopWrites(fences, islands))
  \/ Calls("cancel", CancelWrites)

(* The next write of a callback.  The last thing is to publish the polygons; *)
(* on_goal_received_start catches what that raises, the others do not.     *)
CallbackWrites(c) ==
  /\ Up
  /\ writing[c] # <<>>
  /\ writing' = [writing EXCEPT ![c] = Tail(@)]
  /\ LET w == Head(writing[c]) IN
       IF w.field = "polygons"
         THEN /\ \E raises \in {w.value, w.value \/ MayRaise} :
                   failed' = IF raises THEN failed \cup {c} ELSE failed
              /\ UNCHANGED <<zone, steady>>
         ELSE /\ zone' = [zone EXCEPT ![w.field] = IF w.appends THEN @ \cup w.value ELSE w.value]
              /\ steady' = (zone' = zone /\ steady)
              /\ UNCHANGED failed
  /\ UNCHANGED <<position, checking, status>>
-----------------------------------------------------------------------------
(* _publish_geofence_polygons, on a timer. *)
PolygonTimer ==
  /\ Up /\ checking = "idle"
  /\ MayRaise
  /\ failed' = failed \cup {"timer"}
  /\ UNCHANGED <<zone, position, checking, steady, writing, status>>

(* pos_latlon_cb. *)
ReceivePosition ==
  /\ Up /\ checking = "idle"
  /\ position' \in Positions
  /\ UNCHANGED <<zone, checking, steady, writing, failed, status>>

(* publish_geofence_ok, and in it _point_is_safe. *)
Publishes(s) == status' = s /\ checking' = "idle"
GoesOn(step) == checking' = step /\ UNCHANGED status

(* Whether the position is older than max_position_age is a choice. *)
BeginCheck ==
  /\ checking = "idle"
  /\ steady' = TRUE
  /\ \/ Publishes("INACTIVE")
     \/ position # NoPosition /\ valid_geofence_setup /\ GoesOn("setup")

CheckSetup ==
  /\ checking = "setup"
  /\ IF valid_geofence_setup THEN GoesOn("ceiling") ELSE Publishes("INACTIVE")

\* A limit that is not None ...
CheckLimit(step, limit, compare, next) ==
  /\ checking = step
  /\ GoesOn(IF limit THEN compare ELSE next)

\* ... is read again to be compared with, and a None raises then.
CompareLimit(compare, limit, next, reason) ==
  /\ checking = compare
  /\ IF ~limit THEN GoesOn("raised")
     ELSE IF position.altitude = compare THEN Publishes(reason)
     ELSE GoesOn(next)

CheckFences ==
  /\ checking = "fences"
  /\ IF zone.fences \cap position.within = {} THEN Publishes("FENCE") ELSE GoesOn("islands")

\* Mutant: to be inside an island is to be inside.
CheckIslands_Ignored ==
  /\ checking = "islands"
  /\ Publishes("INSIDE")

CheckIslands ==
  /\ checking = "islands"
  /\ Publishes(IF zone.islands \cap position.within = {} THEN "INSIDE" ELSE "ISLAND")

CheckGoesOn ==
  \/ CheckSetup
  \/ CheckLimit("ceiling", zone.ceiling, "over", "floor")
  \/ CompareLimit("over", zone.ceiling, "floor", "CEILING")
  \/ CheckLimit("floor", zone.floor, "under", "fences")
  \/ CompareLimit("under", zone.floor, "fences", "FLOOR")
  \/ CheckFences \/ CheckIslands

FenceCheck ==
  /\ Up
  /\ BeginCheck \/ (CheckGoesOn /\ UNCHANGED steady)
  /\ UNCHANGED <<zone, position, writing, failed>>

FenceNext ==
  \/ FenceRequest \/ FenceCheck \/ PolygonTimer \/ ReceivePosition
  \/ \E c \in Callbacks : CallbackWrites(c)

FenceSpec == FenceInit /\ [][FenceNext]_fenceVars
-----------------------------------------------------------------------------
(* Properties. *)

\* What is wrong with a position, and the statuses that it deserves.
Faults(z, p) ==
  {f \in Outside :
     \/ f = "CEILING" /\ z.ceiling /\ p.altitude = "over"
     \/ f = "FLOOR" /\ z.floor /\ p.altitude = "under"
     \/ f = "FENCE" /\ z.fences \cap p.within = {}
     \/ f = "ISLAND" /\ z.islands \cap p.within # {}}

Verdict(z, p) == IF Faults(z, p) = {} THEN {"INSIDE"} ELSE Faults(z, p)

\* Whatever goals were refused, cut short or interleaved before, a check that no
\* write overtakes does not raise, which would end the node; it publishes INSIDE
\* exactly when nothing is wrong with the position, and otherwise something that is.
CheckIsExact ==
  [][checking \notin {"idle", "raised"} /\ checking' \in {"idle", "raised"} /\ steady
     => checking' = "idle" /\ status' \in Verdict(zone, position)]_fenceVars
=============================================================================
