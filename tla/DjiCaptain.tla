----------------------------- MODULE DjiCaptain -----------------------------
(***************************************************************************)
(* The node between the drone's autopilot and the action servers           *)
(* (dji_captain.py).  It turns setpoints into joystick commands while it   *)
(* has control, gives control up when somebody touches the remote, and     *)
(* reports the health of the vehicle.  Its callbacks and timers take turns.*)
(*                                                                         *)
(* A setpoint grows stale, a weight, an altitude and a fence status age:   *)
(* when that has happened is a choice.  Whether two setpoints point the    *)
(* same way, and whether a command comes out as zero, is one too.  The     *)
(* autopilot, of which the code has the topics only, holds the authority   *)
(* and reports it now and then; a report that comes late still says what   *)
(* was true when it was sent.                                              *)
(***************************************************************************)
VARIABLES
  move_to,       (* _move_to_position_setpoint                             *)
  velocity,      (* _move_to_velocity_setpoint                             *)
  joy_timer,     (* the setpoint that _joy_timer was made for              *)
  got_control,
  authority,     (* of the autopilot: this computer flies                  *)
  report,        (* the control mode under way to the captain              *)
  releasing,     (* a call of the release service is under way             *)
  seen,          (* what the vehicle has reported at least once            *)
  got_release_srv,
  cleared_water, (* _cleared_water_level_once                              *)
  health         (* the last health published                              *)

motionVars  == <<move_to, velocity, joy_timer>>
controlVars == <<got_control, authority, report, releasing>>
healthVars  == <<got_release_srv, cleared_water, health>>
captainVars == <<motionVars, controlVars, seen, healthVars>>

Ages    == {"none", "fresh", "stale"}
Sensors == {"home", "gps", "position", "attitude", "ground_velocity", "esc", "battery"}

CaptainInit ==
  /\ move_to = "none" /\ velocity = "none" /\ joy_timer = "none"
  /\ got_control = FALSE /\ authority = FALSE
  /\ report = "none" /\ releasing = FALSE
  /\ seen = {}
  /\ got_release_srv = FALSE /\ cleared_water = FALSE
  /\ health = "WAITING"

(* Poses are relative to home: _position_fused_callback waits for it. *)
Hear(sensor) ==
  /\ sensor = "position" => "home" \in seen
  /\ seen' = seen \cup {sensor}
  /\ UNCHANGED <<motionVars, controlVars, healthVars>>

(* _base_pose_in_home is not None: an attitude makes one, at home. *)
HasPose == {"position", "attitude"} \cap seen # {}

(* _publish_static_tf has a frame for home once the zone is known. *)
MayTransform == {"home", "gps"} \subseteq seen /\ HasPose
-----------------------------------------------------------------------------
(* Motion. *)

\* Mutant: the setpoint stays when the timer goes.
cancel_joy_timer_KeepsSetpoint == joy_timer' = "none" /\ UNCHANGED <<move_to, velocity>>

(* _cancel_joy_timer. *)
cancel_joy_timer == move_to' = "none" /\ joy_timer' = "none" /\ UNCHANGED velocity

(* The callbacks of the setpoints, from those that setpoint_valid lets      *)
(* through.  One that points away from a young one is dropped.  A position *)
(* gets the time of the transform, whatever its own.                       *)
ReceiveVelocity ==
  /\ velocity' = "fresh"
  /\ joy_timer' = IF joy_timer = "none" THEN "velocity" ELSE joy_timer
  /\ UNCHANGED <<move_to, controlVars, seen, healthVars>>

ReceiveMoveTo ==
  /\ \/ move_to' = "none" /\ UNCHANGED joy_timer
     \/ /\ HasPose
        /\ move_to' \in {"fresh", "stale"}
        /\ joy_timer' = IF joy_timer = "none" THEN "position" ELSE joy_timer
  /\ UNCHANGED <<velocity, controlVars, seen, healthVars>>

SetpointAges ==
  /\ \/ move_to = "fresh" /\ move_to' = "stale" /\ UNCHANGED velocity
     \/ velocity = "fresh" /\ velocity' = "stale" /\ UNCHANGED move_to
  /\ UNCHANGED <<joy_timer, controlVars, seen, healthVars>>

setpoint_still_usable ==
  /\ joy_timer = "position" => move_to = "fresh"
  /\ joy_timer = "velocity" => velocity = "fresh"
  /\ got_control
  /\ "ground_velocity" \in seen

(* The joystick timer: a command that is zero, or none at all as the        *)
(* setpoint is reached or too far, ends it like an unusable setpoint.      *)
JoyTick ==
  /\ joy_timer # "none"
  /\ cancel_joy_timer \/ (setpoint_still_usable /\ UNCHANGED motionVars)
  /\ UNCHANGED <<controlVars, seen, healthVars>>
-----------------------------------------------------------------------------
(* Control. *)

(* _dji_rc_cb, with a stick moved or the mode switched.  The timer is left  *)
(* to find out at its next tick.                                           *)
GiveUp ==
  /\ got_control
  /\ got_control' = FALSE /\ releasing' = TRUE
  /\ UNCHANGED <<motionVars, authority, report, seen, healthVars>>

(* _control_mode_callback. *)
ControlMode ==
  /\ report # "none"
  /\ report' = "none"
  /\ got_control' = (report = "has")
  /\ IF got_control /\ report = "lacks" THEN cancel_joy_timer ELSE UNCHANGED motionVars
  /\ UNCHANGED <<authority, releasing, seen, healthVars>>

(* The autopilot: somebody gives or takes the authority, a call releases    *)
(* it, and the newest report takes the place of one not read.              *)
Autopilot ==
  /\ \/ authority' = ~authority /\ UNCHANGED <<report, releasing>>
     \/ /\ releasing /\ releasing' = FALSE
        /\ authority' \in {FALSE, authority}
        /\ UNCHANGED report
     \/ /\ report' = IF authority THEN "has" ELSE "lacks"
        /\ UNCHANGED <<authority, releasing>>
  /\ UNCHANGED <<motionVars, got_control, seen, healthVars>>
-----------------------------------------------------------------------------
(* _publish_vehicle_health. *)

HealthIs(code) == health' = code /\ UNCHANGED <<got_release_srv, cleared_water>>

(* Heard of everything that it asks for; the battery's charge is another    *)
(* matter.                                                                 *)
HeardOfAll == {"home", "esc", "attitude", "battery"} \subseteq seen

(* The buffer has them some time after they are published. *)
CanTransform == MayTransform

(* It can do things; flying, it must also be where it may be.  Low is below *)
(* the altitude that it may have over water.                               *)
PublishAble(flying, low, high, outside) ==
  /\ cleared_water' = (cleared_water \/ high)
  /\ health' = IF flying /\ ((low /\ cleared_water') \/ outside) THEN "WAITING" ELSE "READY"

PublishHealth ==
  /\ \/ HealthIs("WAITING")   \* not all is heard of, charged or transformed
     \/ HeardOfAll /\ HealthIs("ERROR")   \* too much hangs on the load cell
     \/ /\ HeardOfAll /\ CanTransform
        /\ \/ ~got_release_srv /\ UNCHANGED healthVars   \* no service: nothing is published
           \/ /\ got_release_srv' = TRUE
              /\ \E flying, low, high, outside \in BOOLEAN :
                   ~(low /\ high) /\ PublishAble(flying, low, high, outside)
  /\ UNCHANGED <<motionVars, controlVars, seen>>
-----------------------------------------------------------------------------
CaptainNext ==
  \/ \E sensor \in Sensors : Hear(sensor)
  \/ ReceiveVelocity \/ ReceiveMoveTo \/ SetpointAges \/ JoyTick
  \/ GiveUp \/ ControlMode \/ Autopilot
  \/ PublishHealth

CaptainSpec == CaptainInit /\ [][CaptainNext]_captainVars
-----------------------------------------------------------------------------
(* Properties. *)

\* "Setpoint discarded.": without a timer there is no position to move to, so
\* that none is flown to later, or compared with a new one.
DiscardedIsGone == joy_timer = "none" => move_to = "none"

\* READY is published by a drone that has told where home is, in which zone, how
\* it lies and turns, and what its battery has: although nobody asks for the
\* zone, the transform to the map hangs on it.
ReadyIsEquipped ==
  health = "READY" => {"home", "gps", "esc", "attitude", "battery"} \subseteq seen
=============================================================================
