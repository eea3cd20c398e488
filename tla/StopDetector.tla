---------------------------- MODULE StopDetector ----------------------------
(***************************************************************************)
(* How LoLo's follower_state.py tells that the setpoint of the leaders has *)
(* stopped: it keeps when and where it heard of it, forgets what is older  *)
(* than its window, and looks at the last StopPeriod.                      *)
(*                                                                         *)
(* Time and place are whole numbers, and the place has one coordinate.     *)
(* The mean and the slope of the regression are multiplied out.            *)
(***************************************************************************)
EXTENDS FiniteSets, FiniteSetsExt, Integers

CONSTANTS
  EstimateMaxAge, (* a setpoint that is older is stale                     *)
  StopPeriod,     (* setpoint_stop_period,                                 *)
  StopMargin,     (* what the window has on top of it,                     *)
  StopTolerance,  (* setpoint_stop_tolerance,                              *)
  StopPace,       (* and setpoint_stop_speed as time over distance         *)
  MaxTime,        (* bound: the time                                       *)
  MaxPlace        (* bound: how far the leaders get                        *)

ASSUME StopAssumption ==
  /\ {EstimateMaxAge, StopPeriod, StopPace} \subseteq Nat \ {0}
  /\ {StopMargin, StopTolerance, MaxTime, MaxPlace} \subseteq Nat

VARIABLES
  now,
  setpoint_history  (* where the setpoint was, by the time of its reception *)

stopVars == <<now, setpoint_history>>

StopInit == now = 0 /\ setpoint_history = <<>>

Heard == DOMAIN setpoint_history

(* The window, of a mission that needs a longer one than there was. *)
StopWindow == StopPeriod + StopMargin

Retained == {t \in Heard : now - t <= StopWindow}

(* _setpoint_cb *)
ReceiveSetpoint(x) ==
  /\ now \notin Heard
  /\ setpoint_history' =
       [t \in Retained \cup {now} |-> IF t = now THEN x ELSE setpoint_history[t]]
  /\ UNCHANGED now

(* FollowerState.reset *)
ForgetSetpoints == setpoint_history' = <<>> /\ UNCHANGED now

TimeGoesOn ==
  /\ now < MaxTime
  /\ now' = now + 1
  /\ UNCHANGED setpoint_history

StopNext ==
  \/ \E x \in 0..MaxPlace : ReceiveSetpoint(x)
  \/ ForgetSetpoints
  \/ TimeGoesOn

StopSafety == StopInit /\ [][StopNext]_stopVars
-----------------------------------------------------------------------------
LatestOf(times)   == CHOOSE t \in times : \A u \in times : u <= t
EarliestOf(times) == CHOOSE t \in times : \A u \in times : u >= t

Recent == {t \in Retained : now - t <= StopPeriod}

setpoint_fresh == Heard # {} /\ now - LatestOf(Heard) <= EstimateMaxAge

\* Mutant: the sample just before the period is not looked at.
NoGaps_InsideOnly ==
  \A t \in Recent \ {EarliestOf(Recent)} :
    \E u \in Recent : u < t /\ t - u <= EstimateMaxAge

(* No two receptions that follow each other are too far apart, from the     *)
(* last one before the period on.                                          *)
NoGaps ==
  LET before == Retained \ Recent
      gap_hist == Recent \cup (IF before = {} THEN {} ELSE {LatestOf(before)})
  IN \A t \in gap_hist \ {EarliestOf(gap_hist)} :
       \E u \in gap_hist : u < t /\ t - u <= EstimateMaxAge

SumOver(f, times) == MapThenSumSet(LAMBDA t : f[t], times)

PlaceAt(t) == setpoint_history[t]
PlaceSum   == SumOver(setpoint_history, Recent)
Count      == Cardinality(Recent)

(* Every sample is within the tolerance of the centroid. *)
StaysNear ==
  \A t \in Recent :
    /\ Count * PlaceAt(t) - PlaceSum <= Count * StopTolerance
    /\ PlaceSum - Count * PlaceAt(t) <= Count * StopTolerance

(* setpoint_speed: the slope of the line of least squares. *)
IsSlow ==
  LET times == SumOver([t \in Recent |-> t], Recent)
      rise  == Count * SumOver([t \in Recent |-> t * PlaceAt(t)], Recent) - times * PlaceSum
      run   == Count * SumOver([t \in Recent |-> t * t], Recent) - times * times
  IN Count >= 3 /\ StopPace * rise <= run /\ -(StopPace * rise) <= run

setpoint_stopped ==
  /\ setpoint_fresh
  /\ Cardinality(Retained) >= 2
  /\ LatestOf(Retained) - EarliestOf(Retained) >= StopPeriod
  /\ Count >= 2
  /\ NoGaps
  /\ StaysNear
  /\ IsSlow
-----------------------------------------------------------------------------
(* Properties. *)

\* At no time of the period was the last setpoint stale.
NoDropout ==
  \A t \in (now - StopPeriod)..now : \E u \in Heard : u <= t /\ t - u <= EstimateMaxAge

\* The setpoint moves on with every reception of the period.
MovesOn == \A t, u \in Recent : t < u => PlaceAt(t) < PlaceAt(u)

\* "a comms dropout (no new samples) is NOT mistaken for a stop", nor is "a
\* leader merely cruising slowly": the setpoint was heard of all the time, and it
\* has not moved on with every reception.
StopIsGenuine == setpoint_stopped => NoDropout /\ ~MovesOn
=============================================================================
