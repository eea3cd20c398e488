------------------------------ MODULE MCFlight ------------------------------
(* Model checking of what keeps the drone where it may be: a behaviour is    *)
(* one of the captain, of the geofence node, or a question to its polygon    *)
(* test.                                                                     *)
EXTENDS DjiCaptain, GeofenceNode, PointInPolygon

VARIABLES
  part  (* which of them it is                                              *)

questionVars == <<probe, polygon>>
flightVars   == <<captainVars, fenceVars, questionVars, part>>

Init ==
  /\ CaptainInit /\ FenceInit
  /\ \/ part \in {"captain", "fence"} /\ probe = <<>> /\ polygon = <<>>
     \/ part = "test" /\ QuestionInit

Next ==
  /\ \/ part = "captain" /\ CaptainNext /\ UNCHANGED fenceVars
     \/ part = "fence" /\ FenceNext /\ UNCHANGED captainVars
  /\ UNCHANGED <<questionVars, part>>

Spec == Init /\ [][Next]_flightVars
-----------------------------------------------------------------------------
\* TestIsGeometric is about the questions that are asked.
TestAgreesWithGeometry == part = "test" => TestIsGeometric
=============================================================================
