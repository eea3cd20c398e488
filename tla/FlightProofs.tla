---------------------------- MODULE FlightProofs ----------------------------
(***************************************************************************)
(* Proofs about what keeps a vehicle where it may be: the geofence node,   *)
(* the test of its polygons, and the DJI captain.                          *)
(***************************************************************************)
EXTENDS MCFlight, FiniteSetTheorems, SequenceTheorems, WellFoundedInduction, TLAPS

(***************************************************************************)
(* A check of the geofence that no write overtakes publishes what the      *)
(* position deserves, and does not raise: for any polygons, any number of  *)
(* callbacks at the same time and any order of their writes.               *)
(***************************************************************************)

\* What an undisturbed check has found out when it comes to each of its steps.
Found ==
  /\ valid_geofence_setup
  /\ checking = "over" => zone.ceiling
  /\ checking \in {"floor", "under", "fences", "islands"}
       => ~(zone.ceiling /\ position.altitude = "over")
  /\ checking = "under" => zone.floor
  /\ checking \in {"fences", "islands"}
       => ~(zone.floor /\ position.altitude = "under")
  /\ checking = "islands" => zone.fences \cap position.within # {}

FenceInv ==
  /\ checking \in CheckSteps
  /\ steady /\ checking # "idle" => Found /\ checking # "raised"

\* The invariant holds at the start, when no check is under way.
LEMMA InitFenceInv == FenceInit => FenceInv
  BY DEF FenceInit, FenceInv, CheckSteps

\* What the callbacks write disturbs a check, or changes nothing that it reads;
\* requests, and the age of the position, are nothing to it.
LEMMA OthersKeepFenceInv ==
  ASSUME FenceInv,
         \/ FenceRequest \/ PolygonTimer \/ ReceivePosition
         \/ \E c \in Callbacks : CallbackWrites(c)
  PROVE  FenceInv'
<1>1. CASE FenceRequest
  <2>1. UNCHANGED <<zone, position, checking, steady>>
    BY <1>1 DEF FenceRequest, Calls
  <2>2. QED
    BY <2>1 DEF FenceInv, Found, valid_geofence_setup
<1>2. CASE ReceivePosition
  BY <1>2 DEF ReceivePosition, FenceInv, Found
<1>3. CASE PolygonTimer
  BY <1>3 DEF PolygonTimer, FenceInv, Found, valid_geofence_setup
<1>4. ASSUME NEW c \in Callbacks, CallbackWrites(c) PROVE FenceInv'
  <2>1. steady' => zone' = zone /\ steady
    BY <1>4 DEF CallbackWrites
  <2>2. UNCHANGED <<checking, position>>
    BY <1>4 DEF CallbackWrites
  <2>3. QED
    BY <2>1, <2>2 DEF FenceInv, Found, valid_geofence_setup
<1>5. QED
  BY <1>1, <1>2, <1>3, <1>4

\* A check finds out what it has to know before its next step.
LEMMA ChecksKeepFenceInv ==
  ASSUME FenceInv, FenceCheck PROVE FenceInv'
<1>1. UNCHANGED <<zone, position>>
  BY DEF FenceCheck
<1>2. CASE BeginCheck
  BY <1>1, <1>2 DEF BeginCheck, FenceInv, Found, CheckSteps, Publishes, GoesOn, valid_geofence_setup
<1>3. CASE CheckGoesOn /\ UNCHANGED steady
  <2>1. CASE CheckSetup
    BY <1>1, <1>3, <2>1 DEF CheckSetup, FenceInv, Found, CheckSteps, Publishes, GoesOn, valid_geofence_setup
  <2>2. CASE CheckLimit("ceiling", zone.ceiling, "over", "floor")
    BY <1>1, <1>3, <2>2 DEF CheckLimit, FenceInv, Found, CheckSteps, GoesOn, valid_geofence_setup
  <2>3. CASE CompareLimit("over", zone.ceiling, "floor", "CEILING")
    BY <1>1, <1>3, <2>3 DEF CompareLimit, FenceInv, Found, CheckSteps, Publishes, GoesOn, valid_geofence_setup
  <2>4. CASE CheckLimit("floor", zone.floor, "under", "fences")
    BY <1>1, <1>3, <2>4 DEF CheckLimit, FenceInv, Found, CheckSteps, GoesOn, valid_geofence_setup
  <2>5. CASE CompareLimit("under", zone.floor, "fences", "FLOOR")
    BY <1>1, <1>3, <2>5 DEF CompareLimit, FenceInv, Found, CheckSteps, Publishes, GoesOn, valid_geofence_setup
  <2>6. CASE CheckFences
    BY <1>1, <1>3, <2>6 DEF CheckFences, FenceInv, Found, CheckSteps, Publishes, GoesOn, valid_geofence_setup
  <2>7. CASE CheckIslands
    BY <1>1, <2>7 DEF CheckIslands, FenceInv, CheckSteps, Publishes
  <2>8. QED
    BY <1>3, <2>1, <2>2, <2>3, <2>4, <2>5, <2>6, <2>7 DEF CheckGoesOn
<1>4. QED
  BY <1>2, <1>3 DEF FenceCheck

\* An undisturbed check that ends has found out what makes the verdict.
LEMMA StepIsExact ==
  ASSUME FenceInv, FenceNext,
         checking \notin {"idle", "raised"}, checking' = "idle", steady
  PROVE  status' \in Verdict(zone, position)
<1>1. FenceCheck
  BY DEF FenceNext, FenceRequest, Calls, PolygonTimer, ReceivePosition, CallbackWrites
<1>2. CheckGoesOn
  BY <1>1 DEF FenceCheck, BeginCheck
<1>3. Found
  BY DEF FenceInv
<1>4. CASE CheckSetup
  BY <1>3, <1>4 DEF CheckSetup, Found, GoesOn
<1>5. CASE CheckLimit("ceiling", zone.ceiling, "over", "floor")
  BY <1>5 DEF CheckLimit, GoesOn
<1>6. CASE CompareLimit("over", zone.ceiling, "floor", "CEILING")
  BY <1>6 DEF CompareLimit, Publishes, GoesOn, Verdict, Faults, Outside
<1>7. CASE CheckLimit("floor", zone.floor, "under", "fences")
  BY <1>7 DEF CheckLimit, GoesOn
<1>8. CASE CompareLimit("under", zone.floor, "fences", "FLOOR")
  BY <1>8 DEF CompareLimit, Publishes, GoesOn, Verdict, Faults, Outside
<1>9. CASE CheckFences
  BY <1>9 DEF CheckFences, Publishes, GoesOn, Verdict, Faults, Outside
<1>10. CASE CheckIslands
  <2>1. ~(zone.ceiling /\ position.altitude = "over") /\ ~(zone.floor /\ position.altitude = "under")
    BY <1>3, <1>10 DEF Found, CheckIslands
  <2>2. zone.fences \cap position.within # {}
    BY <1>3, <1>10 DEF Found, CheckIslands
  <2>3. CASE zone.islands \cap position.within = {}
    <3>1. Faults(zone, position) = {}
      BY <2>1, <2>2, <2>3 DEF Faults, Outside
    <3>2. QED
      BY <1>10, <2>3, <3>1 DEF CheckIslands, Publishes, Verdict
  <2>4. CASE zone.islands \cap position.within # {}
    BY <1>10, <2>4 DEF CheckIslands, Publishes, Verdict, Faults, Outside
  <2>5. QED
    BY <2>3, <2>4
<1>11. QED
  BY <1>2, <1>4, <1>5, <1>6, <1>7, <1>8, <1>9, <1>10 DEF CheckGoesOn

\* A limit that an undisturbed check has asked for is there to be compared with.
LEMMA UndisturbedDoesNotRaise ==
  ASSUME FenceInv, FenceNext, checking \notin {"idle", "raised"}, steady
  PROVE  checking' # "raised"
<1>1. SUFFICES ASSUME FenceCheck PROVE checking' # "raised"
  BY DEF FenceNext, FenceRequest, Calls, PolygonTimer, ReceivePosition, CallbackWrites
<1>2. UNCHANGED steady
  BY <1>1 DEF FenceCheck, BeginCheck
<1>3. QED
  BY <1>1, <1>2, ChecksKeepFenceInv DEF FenceInv

\* The invariant holds throughout.
THEOREM FenceInvHolds == FenceSpec => []FenceInv
<1>1. FenceInv /\ [FenceNext]_fenceVars => FenceInv'
  <2>1. CASE UNCHANGED fenceVars
    BY <2>1 DEF fenceVars, FenceInv, Found, valid_geofence_setup
  <2>2. QED
    BY <2>1, OthersKeepFenceInv, ChecksKeepFenceInv DEF FenceNext
<1>2. QED
  BY <1>1, InitFenceInv, PTL DEF FenceSpec

\* Undisturbed, publish_geofence_ok does not raise, and publishes what the position
\* deserves.
THEOREM ChecksAreExact == FenceSpec => CheckIsExact
<1>1. FenceInv /\ [FenceNext]_fenceVars
        => [checking \notin {"idle", "raised"} /\ checking' \in {"idle", "raised"} /\ steady
              => checking' = "idle" /\ status' \in Verdict(zone, position)]_fenceVars
  BY StepIsExact, UndisturbedDoesNotRaise
<1>2. QED
  BY <1>1, FenceInvHolds, PTL DEF FenceSpec, CheckIsExact
-----------------------------------------------------------------------------
(***************************************************************************)
(* The captain's invariants.  Both are inductive: a setpoint to move to     *)
(* comes and goes with the timer, and what was heard of stays so.          *)
(***************************************************************************)

\* Every step keeps the setpoint and the timer together: only what receives a
\* setpoint sets it, and it makes a timer then.
LEMMA StepDiscards ==
  ASSUME DiscardedIsGone, [CaptainNext]_captainVars
  PROVE  DiscardedIsGone'
<1>1. CASE \E sensor \in Sensors : Hear(sensor)
  BY <1>1 DEF Hear, DiscardedIsGone, motionVars
<1>2. CASE ReceiveVelocity
  BY <1>2 DEF ReceiveVelocity, DiscardedIsGone
<1>3. CASE ReceiveMoveTo
  BY <1>3 DEF ReceiveMoveTo, DiscardedIsGone
<1>4. CASE SetpointAges
  BY <1>4 DEF SetpointAges, DiscardedIsGone
<1>5. CASE JoyTick
  BY <1>5 DEF JoyTick, cancel_joy_timer, DiscardedIsGone, motionVars
<1>6. CASE GiveUp \/ Autopilot \/ PublishHealth
  BY <1>6 DEF GiveUp, Autopilot, PublishHealth, DiscardedIsGone, motionVars
<1>7. CASE ControlMode
  BY <1>7 DEF ControlMode, cancel_joy_timer, DiscardedIsGone, motionVars
<1>8. CASE UNCHANGED captainVars
  BY <1>8 DEF captainVars, motionVars, DiscardedIsGone
<1>9. QED
  BY <1>1, <1>2, <1>3, <1>4, <1>5, <1>6, <1>7, <1>8 DEF CaptainNext

\* A discarded setpoint is gone, for whatever setpoints and reports come.
THEOREM DiscardsSetpoints == CaptainSpec => []DiscardedIsGone
<1>1. CaptainInit => DiscardedIsGone
  BY DEF CaptainInit, DiscardedIsGone
<1>2. QED
  BY <1>1, StepDiscards, PTL DEF CaptainSpec

\* READY is published only with the transform, and what it hangs on stays seen.
LEMMA StepEquips ==
  ASSUME ReadyIsEquipped, [CaptainNext]_captainVars
  PROVE  ReadyIsEquipped'
<1>1. CASE \E sensor \in Sensors : Hear(sensor)
  BY <1>1 DEF Hear, ReadyIsEquipped, healthVars
<1>2. CASE PublishHealth
  <2>1. seen' = seen
    BY <1>2 DEF PublishHealth
  <2>2. health' = "READY" => health = "READY" \/ (HeardOfAll /\ CanTransform)
    BY <1>2 DEF PublishHealth, HealthIs, healthVars
  <2>3. HeardOfAll /\ CanTransform => {"home", "gps", "esc", "attitude", "battery"} \subseteq seen
    BY DEF HeardOfAll, CanTransform, MayTransform
  <2>4. QED
    BY <2>1, <2>2, <2>3 DEF ReadyIsEquipped
<1>3. CASE UNCHANGED <<seen, health>>
  BY <1>3 DEF ReadyIsEquipped
<1>4. CASE ReceiveVelocity \/ ReceiveMoveTo \/ SetpointAges \/ JoyTick
  BY <1>3, <1>4 DEF ReceiveVelocity, ReceiveMoveTo, SetpointAges, JoyTick, healthVars
<1>5. CASE GiveUp \/ ControlMode \/ Autopilot
  BY <1>3, <1>5 DEF GiveUp, ControlMode, Autopilot, healthVars
<1>6. CASE UNCHANGED captainVars
  BY <1>3, <1>6 DEF captainVars, healthVars
<1>7. QED
  BY <1>1, <1>2, <1>4, <1>5, <1>6 DEF CaptainNext

\* The health is READY only when the vehicle has told what it flies by.
THEOREM ReadyMeansEquipped == CaptainSpec => []ReadyIsEquipped
<1>1. CaptainInit => ReadyIsEquipped
  BY DEF CaptainInit, ReadyIsEquipped
<1>2. QED
  BY <1>1, StepEquips, PTL DEF CaptainSpec
-----------------------------------------------------------------------------
(***************************************************************************)
(* The test that a point is inside a polygon.  Latitudes and longitudes are *)
(* taken from the point: of the edge from a to b, Turn is twice the area   *)
(* of the triangle that it makes with the point, with its sign.            *)
(***************************************************************************)

Turn(ya, xa, yb, xb) == ya * xb - yb * xa

\* The edge passes the latitude of the point upwards or downwards, and does so to the
\* east of it, or on it.
Passes(ya, yb, turn) ==
  \/ ya < 0 /\ ~(yb < 0) /\ turn <= 0
  \/ yb < 0 /\ ~(ya < 0) /\ turn >= 0

\* The sign of a product, which the provers do not find by themselves.
LEMMA Products ==
  ASSUME NEW m \in Int, NEW n \in Int
  PROVE  /\ m >= 0 /\ n >= 0 => m * n >= 0
         /\ m >= 0 /\ n <= 0 => m * n <= 0
         /\ m <= 0 /\ n >= 0 => m * n <= 0
         /\ m <= 0 /\ n <= 0 => m * n >= 0
         /\ m > 0 /\ n > 0 => m * n > 0
         /\ m > 0 /\ n < 0 => m * n < 0
         /\ m < 0 /\ n > 0 => m * n < 0
         /\ m < 0 /\ n < 0 => m * n > 0
OBVIOUS

\* Whether an edge upwards is crossed: one conjunct of the code's condition follows from the
\* others, and the case of an edge along a meridian is no case of its own.
LEMMA Upwards ==
  ASSUME NEW ya \in Int, NEW xa \in Int, NEW yb \in Int, NEW xb \in Int,
         ya < 0, yb >= 0
  PROVE  (0 <= Greater(xa, xb) /\ (xa = xb \/ Turn(ya, xa, yb, xb) <= 0))
           <=> Turn(ya, xa, yb, xb) <= 0
<1>1. xa < 0 /\ xb < 0 => Turn(ya, xa, yb, xb) > 0
  <2>1. xa < 0 /\ xb < 0 => ya * xb > 0 /\ yb * xa <= 0
    BY Products
  <2>2. ya * xb \in Int /\ yb * xa \in Int
    OBVIOUS
  <2>3. QED
    BY <2>1, <2>2 DEF Turn
<1>2. xa = xb /\ xa >= 0 => Turn(ya, xa, yb, xb) <= 0
  <2>1. xa >= 0 => ya * xa <= 0 /\ yb * xa >= 0
    BY Products
  <2>2. ya * xa \in Int /\ yb * xa \in Int
    OBVIOUS
  <2>3. QED
    BY <2>1, <2>2 DEF Turn
<1>3. Turn(ya, xa, yb, xb) \in Int
  BY DEF Turn
<1>4. QED
  BY <1>1, <1>2, <1>3 DEF Greater

\* What the code computes of an edge (is_point_inside_polygon), by its turn.
LEMMA CrossesIs ==
  ASSUME NEW p \in Int \X Int, NEW a \in Int \X Int, NEW b \in Int \X Int
  PROVE  Crosses(p, a, b)
           <=> Passes(a[1] - p[1], b[1] - p[1],
                      Turn(a[1] - p[1], a[2] - p[2], b[1] - p[1], b[2] - p[2]))
<1> DEFINE ya == a[1] - p[1]
           xa == a[2] - p[2]
           yb == b[1] - p[1]
           xb == b[2] - p[2]
           turn == Turn(ya, xa, yb, xb)
<1>1. /\ p[1] \in Int /\ p[2] \in Int /\ a[1] \in Int /\ a[2] \in Int
      /\ b[1] \in Int /\ b[2] \in Int
  OBVIOUS
<1>2. ya \in Int /\ xa \in Int /\ yb \in Int /\ xb \in Int /\ turn \in Int
  BY <1>1 DEF Turn
<1>3. WestOf(p, a, b) <=> IF yb > ya THEN turn <= 0 ELSE turn >= 0
  <2>1. ASSUME NEW p1 \in Int, NEW p2 \in Int, NEW a1 \in Int, NEW a2 \in Int,
               NEW b1 \in Int, NEW b2 \in Int
        PROVE  (p2 - a2) * (b1 - a1) - (p1 - a1) * (b2 - a2)
                 = (a1 - p1) * (b2 - p2) - (b1 - p1) * (a2 - p2)
    OBVIOUS
  <2>2. (p[2] - a[2]) * (b[1] - a[1]) - (p[1] - a[1]) * (b[2] - a[2]) = turn
    BY <1>1, <2>1 DEF Turn
  <2>3. (p[2] - a[2]) * (b[1] - a[1]) \in Int /\ (p[1] - a[1]) * (b[2] - a[2]) \in Int
    BY <1>1
  <2>4. b[1] - a[1] > 0 <=> yb > ya
    BY <1>1
  <2> HIDE DEF turn, ya, yb
  <2>5. QED
    BY <1>2, <2>2, <2>3, <2>4 DEF WestOf
<1>4. Crosses(p, a, b)
        <=> /\ Lesser(ya, yb) < 0 /\ Greater(ya, yb) >= 0
            /\ 0 <= Greater(xa, xb)
            /\ xa = xb \/ WestOf(p, a, b)
  BY <1>1 DEF Crosses, Lesser, Greater
<1> HIDE DEF ya, xa, yb, xb
<1>5. ASSUME ya < 0 /\ yb >= 0
      PROVE  Crosses(p, a, b) <=> Passes(ya, yb, turn)
  <2>1. Lesser(ya, yb) < 0 /\ Greater(ya, yb) >= 0
    BY <1>2, <1>5 DEF Greater, Lesser
  <2>2. (0 <= Greater(xa, xb) /\ (xa = xb \/ turn <= 0)) <=> turn <= 0
    BY <1>2, <1>5, Upwards
  <2>3. WestOf(p, a, b) <=> turn <= 0
    BY <1>2, <1>3, <1>5
  <2>4. Passes(ya, yb, turn) <=> turn <= 0
    BY <1>2, <1>5 DEF Passes
  <2> HIDE DEF turn
  <2>5. QED
    BY <1>4, <2>1, <2>2, <2>3, <2>4
<1>6. ASSUME yb < 0 /\ ya >= 0
      PROVE  Crosses(p, a, b) <=> Passes(ya, yb, turn)
  <2>1. Turn(yb, xb, ya, xa) = -turn
    BY <1>2 DEF Turn
  <2>2. Greater(xb, xa) = Greater(xa, xb)
    BY <1>2 DEF Greater
  <2>3. Lesser(ya, yb) < 0 /\ Greater(ya, yb) >= 0
    BY <1>2, <1>6 DEF Greater, Lesser
  <2>4. (0 <= Greater(xa, xb) /\ (xa = xb \/ -turn <= 0)) <=> -turn <= 0
    BY <1>2, <1>6, <2>1, <2>2, Upwards
  <2>5. WestOf(p, a, b) <=> turn >= 0
    BY <1>2, <1>3, <1>6
  <2>6. Passes(ya, yb, turn) <=> turn >= 0
    BY <1>2, <1>6 DEF Passes
  <2>7. -turn <= 0 <=> turn >= 0
    BY <1>2
  <2> HIDE DEF turn
  <2>8. QED
    BY <1>4, <2>3, <2>4, <2>5, <2>6, <2>7
<1>7. ASSUME ~(ya < 0 /\ yb >= 0) /\ ~(yb < 0 /\ ya >= 0)
      PROVE  Crosses(p, a, b) <=> Passes(ya, yb, turn)
  <2>1. ~(Lesser(ya, yb) < 0 /\ Greater(ya, yb) >= 0)
    BY <1>2, <1>7 DEF Lesser, Greater
  <2>2. ~Passes(ya, yb, turn)
    BY <1>2, <1>7 DEF Passes
  <2>3. QED
    BY <1>4, <2>1, <2>2
<1>8. Crosses(p, a, b) <=> Passes(ya, yb, turn)
  BY <1>2, <1>5, <1>6, <1>7
<1>9. QED
  BY <1>8 DEF turn, ya, xa, yb, xb

\* An odd number of three.
Odd(p, q, r) == p <=> (q <=> r)

\* What the signs of two numbers say of their product.
Signed(m, n, product) ==
  /\ product \in Int
  /\ m >= 0 /\ n >= 0 => product >= 0
  /\ m >= 0 /\ n <= 0 => product <= 0
  /\ m <= 0 /\ n >= 0 => product <= 0
  /\ m <= 0 /\ n <= 0 => product >= 0
  /\ m > 0 /\ n > 0 => product > 0
  /\ m > 0 /\ n < 0 => product < 0
  /\ m < 0 /\ n > 0 => product < 0
  /\ m < 0 /\ n < 0 => product > 0

\* Of the edges of a triangle an odd number is passed when all turn the same way about the
\* point, and an even number when two turn differently: the turns, weighted with
\* the latitudes of the corners across, add up to nothing.
LEMMA Weights ==
  ASSUME NEW ya \in Int, NEW yb \in Int, NEW yc \in Int,
         NEW ab \in Int, NEW bc \in Int, NEW ca \in Int,
         NEW m \in Int, NEW n \in Int, NEW o \in Int, m + n + o = 0,
         ya = 0 /\ yb = 0 => ab = 0,
         Signed(yc, ab, m), Signed(ya, bc, n), Signed(yb, ca, o)
  PROVE  LET odd == Odd(Passes(ya, yb, ab), Passes(yb, yc, bc), Passes(yc, ya, ca)) IN
         /\ ab > 0 /\ bc > 0 /\ ca > 0 => odd
         /\ ab < 0 /\ bc < 0 /\ ca < 0 => odd
         /\ (ab > 0 \/ bc > 0 \/ ca > 0) /\ (ab < 0 \/ bc < 0 \/ ca < 0) => ~odd
<1> DEFINE pab == Passes(ya, yb, ab)
           pbc == Passes(yb, yc, bc)
           pca == Passes(yc, ya, ca)
           All == (ab > 0 /\ bc > 0 /\ ca > 0) \/ (ab < 0 /\ bc < 0 /\ ca < 0)
           Mixed == (ab > 0 \/ bc > 0 \/ ca > 0) /\ (ab < 0 \/ bc < 0 \/ ca < 0)
<1>1. CASE ya < 0 /\ yb < 0 /\ yc < 0
  <2>1. ~All /\ ~pab /\ ~pbc /\ ~pca
    BY <1>1 DEF Signed, Passes
  <2>2. QED
    BY <2>1 DEF Odd
<1>2. CASE ya >= 0 /\ yb >= 0 /\ yc >= 0
  <2>1. ~All /\ ~pab /\ ~pbc /\ ~pca
    BY <1>2 DEF Signed, Passes
  <2>2. QED
    BY <2>1 DEF Odd
<1>3. CASE (ya < 0 /\ yb >= 0 /\ yc >= 0) \/ (ya >= 0 /\ yb < 0 /\ yc < 0)
  <2>1. ~pbc
    BY <1>3 DEF Passes
  <2>2. All => (pab <=> ~pca)
    BY <1>3 DEF Passes
  <2>3. Mixed => (pab <=> pca)
    BY <1>3 DEF Signed, Passes
  <2>4. QED
    BY <2>1, <2>2, <2>3 DEF Odd
<1>4. CASE (yb < 0 /\ ya >= 0 /\ yc >= 0) \/ (yb >= 0 /\ ya < 0 /\ yc < 0)
  <2>1. ~pca
    BY <1>4 DEF Passes
  <2>2. All => (pab <=> ~pbc)
    BY <1>4 DEF Passes
  <2>3. Mixed => (pab <=> pbc)
    BY <1>4 DEF Signed, Passes
  <2>4. QED
    BY <2>1, <2>2, <2>3 DEF Odd
<1>5. CASE (yc < 0 /\ ya >= 0 /\ yb >= 0) \/ (yc >= 0 /\ ya < 0 /\ yb < 0)
  <2>1. ~pab
    BY <1>5 DEF Passes
  <2>2. All => (pbc <=> ~pca)
    BY <1>5 DEF Passes
  <2>3. Mixed => (pbc <=> pca)
    BY <1>5 DEF Signed, Passes
  <2>4. QED
    BY <2>1, <2>2, <2>3 DEF Odd
<1>6. QED
  BY <1>1, <1>2, <1>3, <1>4, <1>5

\* The same of the turns as they are.
LEMMA TurnsAround ==
  ASSUME NEW ya \in Int, NEW xa \in Int, NEW yb \in Int, NEW xb \in Int,
         NEW yc \in Int, NEW xc \in Int
  PROVE  LET ab == Turn(ya, xa, yb, xb)
             bc == Turn(yb, xb, yc, xc)
             ca == Turn(yc, xc, ya, xa)
             odd == Odd(Passes(ya, yb, ab), Passes(yb, yc, bc), Passes(yc, ya, ca))
         IN /\ ab > 0 /\ bc > 0 /\ ca > 0 => odd
            /\ ab < 0 /\ bc < 0 /\ ca < 0 => odd
            /\ (ab > 0 \/ bc > 0 \/ ca > 0) /\ (ab < 0 \/ bc < 0 \/ ca < 0) => ~odd
<1> DEFINE ab == Turn(ya, xa, yb, xb)
           bc == Turn(yb, xb, yc, xc)
           ca == Turn(yc, xc, ya, xa)
<1>1. ab \in Int /\ bc \in Int /\ ca \in Int
  BY DEF Turn
<1>2. yc * ab + ya * bc + yb * ca = 0
  BY DEF Turn
<1>3. Signed(yc, ab, yc * ab) /\ Signed(ya, bc, ya * bc) /\ Signed(yb, ca, yb * ca)
  <2> HIDE DEF ab, bc, ca
  <2>1. QED
    BY <1>1, Products DEF Signed
<1>4. yc * ab \in Int /\ ya * bc \in Int /\ yb * ca \in Int
  BY <1>3 DEF Signed
<1> HIDE DEF ab, bc, ca
<1>5. ya = 0 /\ yb = 0 => ab = 0
  BY DEF ab, Turn
<1>6. LET odd == Odd(Passes(ya, yb, ab), Passes(yb, yc, bc), Passes(yc, ya, ca)) IN
      /\ ab > 0 /\ bc > 0 /\ ca > 0 => odd
      /\ ab < 0 /\ bc < 0 /\ ca < 0 => odd
      /\ (ab > 0 \/ bc > 0 \/ ca > 0) /\ (ab < 0 \/ bc < 0 \/ ca < 0) => ~odd
  BY <1>1, <1>2, <1>3, <1>4, <1>5, Weights
<1>7. QED
  BY <1>6 DEF ab, bc, ca

\* An edge is crossed in either direction.
LEMMA CrossedBothWays ==
  ASSUME NEW p \in Int \X Int, NEW a \in Int \X Int, NEW b \in Int \X Int
  PROVE  Crosses(p, a, b) <=> Crosses(p, b, a)
<1> DEFINE ya == a[1] - p[1]
           xa == a[2] - p[2]
           yb == b[1] - p[1]
           xb == b[2] - p[2]
<1>1. ya \in Int /\ xa \in Int /\ yb \in Int /\ xb \in Int
  OBVIOUS
<1> HIDE DEF ya, xa, yb, xb
<1>2. Turn(yb, xb, ya, xa) = -Turn(ya, xa, yb, xb) /\ Turn(ya, xa, yb, xb) \in Int
  BY <1>1 DEF Turn
<1>3. Passes(ya, yb, Turn(ya, xa, yb, xb)) <=> Passes(yb, ya, Turn(yb, xb, ya, xa))
  BY <1>1, <1>2 DEF Passes
<1>4. QED
  BY <1>3, CrossesIs DEF ya, xa, yb, xb

\* The number of those that are so, of the first few.
LEMMA OneMore ==
  ASSUME NEW S, IsFiniteSet(S), NEW n, n \notin S, NEW b \in BOOLEAN
  PROVE  LET T == S \cup (IF b THEN {n} ELSE {})
         IN  IsFiniteSet(T) /\ Cardinality(T) = Cardinality(S) + (IF b THEN 1 ELSE 0)
<1>1. Cardinality(S) \in Nat
  BY FS_CardinalityType
<1>2. QED
  BY <1>1, FS_AddElement

\* The parity of the edges crossed, of a triangle and of a quadrilateral.
LEMMA OddOfThree ==
  ASSUME NEW c \in [1..3 -> BOOLEAN]
  PROVE  (Cardinality({i \in 1..3 : c[i]}) % 2 = 1) <=> Odd(c[1], c[2], c[3])
<1> DEFINE One(i) == IF c[i] THEN {i} ELSE {}
           B(i) == IF c[i] THEN 1 ELSE 0
<1>1. {i \in 1..3 : c[i]} = ({} \cup One(1)) \cup One(2) \cup One(3)
  OBVIOUS
<1>2. IsFiniteSet({}) /\ Cardinality({}) = 0
  BY FS_EmptySet
<1>3. IsFiniteSet({} \cup One(1)) /\ Cardinality({} \cup One(1)) = 0 + B(1)
  BY <1>2, OneMore
<1>4. /\ IsFiniteSet(({} \cup One(1)) \cup One(2))
      /\ Cardinality(({} \cup One(1)) \cup One(2)) = 0 + B(1) + B(2)
  <2>1. 2 \notin {} \cup One(1)
    OBVIOUS
  <2>2. QED
    BY <1>3, <2>1, OneMore
<1>5. Cardinality(({} \cup One(1)) \cup One(2) \cup One(3)) = 0 + B(1) + B(2) + B(3)
  <2>1. 3 \notin ({} \cup One(1)) \cup One(2)
    OBVIOUS
  <2>2. QED
    BY <1>4, <2>1, OneMore
<1>6. (0 + B(1) + B(2) + B(3)) % 2 = 1 <=> Odd(c[1], c[2], c[3])
  BY DEF Odd
<1>7. QED
  BY <1>1, <1>5, <1>6

\* Four are odd when one of the two pairs is.
LEMMA OddOfFour ==
  ASSUME NEW c \in [1..4 -> BOOLEAN]
  PROVE  (Cardinality({i \in 1..4 : c[i]}) % 2 = 1)
           <=> ((c[1] <=> c[2]) <=> ~(c[3] <=> c[4]))
<1> DEFINE One(i) == IF c[i] THEN {i} ELSE {}
           B(i) == IF c[i] THEN 1 ELSE 0
           Two == ({} \cup One(1)) \cup One(2)
<1>1. {i \in 1..4 : c[i]} = Two \cup One(3) \cup One(4)
  OBVIOUS
<1>2. IsFiniteSet({}) /\ Cardinality({}) = 0
  BY FS_EmptySet
<1>3. IsFiniteSet({} \cup One(1)) /\ Cardinality({} \cup One(1)) = 0 + B(1)
  BY <1>2, OneMore
<1>4. IsFiniteSet(Two) /\ Cardinality(Two) = 0 + B(1) + B(2)
  <2>1. 2 \notin {} \cup One(1)
    OBVIOUS
  <2>2. QED
    BY <1>3, <2>1, OneMore
<1>5. IsFiniteSet(Two \cup One(3)) /\ Cardinality(Two \cup One(3)) = 0 + B(1) + B(2) + B(3)
  <2>1. 3 \notin Two
    OBVIOUS
  <2>2. QED
    BY <1>4, <2>1, OneMore
<1>6. Cardinality(Two \cup One(3) \cup One(4)) = 0 + B(1) + B(2) + B(3) + B(4)
  <2>1. 4 \notin Two \cup One(3)
    OBVIOUS
  <2>2. QED
    BY <1>5, <2>1, OneMore
<1>7. (0 + B(1) + B(2) + B(3) + B(4)) % 2 = 1 <=> ((c[1] <=> c[2]) <=> ~(c[3] <=> c[4]))
  OBVIOUS
<1>8. QED
  BY <1>1, <1>6, <1>7

\* What the test says of a triangle, and of a quadrilateral, edge by edge.
LEMMA InsideTriangle ==
  ASSUME NEW p, NEW a, NEW b, NEW c, NEW corners, Len(corners) = 3,
         corners[1] = a, corners[2] = b, corners[3] = c
  PROVE  is_point_inside_polygon(p, corners)
           <=> Odd(Crosses(p, a, b), Crosses(p, b, c), Crosses(p, c, a))
<1> DEFINE edge == [i \in 1..3 |-> Crosses(p, corners[i], corners[(i % 3) + 1])]
<1>1. edge \in [1..3 -> BOOLEAN]
  BY DEF Crosses
<1>2. (1 % 3) + 1 = 2 /\ (2 % 3) + 1 = 3 /\ (3 % 3) + 1 = 1
  OBVIOUS
<1>3. /\ edge[1] = Crosses(p, a, b)
      /\ edge[2] = Crosses(p, b, c)
      /\ edge[3] = Crosses(p, c, a)
  BY <1>2
<1>4. {i \in 1..3 : edge[i]}
        = {i \in 1..3 : Crosses(p, corners[i], corners[(i % 3) + 1])}
  OBVIOUS
<1> HIDE DEF edge
<1>5. is_point_inside_polygon(p, corners) <=> Odd(edge[1], edge[2], edge[3])
  BY <1>1, <1>4, OddOfThree DEF is_point_inside_polygon
<1>6. QED
  BY <1>3, <1>5

\* The same of a quadrilateral.
LEMMA InsideQuadrilateral ==
  ASSUME NEW p, NEW corners, Len(corners) = 4
  PROVE  LET Edge(i, j) == Crosses(p, corners[i], corners[j]) IN
         is_point_inside_polygon(p, corners)
           <=> ((Edge(1, 2) <=> Edge(2, 3)) <=> ~(Edge(3, 4) <=> Edge(4, 1)))
<1> DEFINE edge == [i \in 1..4 |-> Crosses(p, corners[i], corners[(i % 4) + 1])]
<1>1. edge \in [1..4 -> BOOLEAN]
  BY DEF Crosses
<1>2. (1 % 4) + 1 = 2 /\ (2 % 4) + 1 = 3 /\ (3 % 4) + 1 = 4 /\ (4 % 4) + 1 = 1
  OBVIOUS
<1>3. /\ edge[1] = Crosses(p, corners[1], corners[2])
      /\ edge[2] = Crosses(p, corners[2], corners[3])
      /\ edge[3] = Crosses(p, corners[3], corners[4])
      /\ edge[4] = Crosses(p, corners[4], corners[1])
  BY <1>2
<1>4. {i \in 1..4 : edge[i]}
        = {i \in 1..4 : Crosses(p, corners[i], corners[(i % 4) + 1])}
  OBVIOUS
<1> HIDE DEF edge
<1>5. is_point_inside_polygon(p, corners)
        <=> ((edge[1] <=> edge[2]) <=> ~(edge[3] <=> edge[4]))
  BY <1>1, <1>4, OddOfFour DEF is_point_inside_polygon
<1>6. QED
  BY <1>3, <1>5

\* A triangle's answer is that of the turns of its edges about the point.
LEMMA TriangleIsGeometric ==
  ASSUME NEW p \in Int \X Int, NEW a \in Int \X Int, NEW b \in Int \X Int, NEW c \in Int \X Int,
         NEW corners, Len(corners) = 3,
         corners[1] = a, corners[2] = b, corners[3] = c
  PROVE  LET ab == Side(p, a, b)
             bc == Side(p, b, c)
             ca == Side(p, c, a)
         IN /\ {ab, bc, ca} \in {{1}, {-1}} => is_point_inside_polygon(p, corners)
            /\ {1, -1} \subseteq {ab, bc, ca} => ~is_point_inside_polygon(p, corners)
<1> DEFINE Sign(n) == IF n > 0 THEN 1 ELSE IF n < 0 THEN -1 ELSE 0
           Around(u, v) == Turn(u[1] - p[1], u[2] - p[2], v[1] - p[1], v[2] - p[2])
<1>1. \A u, v \in Int \X Int : Around(u, v) \in Int /\ Side(p, u, v) = Sign(Around(u, v))
  <2> SUFFICES ASSUME NEW u \in Int \X Int, NEW v \in Int \X Int
               PROVE  Around(u, v) \in Int /\ Side(p, u, v) = Sign(Around(u, v))
    OBVIOUS
  <2>1. /\ p[1] \in Int /\ p[2] \in Int /\ u[1] \in Int /\ u[2] \in Int
        /\ v[1] \in Int /\ v[2] \in Int
    OBVIOUS
  <2>2. ASSUME NEW p1 \in Int, NEW p2 \in Int, NEW u1 \in Int, NEW u2 \in Int,
               NEW v1 \in Int, NEW v2 \in Int
        PROVE  (v1 - u1) * (p2 - u2) - (v2 - u2) * (p1 - u1)
                 = (u1 - p1) * (v2 - p2) - (v1 - p1) * (u2 - p2)
    OBVIOUS
  <2>3. (v[1] - u[1]) * (p[2] - u[2]) - (v[2] - u[2]) * (p[1] - u[1]) = Around(u, v)
    BY <2>1, <2>2 DEF Turn
  <2>4. QED
    BY <2>1, <2>3 DEF Side, Turn
<1> DEFINE odd == Odd(Passes(a[1] - p[1], b[1] - p[1], Around(a, b)),
                      Passes(b[1] - p[1], c[1] - p[1], Around(b, c)),
                      Passes(c[1] - p[1], a[1] - p[1], Around(c, a)))
<1>2. is_point_inside_polygon(p, corners) <=> odd
  <2>1. /\ Crosses(p, a, b) <=> Passes(a[1] - p[1], b[1] - p[1], Around(a, b))
        /\ Crosses(p, b, c) <=> Passes(b[1] - p[1], c[1] - p[1], Around(b, c))
        /\ Crosses(p, c, a) <=> Passes(c[1] - p[1], a[1] - p[1], Around(c, a))
    BY CrossesIs
  <2>2. is_point_inside_polygon(p, corners)
          <=> Odd(Crosses(p, a, b), Crosses(p, b, c), Crosses(p, c, a))
    BY InsideTriangle
  <2> HIDE DEF Around
  <2>3. QED
    BY <2>1, <2>2 DEF Odd
<1>3. /\ a[1] - p[1] \in Int /\ a[2] - p[2] \in Int /\ b[1] - p[1] \in Int
      /\ b[2] - p[2] \in Int /\ c[1] - p[1] \in Int /\ c[2] - p[2] \in Int
  OBVIOUS
<1>4. /\ Around(a, b) > 0 /\ Around(b, c) > 0 /\ Around(c, a) > 0 => odd
      /\ Around(a, b) < 0 /\ Around(b, c) < 0 /\ Around(c, a) < 0 => odd
      /\ (Around(a, b) > 0 \/ Around(b, c) > 0 \/ Around(c, a) > 0)
           /\ (Around(a, b) < 0 \/ Around(b, c) < 0 \/ Around(c, a) < 0) => ~odd
  <2> DEFINE ya == a[1] - p[1]
             xa == a[2] - p[2]
             yb == b[1] - p[1]
             xb == b[2] - p[2]
             yc == c[1] - p[1]
             xc == c[2] - p[2]
  <2>1. /\ Around(a, b) = Turn(ya, xa, yb, xb)
        /\ Around(b, c) = Turn(yb, xb, yc, xc)
        /\ Around(c, a) = Turn(yc, xc, ya, xa)
    OBVIOUS
  <2>2. odd <=> Odd(Passes(ya, yb, Around(a, b)), Passes(yb, yc, Around(b, c)),
                    Passes(yc, ya, Around(c, a)))
    OBVIOUS
  <2>3. ya \in Int /\ xa \in Int /\ yb \in Int /\ xb \in Int /\ yc \in Int /\ xc \in Int
    BY <1>3
  <2> HIDE DEF ya, xa, yb, xb, yc, xc, Around, odd
  <2> DEFINE ab == Turn(ya, xa, yb, xb)
             bc == Turn(yb, xb, yc, xc)
             ca == Turn(yc, xc, ya, xa)
             turned == Odd(Passes(ya, yb, ab), Passes(yb, yc, bc), Passes(yc, ya, ca))
  <2>4. /\ ab > 0 /\ bc > 0 /\ ca > 0 => turned
        /\ ab < 0 /\ bc < 0 /\ ca < 0 => turned
        /\ (ab > 0 \/ bc > 0 \/ ca > 0) /\ (ab < 0 \/ bc < 0 \/ ca < 0) => ~turned
    BY <2>3, TurnsAround
  <2>5. odd <=> turned
    BY <2>1, <2>2
  <2>6. Around(a, b) = ab /\ Around(b, c) = bc /\ Around(c, a) = ca
    BY <2>1
  <2> HIDE DEF turned, ab, bc, ca
  <2>7. QED
    BY <2>4, <2>5, <2>6
<1> HIDE DEF odd, Around
<1>5. QED
  BY <1>1, <1>2, <1>4

\* A triangle, by the lemma above; and the diagonal of a quadrilateral, which both triangles
\* have and the quadrilateral has not, counts twice or not at all.
LEMMA QuestionsAreGeometric ==
  ASSUME NEW p \in GeoPoints, NEW corners \in [1..3 -> GeoPoints] \cup [1..4 -> GeoPoints]
  PROVE  LET sides == {Side(p, corners[i], corners[(i % 3) + 1]) : i \in 1..3} IN
         IF Len(corners) = 3
           THEN /\ sides \in {{1}, {-1}} => is_point_inside_polygon(p, corners)
                /\ {1, -1} \subseteq sides => ~is_point_inside_polygon(p, corners)
           ELSE is_point_inside_polygon(p, corners)
                  = (is_point_inside_polygon(p, SubSeq(corners, 1, 3))
                       # is_point_inside_polygon(p, <<corners[1], corners[3], corners[4]>>))
<1>1. GeoPoints \subseteq Int \X Int
  BY DegreesAssumption DEF GeoPoints
<1>2. CASE corners \in [1..3 -> GeoPoints]
  <2>1. Len(corners) = 3 /\ \A i \in 1..3 : corners[i] \in Int \X Int
    BY <1>1, <1>2
  <2>2. (1 % 3) + 1 = 2 /\ (2 % 3) + 1 = 3 /\ (3 % 3) + 1 = 1
    OBVIOUS
  <2>3. {Side(p, corners[i], corners[(i % 3) + 1]) : i \in 1..3}
          = {Side(p, corners[1], corners[2]), Side(p, corners[2], corners[3]),
             Side(p, corners[3], corners[1])}
    <3>1. 1..3 = {1, 2, 3}
      OBVIOUS
    <3>2. QED
      BY <2>2, <3>1
  <2>4. QED
    <3>1. p \in Int \X Int
      BY <1>1
    <3>2. /\ corners[1] \in Int \X Int /\ corners[2] \in Int \X Int
          /\ corners[3] \in Int \X Int
      BY <2>1
    <3> DEFINE sides == {Side(p, corners[1], corners[2]), Side(p, corners[2], corners[3]),
                         Side(p, corners[3], corners[1])}
    <3>3. /\ sides \in {{1}, {-1}} => is_point_inside_polygon(p, corners)
          /\ {1, -1} \subseteq sides => ~is_point_inside_polygon(p, corners)
      BY <2>1, <3>1, <3>2, TriangleIsGeometric
    <3> HIDE DEF sides
    <3>4. {Side(p, corners[i], corners[(i % 3) + 1]) : i \in 1..3} = sides
      BY <2>3 DEF sides
    <3>5. QED
      BY <2>1, <3>3, <3>4
<1>3. CASE corners \in [1..4 -> GeoPoints]
  <2> DEFINE Edge(i, j) == Crosses(p, corners[i], corners[j])
             former == SubSeq(corners, 1, 3)
             latter == <<corners[1], corners[3], corners[4]>>
  <2>1. Len(corners) = 4 /\ \A i \in 1..4 : corners[i] \in Int \X Int
    BY <1>1, <1>3
  <2>2. /\ Len(former) = 3 /\ former[1] = corners[1]
        /\ former[2] = corners[2] /\ former[3] = corners[3]
    BY <2>1
  <2>3. is_point_inside_polygon(p, former) <=> Odd(Edge(1, 2), Edge(2, 3), Edge(3, 1))
    <3> HIDE DEF former
    <3>1. QED
      BY <2>2, InsideTriangle
  <2>4. is_point_inside_polygon(p, latter) <=> Odd(Edge(1, 3), Edge(3, 4), Edge(4, 1))
    BY InsideTriangle
  <2>5. is_point_inside_polygon(p, corners)
          <=> ((Edge(1, 2) <=> Edge(2, 3)) <=> ~(Edge(3, 4) <=> Edge(4, 1)))
    BY <2>1, InsideQuadrilateral
  <2>6. Edge(1, 3) <=> Edge(3, 1)
    BY <1>1, <2>1, CrossedBothWays
  <2>7. /\ is_point_inside_polygon(p, corners) \in BOOLEAN
        /\ is_point_inside_polygon(p, former) \in BOOLEAN
        /\ is_point_inside_polygon(p, latter) \in BOOLEAN
    BY DEF is_point_inside_polygon
  <2> HIDE DEF former, latter, Edge
  <2>8. is_point_inside_polygon(p, corners)
          = (is_point_inside_polygon(p, former) # is_point_inside_polygon(p, latter))
    BY <2>3, <2>4, <2>5, <2>6, <2>7 DEF Odd
  <2>9. QED
    BY <2>1, <2>8 DEF former, latter
<1>4. QED
  BY <1>2, <1>3

(* is_point_inside_polygon agrees with geometry, for every point, triangle  *)
(* and quadrilateral at whatever whole degrees: also those on an edge's     *)
(* line, on a corner, and the ones whose corners coincide.                  *)
THEOREM TestsAreGeometric == Spec => []TestAgreesWithGeometry
<1> DEFINE Corners == [1..3 -> GeoPoints] \cup [1..4 -> GeoPoints]
           Asked == part = "test" => probe \in GeoPoints /\ polygon \in Corners
<1>1. Init => Asked
  BY DEF Init, QuestionInit
<1>2. Asked /\ [Next]_flightVars => Asked'
  BY DEF Next, flightVars, questionVars
<1>3. Asked => TestAgreesWithGeometry
  BY QuestionsAreGeometric DEF TestAgreesWithGeometry, TestIsGeometric
<1>4. QED
  BY <1>1, <1>2, <1>3, PTL DEF Spec

-----------------------------------------------------------------------------
(***************************************************************************)
(* Polygons of any number of corners, by the triangles they are made of.   *)
(***************************************************************************)

\* A set of naturals that is not empty has a least one.
LEMMA Least ==
  ASSUME NEW T, T \subseteq Nat, T # {}
  PROVE  \E x \in T : \A y \in T : x <= y
<1> DEFINE Below == {p \in Nat \X Nat : p[1] < p[2]}
<1>1. IsWellFoundedOn(Below, Nat)
  BY NatLessThanWellFounded DEF OpToRel
<1> HIDE DEF Below
<1>2. PICK x \in T : \A y \in T : <<y, x>> \notin Below
  BY <1>1, WFMin
<1>3. \A y \in T : ~(y < x)
  BY <1>2 DEF Below
<1>4. QED
  BY <1>3

\* Corners are counted round.
LEMMA Counted ==
  ASSUME NEW n \in Nat, n >= 2
  PROVE  /\ \A i \in 1..(n - 1) : (i % n) + 1 = i + 1
         /\ (n % n) + 1 = 1
  OBVIOUS

\* Truth counted, and the parity of three.
Bit(b) == IF b THEN 1 ELSE 0

LEMMA OddBits ==
  ASSUME NEW x \in BOOLEAN, NEW y \in BOOLEAN, NEW z \in BOOLEAN
  PROVE  (Bit(x) + Bit(y) + Bit(z)) % 2 = Bit(Odd(x, y, z))
<1>1. CASE x
  BY <1>1 DEF Bit, Odd
<1>2. CASE ~x
  BY <1>2 DEF Bit, Odd
<1>3. QED
  BY <1>1, <1>2

\* Of two numbers that are both odd or both even without x, and without that of x, y and z.
LEMMA Parities ==
  ASSUME NEW a \in Nat, NEW b \in Nat, NEW x \in {0, 1}, NEW y \in {0, 1}, NEW z \in {0, 1},
         (a + x) % 2 = b % 2
  PROVE  ((a + y) + z) % 2 = (b + ((x + y + z) % 2)) % 2
<1>1. CASE x = 0
  <2>1. CASE y = 0 /\ z = 0
    BY <1>1, <2>1
  <2>2. CASE y # z
    BY <1>1, <2>2
  <2>3. CASE y = 1 /\ z = 1
    BY <1>1, <2>3
  <2>4. QED
    BY <2>1, <2>2, <2>3
<1>2. CASE x = 1
  <2>1. CASE y = 0 /\ z = 0
    BY <1>2, <2>1
  <2>2. CASE y # z
    BY <1>2, <2>2
  <2>3. CASE y = 1 /\ z = 1
    BY <1>2, <2>3
  <2>4. QED
    BY <2>1, <2>2, <2>3
<1>3. QED
  BY <1>1, <1>2

LEMMA CountedOn ==
  ASSUME NEW k \in Nat, k >= 2
  PROVE  (k + 1) - 1 = k /\ 1..k = (1..(k - 1)) \cup {k} /\ 2..k = (2..(k - 1)) \cup {k}
  OBVIOUS

\* Of a polygon's boundary, the edges up to the k-th corner that are crossed, and
\* the triangles with the first corner up to there that the point is inside of.
CrossedTo(p, corners, k) == {i \in 1..(k - 1) : Crosses(p, corners[i], corners[i + 1])}

Fan(p, corners, k) ==
  {i \in 2..(k - 1) : is_point_inside_polygon(p, <<corners[1], corners[i], corners[i + 1]>>)}

\* The edges up to the k-th corner, with the one from there back to the first, are odd in
\* number exactly when the triangles are.
SameParity(p, corners, k) ==
  (Cardinality(CrossedTo(p, corners, k))
     + Bit(Crosses(p, corners[1], corners[k]))) % 2
    = Cardinality(Fan(p, corners, k)) % 2

\* One more corner is one more edge and one more triangle; the edge from the first corner
\* that the two have in common counts twice.
LEMMA OneMoreCorner ==
  ASSUME NEW p \in Int \X Int, NEW corners,
         NEW k \in Nat, k >= 2, SameParity(p, corners, k),
         \A i \in {1, k, k + 1} : corners[i] \in Int \X Int
  PROVE  SameParity(p, corners, k + 1)
<1> DEFINE Path == CrossedTo(p, corners, k)
           Triangles == Fan(p, corners, k)
           Out == Crosses(p, corners[1], corners[k])
           Along == Crosses(p, corners[k], corners[k + 1])
           Back == Crosses(p, corners[1], corners[k + 1])
           Inside == is_point_inside_polygon(p, <<corners[1], corners[k], corners[k + 1]>>)
<1>1. /\ corners[1] \in Int \X Int /\ corners[k] \in Int \X Int
      /\ corners[k + 1] \in Int \X Int
  OBVIOUS
<1>2. IsFiniteSet(Path) /\ IsFiniteSet(Triangles)
  <2>1. IsFiniteSet(1..(k - 1)) /\ IsFiniteSet(2..(k - 1))
    BY FS_Interval
  <2>2. Path \subseteq 1..(k - 1) /\ Triangles \subseteq 2..(k - 1)
    BY DEF CrossedTo, Fan
  <2>3. QED
    BY <2>1, <2>2, FS_Subset
<1>3. Cardinality(Path) \in Nat /\ Cardinality(Triangles) \in Nat
  BY <1>2, FS_CardinalityType
<1>4. Out \in BOOLEAN /\ Along \in BOOLEAN /\ Back \in BOOLEAN /\ Inside \in BOOLEAN
  BY DEF Crosses, is_point_inside_polygon
<1>5. Cardinality(CrossedTo(p, corners, k + 1)) = Cardinality(Path) + Bit(Along)
  <2>1. CrossedTo(p, corners, k + 1) = Path \cup (IF Along THEN {k} ELSE {})
    <3>1. (k + 1) - 1 = k /\ 1..k = (1..(k - 1)) \cup {k}
      BY CountedOn
    <3>2. CrossedTo(p, corners, k + 1)
            = {i \in (1..(k - 1)) \cup {k} : Crosses(p, corners[i], corners[i + 1])}
      BY <3>1 DEF CrossedTo
    <3>3. QED
      BY <3>2 DEF CrossedTo
  <2>2. k \notin Path
    BY DEF CrossedTo
  <2> HIDE DEF Path, Along
  <2>3. QED
    BY <1>2, <1>4, <2>1, <2>2, OneMore DEF Bit
<1>6. Cardinality(Fan(p, corners, k + 1)) = Cardinality(Triangles) + Bit(Inside)
  <2>1. Fan(p, corners, k + 1) = Triangles \cup (IF Inside THEN {k} ELSE {})
    <3>1. (k + 1) - 1 = k /\ 2..k = (2..(k - 1)) \cup {k}
      BY CountedOn
    <3>2. Fan(p, corners, k + 1)
            = {i \in (2..(k - 1)) \cup {k} :
                 is_point_inside_polygon(p, <<corners[1], corners[i], corners[i + 1]>>)}
      BY <3>1 DEF Fan
    <3>3. QED
      BY <3>2 DEF Fan
  <2>2. k \notin Triangles
    BY DEF Fan
  <2> HIDE DEF Triangles, Inside
  <2>3. QED
    BY <1>2, <1>4, <2>1, <2>2, OneMore DEF Bit
<1>7. Inside <=> Odd(Out, Along, Back)
  <2>1. Inside <=> Odd(Out, Along, Crosses(p, corners[k + 1], corners[1]))
    BY InsideTriangle
  <2>2. Crosses(p, corners[k + 1], corners[1]) <=> Back
    BY <1>1, CrossedBothWays
  <2>3. QED
    BY <2>1, <2>2 DEF Odd
<1>8. (Cardinality(Path) + Bit(Out)) % 2 = Cardinality(Triangles) % 2
  BY DEF SameParity
<1> HIDE DEF Path, Triangles, Out, Along, Back, Inside
<1>9. ((Cardinality(Path) + Bit(Along)) + Bit(Back)) % 2 = (Cardinality(Triangles) + Bit(Inside)) % 2
  <2>1. Bit(Inside) = (Bit(Out) + Bit(Along) + Bit(Back)) % 2
    BY <1>4, <1>7, OddBits DEF Bit
  <2>2. Bit(Out) \in {0, 1} /\ Bit(Along) \in {0, 1} /\ Bit(Back) \in {0, 1}
    BY DEF Bit
  <2>3. QED
    BY <1>3, <1>8, <2>1, <2>2, Parities
<1>10. QED
  BY <1>5, <1>6, <1>9 DEF SameParity, Back

\* So it is at every corner: the first of which it were not has one before it.
LEMMA ParityAtEachCorner ==
  ASSUME NEW p \in Int \X Int, NEW corners, NEW n \in Nat, n >= 2,
         \A i \in 1..n : corners[i] \in Int \X Int
  PROVE  SameParity(p, corners, n)
<1> SUFFICES ASSUME ~SameParity(p, corners, n) PROVE FALSE
  OBVIOUS
<1> DEFINE Wrong == {k \in 2..n : ~SameParity(p, corners, k)}
<1>1. PICK k \in Wrong : \A j \in Wrong : k <= j
  <2>1. n \in Wrong
    OBVIOUS
  <2>2. Wrong \subseteq Nat
    OBVIOUS
  <2> HIDE DEF Wrong
  <2>3. QED
    BY <2>1, <2>2, Least
<1>2. k # 2
  <2>1. SameParity(p, corners, 2)
    <3>1. Fan(p, corners, 2) = {}
      BY DEF Fan
    <3>2. CrossedTo(p, corners, 2)
            = {} \cup (IF Crosses(p, corners[1], corners[2]) THEN {1} ELSE {})
      BY DEF CrossedTo
    <3>3. IsFiniteSet({}) /\ Cardinality({}) = 0
      BY FS_EmptySet
    <3>4. Crosses(p, corners[1], corners[2]) \in BOOLEAN
      BY DEF Crosses
    <3> DEFINE crossed == Bit(Crosses(p, corners[1], corners[2]))
    <3>5. Cardinality(CrossedTo(p, corners, 2)) = 0 + crossed
      <4>1. 1 \notin {}
        OBVIOUS
      <4>2. QED
        BY <3>2, <3>3, <3>4, <4>1, OneMore DEF Bit
    <3>6. (crossed + crossed) % 2 = 0 % 2 /\ 0 + crossed = crossed
      BY DEF Bit
    <3> HIDE DEF crossed
    <3>7. (Cardinality(CrossedTo(p, corners, 2)) + crossed) % 2
            = Cardinality(Fan(p, corners, 2)) % 2
      BY <3>1, <3>3, <3>5, <3>6
    <3>8. QED
      BY <3>7 DEF SameParity, crossed
  <2>2. QED
    BY <2>1
<1>3. k - 1 \in 2..(n - 1) /\ SameParity(p, corners, k - 1)
  BY <1>1, <1>2
<1>4. SameParity(p, corners, (k - 1) + 1)
  BY <1>3, OneMoreCorner
<1>5. QED
  BY <1>1, <1>4

\* All the way round.
LEMMA PolygonIsFan ==
  ASSUME NEW p \in Int \X Int, NEW corners, NEW n \in Nat, n >= 3, Len(corners) = n,
         \A i \in 1..n : corners[i] \in Int \X Int
  PROVE  is_point_inside_polygon(p, corners) <=> Cardinality(Fan(p, corners, n)) % 2 = 1
<1>1. /\ \A i \in 1..(n - 1) : (i % n) + 1 = i + 1
      /\ (n % n) + 1 = 1
      /\ 1..n = (1..(n - 1)) \cup {n}
  <2>1. n >= 2
    OBVIOUS
  <2>2. QED
    BY <2>1, Counted, CountedOn
<1> DEFINE Path == CrossedTo(p, corners, n)
           Last == Crosses(p, corners[n], corners[1])
           Edges == {i \in 1..n : Crosses(p, corners[i], corners[(i % n) + 1])}
<1>2. corners[1] \in Int \X Int /\ corners[n] \in Int \X Int
  OBVIOUS
<1>3. Last \in BOOLEAN
  BY DEF Crosses
<1>4. Edges = Path \cup (IF Last THEN {n} ELSE {})
  <2>1. Edges = {i \in 1..(n - 1) : Crosses(p, corners[i], corners[i + 1])}
                  \cup (IF Last THEN {n} ELSE {})
    BY <1>1
  <2>2. QED
    BY <2>1 DEF CrossedTo
<1>5. IsFiniteSet(Path) /\ n \notin Path
  <2>1. Path \subseteq 1..(n - 1)
    BY DEF CrossedTo
  <2>2. IsFiniteSet(1..(n - 1))
    BY FS_Interval
  <2>3. QED
    BY <2>1, <2>2, FS_Subset
<1>6. Last <=> Crosses(p, corners[1], corners[n])
  BY <1>2, CrossedBothWays
<1>7. SameParity(p, corners, n)
  BY ParityAtEachCorner
<1>8. is_point_inside_polygon(p, corners) <=> Cardinality(Edges) % 2 = 1
  BY DEF is_point_inside_polygon
<1>9. (Cardinality(Path) + Bit(Last)) % 2 = Cardinality(Fan(p, corners, n)) % 2
  BY <1>6, <1>7 DEF SameParity, Bit
<1> HIDE DEF Path, Last, Edges
<1>10. Cardinality(Edges) = Cardinality(Path) + Bit(Last)
  BY <1>3, <1>4, <1>5, OneMore DEF Bit
<1>11. QED
  BY <1>8, <1>9, <1>10

(* is_point_inside_polygon, for a polygon of any number of corners and of    *)
(* any shape: a point is inside exactly when it is inside an odd number of *)
(* the triangles that the first corner makes with the other edges.  What   *)
(* the test says of triangles, which TestsAreGeometric is about, so settles *)
(* it for the fences and islands of any mission.                           *)
THEOREM PolygonsAreTriangles ==
  ASSUME NEW p \in Int \X Int, NEW corners \in Seq(Int \X Int), Len(corners) >= 3
  PROVE  is_point_inside_polygon(p, corners)
           <=> Cardinality({i \in 2..(Len(corners) - 1) :
                              is_point_inside_polygon(p, <<corners[1], corners[i], corners[i + 1]>>)})
                 % 2 = 1
<1>1. Len(corners) \in Nat /\ \A i \in 1..Len(corners) : corners[i] \in Int \X Int
  BY LenProperties, ElementOfSeq
<1>2. is_point_inside_polygon(p, corners)
        <=> Cardinality(Fan(p, corners, Len(corners))) % 2 = 1
  BY <1>1, PolygonIsFan
<1>3. QED
  BY <1>2 DEF Fan
=============================================================================
