# Verification of the SMaRC 2 task execution stack

SMaRC 2 is the ROS 2 software of a family of marine robots and drones. An
operator sends tasks and missions (WARA-PS messages over MQTT) to a vehicle. The
node `wasp_bt` on the vehicle keeps them in a queue, and a behaviour tree works on
the head of the queue by sending goals to action servers, one server per task
name. Some of these servers are behaviour trees themselves, with action servers of
their own below. This directory models that stack in TLA+: what an operator, a
vehicle, a client and a server may do to it in any order, and what it must keep
up meanwhile.

## The system

Paths are below `src/behaviours/smarc/` unless they start otherwise.

### The core

**Task handler** (`wasp_bt/.../waraps/waraps_task_handler.py`).
*State*: the queue `tasks_executing`, the list `tasks_available` with the time of
each server's last heartbeat, `emergency_flag`, `aborted_flag`, the mission's
command, status, start time and timeout, and the last health report with its
time. *Operations*: start, stop, pause and continue one task (exec topic); start a
mission, stop, pause, continue all of it, cancel an abort (tst topic); red
button, reset of the emergency (topic, service); heartbeats of servers and of the
agent, health of the vehicle; two timers that drop silent servers and watch the
mission timeout; the calls of the tree. *Hard*: five sources set and clear the
flags, the timer and the queue in any order; some commands fail half-way.
*Correct when* a stopped task is never worked on again, an emergency leaves
nothing to resume, nothing starts on a vehicle that is not ready, and a mission
that hangs is noticed.

**Behaviour tree** (`wasp_bt/.../bt/ros_bt.py`, `actions.py`, `conditions.py`).
*State*: the status of every node, the servers the tree was built for, the clients
it caches. *Operations*: a tick every 0.1 s, which first rebuilds the task
subtree when the available servers changed. *Hard*: conditions turn between two
ticks, and what was running behind them must be stopped; the tick changes the
queue and the flags it reads; a rebuild drops leaves without stopping them.
*Correct when* it works on one thing at a time, sends a goal only for the task at
the head, stops what runs when told to, and never stays with one task for ever.

**Action client and its leaf** (`smarc_action_base/.../smarc_action_base.py`,
`SMARCActionClient`; `wasp_bt/.../bt/client.py`; `A_ActionClient` of
`actions.py`). *State*: the client's state (`READY`, `SENT`, ... `CANCELLED`) and its goal handle.
*Operations*: send a goal, cancel it, be ready again; callbacks for the acceptance,
feedback, cancel answer and result of a goal. *Hard*: every message is delayed,
and nothing compares the goal a message is about with the goal the client waits
for. *Correct when* a leaf that succeeds has a goal that is over, no goal goes on
without a handle, and a client never waits for nothing.

**Action servers.** There are two bases, one in Python (`smarc_action_base.py`,
`SMARCActionServer`; `gentler_action_server.py`) and one in C++
(`smarc_action_base_cpp/src/gentler_action_server.cpp`, `graceful_shutdown.cpp`).
*State*: the handle of the goal it keeps, each goal's status, the place of each
loop. *Operations*: a goal request, a cancel request, the execution loop with the
user's callbacks; in C++ also the shutdown. *Hard*: a multi-threaded executor, or a
thread per goal, interleaves them; user callbacks raise. *Correct when* one goal at
a time is accepted, each is started and ends once, the client is told the truth,
and a loop gives way to what waits for it.

### Missions that are action servers themselves

**Proximity operations of Evolo** (`src/behaviours/evolo/prox_ops_bt`,
`prox_ops_actions`). A tree that patrols, intercepts and inspects a target, inside a
Python action server; its leaves are goals of three C++ action servers. *State*: timers
of the patrol and the inspection; the patrol's goal of yet another server, `move_to`; the
last messages of the planning backend. *Hard*: the mission is cancelled on another thread in
the middle of a tick; late answers of `move_to`; messages dropped while they are read.
*Correct when* timeouts run, the backend is stopped with the mission, the goal that drives the
boat can be cancelled, and no control is forwarded past the geofence.

**ALARS** (`src/behaviours/alars/alars/alars_bt.py`). The tree of a drone that looks for an AUV
and lifts it. *State*: counts of failures. *Correct when* a recovery that is
reported was one, and failures are retried a bounded number of times.

**Actions of ALARS** (`alars_move_to`, `alars_recover`, `alars_search` and
`alars_follow_auv_action_server.py`). Four Python action servers that fly the drone to a
point, along a recovery, in a spiral or behind the AUV. *State*: the attributes that describe the goal,
written by requests and cancellations on one thread and read by the loop on another. *Hard*: they are
the same attributes for every goal, and the loop of a cancelled goal goes on for a while. *Correct when* a
goal is flown to its own target, and its success is an arrival.

**TUPER of LoLo** (`src/behaviours/lolo/lolo_tuper`). Go to the start, follow the setpoint of
the leaders until it stops, settle, return. *State*: the phase, the goal of the vehicle
object, the history of the setpoint. *Hard*: a cancellation resets the tree and the
vehicle under a phase that is steering; a dropout of acoustic messages looks like leaders
at rest. *Correct when* every mission ends, one that ends lets go of the vehicle, and a stop is a stop.

### Safety of the flight

**Geofence node** (`smarc_basic/.../geofence_node.py`). *State*: fences, islands,
ceiling, floor, position. *Operations*: two action servers that start and stop
fences, the check of the position, the timer of the polygons. *Hard*: the actions write
between any two reads of a check. *Correct when* a check says what the position
deserves, and the polygon test agrees with geometry.

**DJI captain** (`src/vehicles/hardware/dji/dji_captain`). *State*: setpoints and the timer that
flies to them, who has control, what was heard of the vehicle. *Correct when* a
discarded setpoint is never flown to, and the drone is ready only with what it flies by.

### How they interact

    operator --exec, tst, red button--> task handler <--health-- vehicle, captain
                                          ^      ^--heartbeat-- action servers
                          flags and queue |
                                          v
                     behaviour tree --leaf--> action client <--messages--> action server
                                                                              |
                       mission tree (prox_ops_bt, alars_bt, lolo_tuper) <--loop_inner
                              |--leaf--> action client <--messages--> action server
                              |--> backend, vehicle object
    geofence node --status--> captain, target actions

Everything in `wasp_bt` runs on one thread (`rclpy.spin` of one node): a callback,
a service, a timer or a tick is atomic with respect to the others. The action
servers are other processes, with threads of their own; the mission trees are ticked on the
thread of their goal, while the callbacks of their clients and servers run on others.

## Modules

| module | what it is | code |
|---|---|---|
| `TaskHandler` | the task handler; the tree's calls at any time | `waraps_task_handler.py` |
| `GoalServer` | what an action server promises: the abstract specification | the statuses a client is told |
| `ActionServer` | the Python server's threads; refines `GoalServer` | `smarc_action_base.py`, `gentler_action_server.py` |
| `CppActionServer` | the C++ server's threads and its shutdown; refines `GoalServer` where it may not preempt | `gentler_action_server.cpp`, `graceful_shutdown.cpp` |
| `ActionLink` | client, leaf and messages, the server as in `GoalServer` | `smarc_action_base.py`, `client.py`, `actions.py` |
| `WaspBT` | the node: `TaskHandler` and `ActionLink` with the tree that ticks between them | `ros_bt.py`, `actions.py`, `conditions.py` |
| `MissionServer` | a tree inside an action server: how far its goal has come, its clients and their servers | `gentler_action_server.py`, `bt_action_client_action.py` |
| `PostPreAct` | the fallback of post-condition, pre-condition and action that two of these trees are made of | `prox_ops_bt.py`, `alars_bt.py` |
| `ProxOpsBT`, `AlarsBT` | the trees of Evolo's proximity operations and of ALARS | `prox_ops_bt.py`, `alars_bt.py` |
| `TuperBT` | LoLo's mission: a sequence with memory, two phases that steer | `lolo_tuper_bt.py`, `tuper_behaviours.py`, `lolo.py` |
| `StopDetector` | when the leaders of LoLo have stopped | `follower_state.py` |
| `AlarsActions` | the four actions of ALARS on `ActionServer` | `alars_move_to_action_server.py`, `alars_recover_...`, `alars_search_...`, `alars_follow_auv_...` |
| `LoiterPatrol` | Evolo's patrol on `CppActionServer`, and its goals of `move_to` | `evolo_loiter_patrol.cpp` |
| `TargetActions` | interception and inspection on `CppActionServer` | `evolo_target_intercept.cpp`, `evolo_target_inspect.cpp` |
| `GeofenceNode` | fences, their writers and the check | `geofence_node.py` |
| `PointInPolygon` | the polygon test as an operator, and geometry to compare it with | `geofence_node.py` |
| `DjiCaptain` | setpoints, authority and health of the drone | `dji_captain.py` |
| `TaskHandlerProofs`, `PyActionProofs`, `CppActionProofs`, `ActionLinkProofs`, `WaspBTProofs`, `MissionTreeProofs`, `TuperProofs`, `FlightProofs` | theorems: `PyActionProofs` is about `ActionServer` and `AlarsActions`, `CppActionProofs` about `CppActionServer`, `LoiterPatrol` and `TargetActions`, `MissionTreeProofs` about `ProxOpsBT` and `AlarsBT`, `TuperProofs` about `TuperBT`, `StopDetector` and undisturbed leaves, `FlightProofs` about `GeofenceNode`, `PointInPolygon` and `DjiCaptain` | |
| `MCTaskHandler`, `MCActionLink`, `MCWaspBT`, `MCActionServer`, `MCMissionTrees`, `MCTuper`, `MCProxOpsActions`, `MCFlight` | compositions and constants for TLC | |

The last five compose parts that do not interact: a behaviour is one of either (`node`, `part`),
which lets one run answer for several nodes built from the same modules.

**TaskHandler.** The variables carry the code's names. Times are kept as ages
(`mission_age` is `current_time() - mission_start_time`), so that `Elapse` moves them
together; they stop at `AgeCap`, beyond every timeout. One action per accepted form of a
command. A command that is refused without a change of state is no action;
`RefuseTst` is one, since a mission may be refused after its command and timeout
have replaced the old ones. `Heartbeat` is both heartbeats, as in the timer.
Uuids, names and params are model values; the only part of the params that matters
is a task's timeout. A timeout that is not a number is `Garbage`.

**ActionServer.** A goal request is handled in steps: `CheckValid` (the test under the
lock), `CheckFailure`, the user's answer, `RegisterGoal` (the second section under the lock) and
`Execute`, each of them a place where another thread may come in. The
execution callback is a small program counter per request. `MaxRequests` bounds
how many requests are handled at the same time: 1 is a server whose
clients do not ask at the same time, and there it is correct; 2 shows the race.

**CppActionServer.** Two program counters: the main thread runs the handlers and the shutdown,
the thread of the loop runs `execute`. A step is one access to `goal_mutex_`, to
`stop_requested_` or to a goal handle; `handle_accepted` waits in `joining` for the last
thread. The callbacks of the user are constrained by the modules that extend it: `UserStep`
alone is any user, `PatrolLoop` and `TargetLoop` are the real ones.

**ActionLink.** A link is a record: the client's state and handle, and its goals in
slots, each with the stage it has on the server and the set of messages under way. Any message
may arrive before any other. The leaf's tick is `EnterLeaf`/`EnterClient` (`initialise`), `UpdateOutcome` (the
branch `update` takes) and `AfterUpdate` (what it does). A slot is used again once nothing can name its
goal, so histories are unbounded.

**WaspBT.** One tick is one step, computed as a function of records from subtree to
subtree: `Updated` (the rebuild), `EmergencyTree`, `HealthTree`, `TaskHandlerTree`. The
composites have no memory, so what they carry between ticks is the status of the
root and of the `A_ActionClient` leaves; `Stop` is py_trees' `stop(INVALID)`. Between
ticks run the actions of the two parts. `A_Chilling` after an error with a command that is not a
mission raises, and `alive` records that the node is gone.

**MissionServer, PostPreAct and the three trees.** `mission` follows the goal: accepted, running,
reset (on_cancel_received has begun), canceling, over. A tick of `PostPreAct` visits one subtree per step and one of
`TuperBT` one phase per step, with cancellations, requests and answers in between; a steering phase
of TUPER takes several (`LookAround`, `Command`, `Publish`, `ReadGoal`, `Exit`), since the cancellation takes
the vehicle's goal away between any two of them. Messages reach the client as they are
given: what late ones do is `ActionLink`'s subject. What a condition or a phase finds in the last
message, or on the clock, is a choice made where it is read.

**GeofenceNode.** A check is a program counter over the reads of `_point_is_safe`; each callback of an
action writes in steps of its own. `steady` records that nothing was written during this check.

**LoiterPatrol, TargetActions.** One section under the delegate's mutex is a step; the messages
of the target actions have no mutex, and each access is a step. A test that finds
a message and a dereference after it are two steps.

**AlarsActions.** The actions of `ActionServer` with what the callbacks do to the attributes. A target is
named by the goal it came with (`aim`, `flat`, `setpoint`, `_points`), and where the drone is, what it sees and what
can be transformed are choices. The writes of one callback are one step, as are the reads of one loop
that no other read depends on; a loop is split where another thread may take away what it has tested
(`step`). A cancel request is three steps: rclpy offers it while the goal can be cancelled, the callback resets the
attributes, and rclpy looks at the goal again. `flown`, `reached` and `touched` are history.

**StopDetector.** Time and place are whole numbers. The history maps times of reception to places; mean and
slope of the regression are multiplied out, so the arithmetic is exact.

## Runs

| run | instance | shows |
|---|---|---|
| `task_handler` | 2 uuids, 1 server, missions of one task, queue of 2 | `ExecutingLive`, `QueueInEmergencyOnlyByTimeout`, `TimerRunsWhileQueued`, `OverrunRaisesEmergency`, `SilentServerIsDropped` |
| `action_server` | one request at a time: the server by itself with 3 goals; with the callbacks of ALARS, 2 goals, and 2 points in a recovery | `OneUncanceledGoal`, `OneTaskPerGoal`, `KeepsPromise` (refinement), `GoalsGetOn`; `FliesToNoOthersTarget`, `SuccessIsArrival` |
| `server_race` | 2 goals, two requests at a time | *violated*: `OneUncanceledGoal` |
| `action_link` | 1 server, 2 goals under way, the leaf preempted, rebuilt and timed | `WaitsForSomething`, `ActivationEnds`; until something has disturbed the leaf, `UndisturbedNoOrphan`, `SuccessMeansIdle` |
| `wasp_bt` | a task server and the emergency server, 1 task alone or as a mission, every health code | `OneLeafRuns`, `TaskGoalsAreDue`, `StopTakesABreath`, `EmergencyStopsTasks`, `TasksLeaveByTheirLeaf`, `EmergencyIsPursued` |
| `wasp_bt_live` | one server, no emergency server, time passes | `SilenceRaisesEmergency`, `HeadTaskEnds` |
| `wasp_bt_button` | 2 uuids, one server | *violated*: `GoalServesHead` |
| `prox_ops_actions` | the C++ server with 3 goals and any user; the patrol, and the target actions, with 2 | `ShutdownEndsGoals`, `AbortsAreDue`, `CppKeepsPromise` (refinement), `LoopGivesWay`, `RunningMoveIsHeld`, `TurnsOnArrival`, `NullOnlyAfterReset` |
| `fence_gate` | the same | *violated*: `FenceGateHolds` |
| `mission_trees` | `prox_ops_bt` with its 3 servers, `alars_bt` with its 5 | `FreshPatrolIsTimed`, `TimeoutStopsBackend`, `RecoveryIsMeasured` |
| `lolo_tuper` | the mission; the stop detector over 8 instants and 3 places | `TuperEnds`, `FinishedMissionLetsGo`, `OneDriver`; `StopIsGenuine` |
| `flight` | the geofence with one polygon and 2 callbacks at a time; the captain; triangles and quadrilaterals over 3 by 3 degrees | `CheckIsExact`; `DiscardedIsGone`; `TestAgreesWithGeometry` |

### Bounds

* *Queue of 2, 2 uuids, 1 name* (`task_handler`): head and rest, two tasks with one
  uuid or with two, one that waits while one runs. Nothing in the code looks further than the
  head, or treats names differently, except by whether they are available. `ExecutingLive`
  and the invariant of the emergency are proved for queues of any length.
* *AgeCap one above the largest timeout*: an age is only compared with timeouts, and
  from there on every comparison comes out the same.
* *Three goals in a server*: one that ends, one that runs, one that asks. The safety
  properties and the refinements are proved for any number. In `action_server` and `prox_ops_actions` the
  third goal is asked for only of the bare server (`SpareGoals`); the actions of ALARS, the patrol and the target
  actions have one goal that runs and one that replaces it or is refused. The steps of
  `Moves` are two: the move_to goal of an earlier waypoint or patrol, and the current one.
* *Two slots in a link*: one stale goal and the current one. A leaf that would send a third waits
  for one of them to be over, which it will be. `WaitsForSomething` is proved for any number of slots.
  `disturbed` in `MCActionLink` is history: it tells the behaviours apart in which the tree has stopped or dropped the
  leaf, or given up its goal for time, since those break `NoOrphan` and `SuccessMeansIdle` (see the deviations).
* *One slot in `WaspBT`*: a tick that needs another slot is not taken (`fits`), so
  here a client sends a new goal only after the server is done with the old one and
  its messages have arrived. `Delivered` has the servers speak only when
  what they said has arrived. What stale and crossing messages do is `ActionLink`'s
  subject; `WaspBT` is about the order of a tick. `Forgotten` frees a handle of a goal
  that is gone; it would otherwise take up the slot.
* *`Clock` FALSE and timeouts 0 in `wasp_bt`*: no report is late there, and the heartbeats and
  `$cancel_abort`, which could only stop a timer that does not run, are left out with the
  clock; time passes in `wasp_bt_live`, and the mission timeout is a matter of `task_handler`. The
  mission timer matters to `TaskGoalsAreDue`: see the deviations.
* *Health `ready`, `waiting` and `error` in `wasp_bt`*: all there are, so a tick may itself
  raise the emergency. `wasp_bt_live` has only `ready`, and its emergencies come from silence,
  `$abort` and the red button.
* *One slot and `MaxLingering` 0 in `mission_trees`*: a tree starts its next action once the goals nobody
  serves any more are over. *`NumRetries` and `VultureRanges` 1*: a first try and a last one.
* *Two slots and `MaxLingering` 1 in `lolo_tuper`*: a goal that an earlier mission has left on a leg, and
  the current one; `HasRoom` holds a tick back only for a third goal of the same client.
* *8 instants, a period of 3, a maximal age of 2, a margin of 3* (`StopDetector`): the window is longer
  than the period by more than the maximal age, as the code's 60 seconds are for short periods; a gap
  at the edge of the period, inside it and at its end all occur. A stop is detected after 7 steps.
* *`MaxCalls` 2* (`GeofenceNode`): two callbacks of actions that write during one check, of either server.
  The check is proved exact for any number.
* *Degrees 0 to 2* (`PointInPolygon`): corners, edges, interior and exterior, edges along both axes, and points on the
  latitude of a corner.

`CHECK_DEADLOCK` is off where a node may die (`alive` FALSE, `checking` raised, `crashed`), every goal may be
over, or a behaviour is one question.

### Fairness

* `HandlerSpec`: the heartbeat timer fires, and time passes. The executor serves a
  timer that is due, and no callback blocks.
* `ServerSpec`, and `MCActionServer` with the callbacks of ALARS: a request in progress and a task in progress go on. `MultiThreadedExecutor`
  gives them threads, and the user's callbacks return. Nothing makes a user's loop end: `GoalsGetOn`
  needs only that an iteration does.
* `MCActionLink`: each message is delivered and answered, leaves are ticked, goals end.
  Feedback is not fair: nobody has to send any.
* `TreeSpec`: ticks, deliveries, answers and ends of goals. Time and the operator are
  not fair. So `HeadTaskEnds` says that a task is done with, or the emergency, the
  vehicle's health, a pause, or a missing server keeps the tree from it.
* `MCProxOpsActions`: both threads run, and the callbacks of the loop return. No goal has to
  end by itself: `LoopGivesWay` is about a loop that is asked to.
* `MCTuper`: the loop goes on, the clock does, and on_cancel_received returns. The servers of
  the legs, the UKF and the leaders owe nothing: `TuperEnds` says that the timer alone ends a mission.

## Proofs

TLAPS checks every step; nothing is assumed but the `ASSUME`s on constants, which TLC evaluates in every run. The
theorems are about the specifications without their fairness, where a module has both (`...Safety`), so about the
fair ones as well.

**Task handler** (`TaskHandlerProofs`, from `HandlerAssumption`): `HandlerTypeCorrect`, `QueueIsLive`,
`OnlyTimeoutKeepsQueue`, `TimerOutlivesQueue`, via `HandlerInvHolds`. `ExecutingLive` is not inductive in that form: removing
and marking tasks are operations on sequences, so `HandlerInv` states it as `tasks_executing \in Seq(LiveTask)`, and one
lemma per queue operator says that it keeps such a sequence. The emergency's invariant needs the type of the
timer: an age that is capped must stay beyond the timeout.

**Python action server and ALARS** (`PyActionProofs`, from `ServerAssumption`, `PointsAssumption`, and `MaxRequests = 1` in each
theorem but `AlarsIsActionServer`):

* `ServerTypeCorrect`, `OneGoal`, `OneTask`, `ServerKeepsPromise`. `OneUncanceledGoal` is kept by what a request knows
  between its steps: once `is_valid_goal` was found FALSE, no other goal is uncancelled (`RequestOK`), because only an accepted
  request makes one so, and there is one request; and the goal that is uncancelled is the one in the handle that
  `is_valid_goal` looks at, or is about to be (`GoalOK`). The refinement maps `ACCEPTED` to `EXECUTING`. With two
  requests at a time the theorems are false: run `server_race`.
* `AlarsIsActionServer`: every step of the four actions is one that `ActionServer` allows a user, so its theorems hold of them.
  `AlarsFliesToItsTarget`, `AlarsSuccessIsArrival`: `AlarsInv` says that while a goal is uncancelled and nothing has
  overlapped it, no other goal's task is in execution and everything its loop may read is its own (`Own`).
  `ArrivalInv` adds that the index of a recovery is the number of points reached, and that a step either changes none of
  this (`Dull`), arrives, or prepares.

**C++ action server, patrol, target actions** (`CppActionProofs`, from `CppAssumption`, `PatrolAssumption`, `TargetAssumption`):

* `CppTypes`, `CppShutdownEndsGoals`, `CppTerminatesOnlyOnThrow`, `CppAbortsAreDue`, `CppServerKeepsPromise`, for servers
  that preempt and that do not, with callbacks that throw and that do not. `CppInv` says whose hands a goal under way is
  in (`InHands`): of the handler that accepted it, of the thread, or of the shutdown; and what either thread knows of the
  other at each of its places (`MainOK`, `ThreadOK`). Every property follows from it.
* `PatrolIsCppServer`, `TargetIsCppServer`: a step of the patrol or of a target action is one of `CppActionServer` with some user,
  or leaves the server alone, so all of the above holds of the real actions. This needs their invariants: a callback that is
  under way (`callback`, `receiving`) has the main thread where the server expects it.
* `PatrolHoldsItsMove`: the patrol's generation has one move_to goal at a time (`OneCurrent`): IDLE,
  SUCCEEDED, or the loop about to switch or send, each mean that there is none. And while an acceptance is being
  stored, whose generation may have ended between the comparison and the storing, no goal of the present
  generation drives the vehicle (`ResponseOK`).
* `PatrolTurnsOnArrival`: while a patrol is on its own in the loop, what it looks at (`OnCourse`) is a move of its own
  generation to its present waypoint. `CourseInv` says so at each place of the loop (`LoopPc`); outside of it, or once another goal
  has come, been refused or taken the handle, it promises nothing, as the property does.
* `TargetReadsWhatIsThere`: at each stage of the loop the messages still to be read (`Needed`) are there, unless a request or a
  cancellation has come in; and one that has, leaves a trace that lasts until the loop is left (`ServerKeepsTargetInv`).
* `FenceHoldsUnlessRefused` delimits the finding `fence_gate`: until a goal is refused, no control is forwarded past
  the geofence of a goal that asks for it. `FenceAskedInv`: from the acceptance on, the check is what the goal accepted last asks for,
  and the loop has not gone by the geofence of a goal that asks; while a request or a cancellation is being handled it
  promises nothing, and what they leave behind restores it.

**Client and leaf** (`ActionLinkProofs`, from `LinkAssumption`): `LinkTypeCorrect`, `ClientsWaitForSomething`, via
`LinkInvHolds`. A message that sets the state to a running one must belong to a goal whose result is to come
(`LateMessages`); then a client that waits has something that will change its state. The invariant is one of
each link alone, so all the lemmas are about one record, and every module with links reuses them.
`TuperProofs` adds what holds of a leaf that nothing has disturbed, also with messages in any order:
`UndisturbedLeavesKeepTheirGoal`, `UndisturbedSuccessIsIdle`. Its client has nothing under way, or waits
for one goal (`InHand`, `WaitsFor`): of the messages only an acceptance and feedback can be on
their way, and the handle is there or its acceptance is. `NoOrphan` is a consequence; by itself it is not inductive.

**The tree of wasp_bt** (`WaspBTProofs`, from `TreeAssumption` and those of the handler and of the links). `TreeInv` is the
handler's and the links' invariant, the types, and `OneLeafRuns`. Steps between ticks keep it by the lemmas of the two parts. A tick is
a function of a record: one lemma per subtree says what it may do to the record (`TickLeafFacts`, `StopFacts`, `ChillFacts`,
`HealthTreeFacts`, `EmergencyTreeFacts`, `TasksTreeFacts`, `UpdatedFacts`), and they are put together to two halves, `Upper` down to
the task handler's subtree and `Lower` from there. `TickIs` says that a tick is such a pair. From it:

* `OneLeafAtATime`, `TreeTypeCorrect`; `TreeKeepsQueue`, `TreeTimerOutlivesQueue` and `TreeClientsWaitForSomething`: what the handler and the links promise,
  under the real tree instead of any.
* `StopIsABreath`, `EmergencyGetsOn`, without a condition.
* `TimelessGoalsAreDue`, `TimelessEmergencyStops`, `TimelessTasksLeave` under `~Clock`, as in the run `wasp_bt`. With the clock these three
  properties are false of the code, because a mission that overruns raises the emergency with its queue
  standing (see the deviations). What does hold then is proved too: `GoalsAreDueUnlessOverrun`,
  `EmergencyStopsUnlessOverrun`, `TasksLeaveUnlessOverrun` have that as their only exception, for any timeouts.

**The trees inside an action server** (`MissionTreeProofs`, from `ProxClients`, `AlarsClients`, `AlarsAssumption`,
`LingeringAssumption` and those of the links). `ComesLeaves`
and `Visits` say once what a visit does (`Visited`): it sets its own leaf, and one that does not fail stops those below. Then:

* `MissionTypeCorrect`, `MissionClientsWaitForSomething` (`MissionInv`, with `ClientsInv`: only cancellations are ever under way).
* `OneActionAtATime`: while a tick is at a subtree, nothing above it runs (`OneActionInv`). TLC has checked this invariant too, but
  no run keeps it; the theorem is the record.
* `RetriesEnd`: counters stay within `NumRetries` and `VultureRanges`. Inductive only with what a running leaf says of its
  counter (`RetriesInv`), also after a cancellation has reset the counters under it; uses `OneActionInv`.
* `RecoveriesAreMeasured` (`MeasuredInv`: `recovery_success` is set only with the load on the cell, and reset with the history).
* `TimeoutsStopTheBackend` (`StopIsSent`: the flag that a STOP was sent speaks of this mission).
* `FreshPatrolsAreTimed` (`PatrolTimed`: a cancellation resets the timer and lets the leaf run, hence the exception until it is over).

**TUPER and the stop detector** (`TuperProofs`, from `TuperClients`, `LingeringAssumption`, `StopAssumption` and those of the links):

* `FinishedTuperLetsGo`, of missions that succeed or abort: a leg's handle is that of a goal under way, and nothing but cancellations is on its way
  (`LegOK`); while a mission runs that found no goal of an earlier one in its way, each leg is `InHand`, so the reset at the
  end has the handle of whatever its server executes (`StoppedLetsGo`).
* `OneDriverAtATime`: `DriverInv` says that phases go one way, so the leg behind has succeeded, which takes a goal
  that is over (`LegLeavesFree`), and the leg ahead has sent nothing; and that the vehicle has a goal only in a
  steering phase, whose `terminate` resets it with whatever status but RUNNING the phase is left (`FinishKeepsDriver`).
  As long as the mission runs: after a cancellation, and where an earlier mission's goals linger, it is false.
* `StopsAreHeard`: when the detector reports a stop, no part of the period was without a setpoint for longer than the
  maximal age, for any period and age. The code looks at the gaps between the setpoints of its window only; what
  covers the rest of the period is that the setpoints looked at reach back to its beginning and the last one is fresh (`PeriodIsCovered`,
  `LatestIsLooked`). `LeastNatural` and `GreatestNatural` give the neighbours of an instant.
* `StopsAreSlow`: as long as a stop is reported, the samples of the window are within twice the tolerance of one
  another, and the regression is no faster than the pace. `StopsAreGenuine`: a vehicle that moves on
  a place with every sample is never reported as stopped, if it takes longer for a place at the pace that
  counts as slow than the maximal age of a sample (`StopPace > EstimateMaxAge`). The defaults satisfy it (`lolo_tuper_params.yaml`:
  0.1 m/s in line 14, so 10 s for a metre, against the 5 s of line 94), and it is needed: with `StopPace = EstimateMaxAge = 2` and a `StopPeriod`
  of 4, TLC finds the places 0, 1, 2 of the times 0, 2, 4 taken for a stop. The mean and the slope are sums over the
  window. No library theorem for induction can be used, so what a sum comes to is shown by a smallest counterexample: of the sizes of
  sets for which a fact fails, the least has none (`SmallestIsGood`). From `SumUnfolds` follow the sums of
  differences, multiples and bounded terms, and `Regression`: when each sample is further along than what the pace allows to
  the one before it (`ExcessWithout`, `LeadWithout`), the fitted line rises faster than the pace.

**Flight** (`FlightProofs`, from `GeofenceAssumption`): `ChecksAreExact`: `FenceInv` says what an
undisturbed check has found out when it comes to each of its reads; a write that changes what it has read makes it
disturbed. `DiscardsSetpoints`, and `ReadyMeansEquipped`: READY means that home, zone, attitude, rotors and
battery were heard of, although the code asks for four of them; the zone comes with the transform.
`TestsAreGeometric`: the ray test of the geofence answers for every triangle and convex quadrilateral of the
model's questions what geometry says. Weigh each turn of the boundary as seen from the point with the latitudes of the edge's
ends: the weighted turns of the edges that cross the ray's line cannot have one sign, so the ray to one side meets
an odd number of edges just when the point is inside (`Weights`, `TurnsAround`, `CrossedBothWays`, `InsideTriangle`, `InsideQuadrilateral`).
`PolygonsAreTriangles` goes on to any number of corners and any shape, where TLC has four: a point is inside just when it is inside
an odd number of the triangles of the first corner with the other edges. One more corner is one more edge and one more
triangle, and the side that the triangle shares with the polygon is crossed in both (`OneMoreCorner`); by the least
corner at which this would fail (`ParityAtEachCorner`).

Every safety property of a passing run is stated by a theorem. Model-checked only:

* The liveness properties `OverrunRaisesEmergency`, `SilentServerIsDropped`, `GoalsGetOn`, `ActivationEnds`, `LoopGivesWay`, `TuperEnds`,
  `SilenceRaisesEmergency`, `HeadTaskEnds`: liveness under fairness and `ENABLED` are beyond this prover.

No module uses a `RECURSIVE` operator.

## Findings

Three runs show the code doing other than its documentation or a comment says; `PROJECT.json`
quotes the words.

1. `server_race`: two goal requests handled at the same time are both accepted. `OneGoal` shows that it takes two.
2. `wasp_bt_button`: the red button does not set the aborted flag. Reset the emergency and start a task before
   the next tick, and the leaf still runs for the aborted task's goal; when it succeeds, the
   new task leaves the queue though it was never sent.
3. `fence_gate`: a goal that is refused by the interception puts its geofence check back to the
   node's default, and the running goal that had asked for the check forwards control without it.
   `FenceHoldsUnlessRefused` shows that nothing but a refused goal has this effect.

## Known deviations

Behaviour met while modelling which no run's property covers. The models have it, unless it says otherwise.

Task handler, tree and server:

* The mission timer fires with nothing queued, when the last task ends just before
  it and no heartbeat stops it in between.
* `reset_emergency` leaves the mission timer that raised the emergency: the next
  heartbeat raises it again. `$cancel_abort` stops the timer.
* A `start-tst` whose timeout is not a number is refused, but the timeout stays, and the next
  heartbeat of a running mission raises and ends the node.
* `A_Chilling` after an error reads `mission_command`, which tasks started alone do
  not set: with another task queued, the node ends. The same error can be
  left by an emergency action that failed; it outlives the reset, and then drops the next
  task or ends the node.
* After a task has timed out, the late result of its goal is taken for that of the next one.
* Two loops of one action server overlap when a goal is cancelled and the next
  arrives before the first loop notices.
* `RegisterGoal` tests the new handle, not the old: a goal whose cancellation was already accepted is
  aborted there, and `execute()` on it then raises.
* A callback that raises in a goal that nobody cancelled does not latch
  `_user_failure`: `canceled()` raises first.
* A goal whose leaf is preempted before its acceptance arrives is not cancelled; it
  runs to its end. (`NoOrphan` is claimed only as long as nothing has disturbed the leaf.)
* A rebuild drops a running leaf without stopping it. The new leaf cancels what the
  client still runs; but when the rebuild comes in the tick of an emergency, there is no new
  leaf running to be stopped, and the goal is not cancelled. `EmergencyStopsTasks` excludes
  that tick.
* An emergency action that has succeeded makes the emergency subtree succeed, so the
  tick goes on to the tasks. With a queue that a mission timeout has left standing, the
  task's server is sent the goal `{"level": 1}`. `TaskGoalsAreDue` holds where no mission expires.

Actions of ALARS:

* A cancellation of `move_to` takes the goal away, and the loop transforms it before testing it (line 150): it raises, where
  the code meant to say "No goal set, failing...". When the cancellation was accepted by then, `_user_failure` is
  latched, and the server refuses every goal from then on.
* A cancellation of the recovery empties its points, and the loop then reports "Recovery complete!": a cancelled
  goal may succeed. `SuccessIsArrival` excludes goals that a cancellation has overlapped.
* A search whose centre cannot be transformed is accepted, since the test at line 129 is of a default pose that is never
  None: it flies around the origin of the map, at altitude 0. So may the loop whose goal was cancelled.
* "this is a bug!" of `alars_follow_auv` (line 154) is reached by a cancellation, and the altitude it
  resets raises in the setpoint.
* A cancel callback that comes late resets the attributes of the next goal. A loop that reads an attribute of
  one goal and another of the next is seen only where the reads are split (the height of a search point is not).

Proximity operations:

* A refused patrol goal cancels and resets the running patrol, whose loop goes on from its first waypoint.
  `TurnsOnArrival` excludes it (`OnItsOwn`).
* A cancellation of the patrol before `move_to` has accepted leaves the move_to goal driving until the
  next patrol; so does a loop that fails because the server has gone.
* The generation of an acceptance is tested in one section and its handle stored in another; a new
  patrol in between counts as running on an old goal.
* The messages that the loop of a target action has tested may be dropped before it reads
  them: the process ends on a null pointer. `NullOnlyAfterReset` says that it takes a goal or a cancellation.
* `RESET` at the start of an action does not outlast it: a refused goal clears the time
  after which messages count (not modelled: whether a message is fresh is a choice).
* The README of the actions says of the patrol that it "remains RUNNING until the BT preempts or cancels it"
  (line 274); it fails when `move_to` does.

Mission trees:

* `_reset_states` of `prox_ops_bt` and `alars_bt` terminates the clients but leaves the statuses of the tree: the next
  mission resumes a leaf that was running, with the old goal and no timer (`left_over`; `FreshPatrolIsTimed` is
  claimed without one).
* A cancellation resets the timers while a tick compares them: a `TypeError` in the loop.
* A tick that follows a cancellation's reset sends the goal again, in all three trees.
* A goal that was sent and not accepted when the tree is reset has no handle; it runs until the next mission.
* The backend is told nothing when a mission is cancelled, or fails without a timeout.
* TUPER: a cancelled mission may leave the vehicle a goal, although the package's README (line 68) says that it is reset "on
  success, abort, or cancel". The cancel callback does reset it, on another thread; a steering phase in the middle of
  its update sets it once more (`Command`), and the loop then ends without a reset (`LoopCanceled`). No command goes out
  afterwards, since only a phase publishes the goal, and the next request resets it. The reset may also come between the
  test and the read of the goal (`ReadGoal`), and the loop raises. `FinishedMissionLetsGo` is of missions that succeed or
  abort; it and `OneDriver` claim nothing of legs where an earlier mission had left a goal, nor after a cancellation
  has begun.
* TUPER: a leg whose result arrives after the reset leaves its client `DONE`, and the next go-to-start succeeds
  without sending. A `min_rpm` above the vehicle's limit has every goal of a steering phase rejected, and the phase
  goes on.
* TUPER: `setpoint_velocity` iterates the deque that the subscription appends to on another thread, which may raise
  (not modelled).

Geofence and captain:

* A fence is appended before its altitudes are parsed; a goal refused then has changed the fence.
* `stop` without `reset-islands` resets the fences and then raises: that server refuses every goal from then on. So does
  a callback that misses the transform.
* Islands alone count as a valid setup, in which every position is outside.
* Limits removed during a check raise in the timer, which ends the node; the captain
  takes the last status for what it was, however old.
* The branch for a failing battery is never reached (`dji_captain.py:887` comes before `:891`). Nothing is published while the
  release service is missing.
* A report of the control mode that is under way when the captain gives control up says that it has it, and it is believed,
  against its comment at line 675.

## Not modelled

* Requests whose fields are missing or of another type, except where the code catches it: a task without
  `params` is queued, and then raises when they are asked for (`waraps_task_handler.py:831`) or fails without leaving the
  head (`actions.py:414`); a patrol whose `timeout_s` is missing or not positive runs without a timer (`prox_ops_bt.py:204`,
  `:394`), where the model has one of some length; `num-retries` that is no number, or a search position that is no
  dictionary, raises in the tick (`alars_bt.py:385`, `:295`). What the base of the action servers catches is modelled: a goal callback
  that raises latches `_user_failure`, in `ActionServer` for any callback, and in `AlarsActions` for a request
  that is not JSON and for values of a recovery that are not numbers. `MissionServer` leaves it out.
* The service of the geofence node that checks a position (`geofence_node.py:325`). It changes nothing, and reads what the
  timer's check reads, in the same race.
* The text of messages and responses, logging, the log of past tasks, BT tip and
  status topics; middleware below the level of a message that is delayed and reordered (none is lost: ROS 2
  services are reliable; a server process that dies is seen only as one whose heartbeats stop).
* The trigger service server: an action server that makes one call. Its own hazard, that after a cancellation the
  old loop takes the answer to the new goal's call, is the overlap of loops in `ActionServer`.
* Wait and log actions, vehicle sensors and the WARA-PS publisher: a timer, a line, last values.
* ALARS's damped `move_to`, and the action servers of SAM and the other ones of LoLo and Evolo: numeric controllers inside the
  servers that are modelled. How long and how damped the swing of the load is. The arithmetic of the captain's and TUPER's steering, and of the path check against polygons.
* Control, navigation, estimation and path planning: most of the repository's lines, over floating-point numbers, where
  TLC has nothing to enumerate. This is why the modelled lines are a small part of all.
* The SAM health checker (thresholds over floating-point rates), bridges and drivers (I/O), messages, descriptions,
  launch files, examples.

## Plan

Done: task handler, both action servers, client and leaf, the tree of `wasp_bt`, the mission trees of Evolo, ALARS and
LoLo, the actions of Evolo and ALARS, geofence node, captain's setpoints and health; a theorem for every safety
property of the passing runs. Left, in this order:

1. The refinement of the mission trees' server (`MissionServer`) by `GoalServer`: that a mission reported over stays so, and is
   worked on by one tick at a time.
2. The trigger service server.
3. The SAM health checker over a small set of rates; the reconnection of the MQTT bridges.
