---------------------------- MODULE TaskHandler ----------------------------
(***************************************************************************)
(* The WARA-PS task handler of the wasp_bt node (WaraPSTaskHandler,        *)
(* behaviours/smarc/wasp_bt/wasp_bt/waraps/waraps_task_handler.py): the    *)
(* queue of tasks, the emergency and abort flags, the mission timer, the   *)
(* health of the vehicle and the action servers it has heard from.         *)
(*                                                                         *)
(* The node spins a single-threaded executor, so every subscription,       *)
(* service and timer callback is one atomic action.  The behaviour tree    *)
(* runs in one of those timers; the calls it makes on the handler are the  *)
(* BT... actions, at any time here, in the tree's order in WaspBT.         *)
(*                                                                         *)
(* Clock readings are kept as ages: mission_age is current_time() -        *)
(* mission_start_time, and so on.  Elapse moves all of them; an age stops  *)
(* at AgeCap, beyond every timeout, where it compares as any larger one.   *)
(***************************************************************************)
EXTENDS Naturals, Sequences

CONSTANTS
  Uuids,           (* task-uuids the operator uses                         *)
  Names,           (* WARA-PS task names of the action servers             *)
  Timeouts,        (* mission timeouts an operator may ask for             *)
  TaskTimeouts,    (* "timeout" entries of a task's params, None for none  *)
  Missions,        (* the children an operator's tst may list, as tasks    *)
  Garbage,         (* a mission timeout that float() refuses               *)
  None,            (* Python's None                                        *)
  LivelinessTimeout, (* task_liveliness_timeout                            *)
  AgeCap,          (* bound: ages are not told apart from here on          *)
  MaxQueue         (* bound: the operator queues no more tasks than this   *)

ASSUME HandlerAssumption ==
  /\ Timeouts \subseteq Nat
  /\ LivelinessTimeout \in Nat
  /\ AgeCap \in Nat
  /\ \A t \in Timeouts \cup {LivelinessTimeout} : t < AgeCap
  /\ MaxQueue \in Nat
  /\ Missions \subseteq Seq([uuid : Uuids, name : Names, status : {"started"},
                              timeout : TaskTimeouts])
  /\ None \notin Nat
  /\ Garbage \notin Nat
  /\ Garbage # None
  /\ None \notin {"error", "tst", "tst_without_uuid"}

VARIABLES
  tasks_available, (* age of each server's last heartbeat; None: not listed *)
  tasks_executing, (* the queue; the tree works on its head                *)
  aborted_flag, emergency_flag,
  health_status, health_age,
  mission_age,     (* time since mission_start_time; None: no start time   *)
  mission_timeout, mission_status, mission_command,
  agent_uuid,      (* TRUE once the level 1 heartbeat has supplied it      *)
  alive            (* FALSE: an exception left a timer and ended the node  *)

missionVars == <<mission_age, mission_timeout, mission_command>>
healthVars  == <<health_status, health_age>>
handlerVars == <<tasks_available, tasks_executing, aborted_flag, emergency_flag,
                 health_status, health_age, mission_age,
                 mission_timeout, mission_status, mission_command,
                 agent_uuid, alive>>

TaskStates    == {"started", "running", "paused", "resumed",
                  "enough", "aborted", "error", "finished"}
HealthStates  == {"ready", "waiting", "error"}
MissionStates == {"error", None}
\* A mission command is told apart only by whether its tst carries a tst-uuid.
Commands      == {"tst", "tst_without_uuid", None}
Ages          == 0..AgeCap
Task          == [uuid : Uuids, name : Names, status : TaskStates,
                  timeout : TaskTimeouts]

HandlerTypeOK ==
  /\ tasks_available \in [Names -> Ages \cup {None}]
  /\ tasks_executing \in Seq(Task)
  /\ aborted_flag \in BOOLEAN /\ emergency_flag \in BOOLEAN
  /\ health_status \in HealthStates
  /\ health_age \in Ages \cup {None}
  /\ mission_age \in Ages \cup {None}
  /\ mission_timeout \in Timeouts \cup {Garbage, None}
  /\ mission_status \in MissionStates
  /\ mission_command \in Commands
  /\ agent_uuid \in BOOLEAN /\ alive \in BOOLEAN

HandlerInit ==
  /\ tasks_available = [n \in Names |-> None]
  /\ tasks_executing = <<>>
  /\ aborted_flag = FALSE /\ emergency_flag = FALSE
  /\ health_status = "error" /\ health_age = None
  /\ mission_age = None /\ mission_timeout = None
  /\ mission_status = None /\ mission_command = None
  /\ agent_uuid = FALSE /\ alive = TRUE
-----------------------------------------------------------------------------
(* Operators on the queue. *)

NewTask(u, n, t) == [uuid |-> u, name |-> n, status |-> "started", timeout |-> t]

WithStatus(q, i, st) == [q EXCEPT ![i].status = st]

AllWithStatus(q, st) == [i \in DOMAIN q |-> [q[i] EXCEPT !.status = st]]

\* set_current_task_status: the head, if there is one.
SetCurrent(q, st) == IF q = <<>> THEN q ELSE WithStatus(q, 1, st)

\* clear_current_task: the head leaves the queue, and is not kept.
ClearCurrent(q) == IF q = <<>> THEN q ELSE Tail(q)

\* list.pop(i): the queue without its i-th task.
WithoutIndex(q, i) == SubSeq(q, 1, i - 1) \o SubSeq(q, i + 1, Len(q))

\* The first task of the queue with this uuid: the loops of the signal
\* handler break at the first match.
IsFirst(q, i, u) ==
  /\ i \in DOMAIN q
  /\ q[i].uuid = u
  /\ \A j \in DOMAIN q : j < i => q[j].uuid # u

Available(n) == tasks_available[n] # None

\* Whether the mission timer, were it looked at now, has run out.
MissionExpired ==
  /\ mission_age # None
  /\ mission_timeout \in Timeouts
  /\ mission_age > mission_timeout
-----------------------------------------------------------------------------
(* Commands on the exec topic.  A command that is not JSON, has no command *)
(* or task-uuid, is a ping or a query, or is refused, changes no state.    *)

\* Mutant: the emergency is not asked for.
MayStart_InEmergency == health_status = "ready"

MayStart == ~emergency_flag /\ health_status = "ready"

(* start-task; n is the name after a custom-task has been resolved. *)
StartTask(u, n, t) ==
  /\ alive
  /\ MayStart
  /\ Available(n)
  /\ \A i \in DOMAIN tasks_executing : tasks_executing[i].uuid # u
  /\ Len(tasks_executing) < MaxQueue
  /\ tasks_executing' = Append(tasks_executing, NewTask(u, n, t))
  /\ UNCHANGED <<tasks_available, aborted_flag, emergency_flag,
                 healthVars, missionVars, mission_status, agent_uuid, alive>>

\* Mutant: the task is marked and stays in the queue.
SignalTaskStop_KeepsTask(u, st) ==
  /\ alive
  /\ st \in {"aborted", "enough"}
  /\ \E i \in DOMAIN tasks_executing :
       /\ IsFirst(tasks_executing, i, u)
       /\ tasks_executing' = WithStatus(tasks_executing, i, st)
  /\ aborted_flag' = TRUE
  /\ UNCHANGED <<tasks_available, emergency_flag, healthVars, missionVars,
                 mission_status, agent_uuid, alive>>

(* signal-task with $abort or $enough: marks the task and removes it. *)
SignalTaskStop(u, st) ==
  /\ alive
  /\ st \in {"aborted", "enough"}
  /\ \E i \in DOMAIN tasks_executing :
       /\ IsFirst(tasks_executing, i, u)
       /\ tasks_executing' = WithoutIndex(tasks_executing, i)
  /\ aborted_flag' = TRUE
  /\ UNCHANGED <<tasks_available, emergency_flag, healthVars, missionVars,
                 mission_status, agent_uuid, alive>>

SignalTaskPause(u) ==
  /\ alive
  /\ \E i \in DOMAIN tasks_executing :
       /\ IsFirst(tasks_executing, i, u)
       /\ tasks_executing' = WithStatus(tasks_executing, i, "paused")
  /\ UNCHANGED <<tasks_available, aborted_flag, emergency_flag,
                 healthVars, missionVars, mission_status, agent_uuid, alive>>

(* signal-task with $continue: the first task with this uuid that is paused. *)
SignalTaskContinue(u) ==
  /\ alive
  /\ \E i \in DOMAIN tasks_executing :
       /\ tasks_executing[i].uuid = u
       /\ tasks_executing[i].status = "paused"
       /\ \A j \in DOMAIN tasks_executing :
            j < i => \/ tasks_executing[j].uuid # u
                     \/ tasks_executing[j].status # "paused"
       /\ tasks_executing' = WithStatus(tasks_executing, i, "resumed")
  /\ UNCHANGED <<tasks_available, aborted_flag, emergency_flag,
                 healthVars, missionVars, mission_status, agent_uuid, alive>>
-----------------------------------------------------------------------------
(* Commands on the TST topic. *)

(* signal-unit with $abort or $enough.  Only $abort raises the emergency. *)
SignalUnitStop(st) ==
  /\ alive
  /\ st \in {"aborted", "enough"}
  /\ tasks_executing' = <<>>
  /\ aborted_flag' = TRUE
  /\ emergency_flag' = (emergency_flag \/ st = "aborted")
  /\ UNCHANGED <<tasks_available, healthVars, missionVars, mission_status,
                 agent_uuid, alive>>

(* signal-unit with $pause or $continue: every task, whatever its status. *)
SignalUnitMark(st) ==
  /\ alive
  /\ st \in {"paused", "resumed"}
  /\ tasks_executing' = AllWithStatus(tasks_executing, st)
  /\ UNCHANGED <<tasks_available, aborted_flag, emergency_flag,
                 healthVars, missionVars, mission_status, agent_uuid, alive>>

(* signal-unit with $cancel_abort. *)
CancelAbort ==
  /\ alive
  /\ emergency_flag' = FALSE
  /\ mission_age' = None
  /\ mission_timeout' = None
  /\ UNCHANGED <<tasks_available, tasks_executing, aborted_flag,
                 healthVars, mission_command, mission_status, agent_uuid, alive>>

(* start-tst that is accepted: every task is available; they all join the  *)
(* queue, behind what it holds, and the mission timer starts again.        *)
StartTst(cmd, timeout, children) ==
  /\ alive
  /\ MayStart
  /\ \A i \in DOMAIN children : Available(children[i].name)
  /\ Len(tasks_executing) + Len(children) <= MaxQueue
  /\ mission_command' = cmd
  /\ mission_timeout' = timeout
  /\ mission_age' = 0
  /\ tasks_executing' = tasks_executing \o children
  /\ UNCHANGED <<tasks_available, aborted_flag, emergency_flag,
                 healthVars, mission_status, agent_uuid, alive>>

(* start-tst that is refused after its timeout was read: the timeout does  *)
(* not convert (it then stays as it came), or the children are malformed   *)
(* or name a task that is not available.  The command and the timeout have *)
(* replaced those of the running mission by then.                          *)
RefuseTst(cmd, timeout) ==
  /\ alive
  /\ MayStart
  /\ mission_command' = cmd
  /\ mission_timeout' = timeout
  /\ UNCHANGED <<tasks_available, tasks_executing, aborted_flag, emergency_flag,
                 healthVars, mission_age, mission_status,
                 agent_uuid, alive>>
-----------------------------------------------------------------------------
(* Other callbacks. *)

(* _vehicle_health_cb.  A code that is none of the three known ones counts *)
(* as a sign of life and leaves the status as it was.                      *)
VehicleHealth(code) ==
  /\ alive
  /\ health_age' = 0
  /\ health_status' = IF code \in HealthStates THEN code ELSE health_status
  /\ UNCHANGED <<tasks_available, tasks_executing, aborted_flag, emergency_flag,
                 missionVars, mission_status, agent_uuid, alive>>

(* _bigredbutton_cb, _emptybigredbutton_cb and abort(). *)
BigRedButton ==
  /\ alive
  /\ emergency_flag' = TRUE
  /\ tasks_executing' = <<>>
  /\ UNCHANGED <<tasks_available, aborted_flag, healthVars, missionVars,
                 mission_status, agent_uuid, alive>>

(* The reset_emergency service. *)
ResetEmergency ==
  /\ alive
  /\ emergency_flag' = FALSE
  /\ UNCHANGED <<tasks_available, tasks_executing, aborted_flag,
                 healthVars, missionVars, mission_status, agent_uuid, alive>>

(* _action_hb_callback; the name of an emergency action is not in Names. *)
ActionHeartbeat(n) ==
  /\ alive
  /\ tasks_available' = [tasks_available EXCEPT ![n] = 0]
  /\ UNCHANGED <<tasks_executing, aborted_flag, emergency_flag,
                 healthVars, missionVars, mission_status, agent_uuid, alive>>

(* _read_level_1_heartbeat_cb: the first one with a uuid, then no more. *)
LevelOneHeartbeat ==
  /\ alive
  /\ ~agent_uuid
  /\ agent_uuid' = TRUE
  /\ UNCHANGED <<tasks_available, tasks_executing, aborted_flag, emergency_flag,
                 healthVars, missionVars, mission_status, alive>>
-----------------------------------------------------------------------------
(* wara_ps_lvl_2_comms, the timer that sends both heartbeats. *)

\* Mutant: the comparison is the wrong way round.
DropStale_DropsFresh ==
  [n \in Names |->
     IF Available(n) /\ tasks_available[n] < LivelinessTimeout
       THEN None ELSE tasks_available[n]]

(* lvl_2_heartbeat: servers that were silent too long are dropped. *)
DropStale ==
  [n \in Names |->
     IF Available(n) /\ tasks_available[n] > LivelinessTimeout
       THEN None ELSE tasks_available[n]]

\* Mutant: the timer of a mission whose queue is empty is not looked at.
TimerWatched_OnlyWithTasks ==
  /\ mission_age # None /\ mission_timeout # None /\ ~emergency_flag
  /\ tasks_executing # <<>>

TimerWatched == mission_age # None /\ mission_timeout # None /\ ~emergency_flag

(* lvl_3_heartbeat: comparing with a timeout that never became a number    *)
(* raises a TypeError that nothing catches.                                *)
HeartbeatRaises ==
  /\ TimerWatched
  /\ mission_timeout = Garbage
  /\ alive' = FALSE
  /\ UNCHANGED <<emergency_flag, mission_age, mission_timeout>>

HeartbeatExpires ==
  /\ TimerWatched
  /\ MissionExpired
  /\ emergency_flag' = TRUE
  /\ UNCHANGED <<mission_age, mission_timeout, alive>>

\* Mutant: the timer is stopped as soon as it has not run out.
HeartbeatMissionDone_AnyQueue ==
  /\ TimerWatched
  /\ mission_timeout # Garbage
  /\ ~MissionExpired
  /\ mission_age' = None
  /\ mission_timeout' = None
  /\ UNCHANGED <<emergency_flag, alive>>

HeartbeatMissionDone ==
  /\ TimerWatched
  /\ mission_timeout # Garbage
  /\ ~MissionExpired
  /\ tasks_executing = <<>>
  /\ mission_age' = None
  /\ mission_timeout' = None
  /\ UNCHANGED <<emergency_flag, alive>>

HeartbeatQuiet ==
  /\ \/ ~TimerWatched
     \/ mission_timeout # Garbage /\ ~MissionExpired /\ tasks_executing # <<>>
  /\ UNCHANGED <<emergency_flag, mission_age, mission_timeout, alive>>

Heartbeat ==
  /\ alive
  /\ tasks_available' = DropStale
  /\ \/ HeartbeatRaises
     \/ HeartbeatExpires
     \/ HeartbeatMissionDone
     \/ HeartbeatQuiet
  /\ UNCHANGED <<tasks_executing, aborted_flag, healthVars,
                 mission_command, mission_status, agent_uuid>>
-----------------------------------------------------------------------------
(* Calls the behaviour tree makes on the handler. *)

(* A_ActionClient: initialise() marks the head started, update() running. *)
BTSetCurrent(st) ==
  /\ alive
  /\ st \in {"started", "running"}
  /\ tasks_executing' = SetCurrent(tasks_executing, st)
  /\ UNCHANGED <<tasks_available, aborted_flag, emergency_flag,
                 healthVars, missionVars, mission_status, agent_uuid, alive>>

(* A_ClearCurrentTask, and an A_ActionClient that fails (which also fails   *)
(* the mission).                                                           *)
BTClearCurrent(failed) ==
  /\ alive
  /\ tasks_executing' = ClearCurrent(tasks_executing)
  /\ mission_status' = IF failed THEN "error" ELSE mission_status
  /\ UNCHANGED <<tasks_available, aborted_flag, emergency_flag,
                 healthVars, missionVars, agent_uuid, alive>>

(* publish_feedback_to_tst with a task in the queue reads the tst-uuid of   *)
(* the mission command, which a start-task never set.                      *)
TstFeedbackRaises == tasks_executing # <<>> /\ mission_command # "tst"

(* A_Chilling with the mission in error. *)
BTChillAfterError ==
  /\ alive
  /\ mission_status = "error"
  /\ IF TstFeedbackRaises
       THEN /\ alive' = FALSE
            /\ UNCHANGED <<tasks_executing, mission_status>>
       ELSE /\ tasks_executing' = <<>>
            /\ mission_status' = None
            /\ UNCHANGED alive
  /\ UNCHANGED <<tasks_available, aborted_flag, emergency_flag,
                 healthVars, missionVars, agent_uuid>>

(* C_AbortedPreviousTask and A_TaskAbortedFlagReset. *)
BTResetAborted ==
  /\ alive
  /\ aborted_flag
  /\ aborted_flag' = FALSE
  /\ UNCHANGED <<tasks_available, tasks_executing, emergency_flag,
                 healthVars, missionVars, mission_status, agent_uuid, alive>>

(* remove_available_task, when the get-ready server does not answer. *)
BTRemoveAvailable(n) ==
  /\ alive
  /\ tasks_available' = [tasks_available EXCEPT ![n] = None]
  /\ UNCHANGED <<tasks_executing, aborted_flag, emergency_flag,
                 healthVars, missionVars, mission_status, agent_uuid, alive>>

Older(a) == IF a = None \/ a = AgeCap THEN a ELSE a + 1

(* One unit of time passes. *)
Elapse ==
  /\ alive
  /\ tasks_available' = [n \in Names |-> Older(tasks_available[n])]
  /\ health_age' = Older(health_age)
  /\ mission_age' = Older(mission_age)
  /\ UNCHANGED <<tasks_executing, aborted_flag, emergency_flag,
                 health_status, mission_timeout, mission_status,
                 mission_command, agent_uuid, alive>>
-----------------------------------------------------------------------------
(* The specification: the operator and the vehicle may send anything at any *)
(* time, and the tree may make any of its calls at any time.               *)

TstCommands == Commands \ {None}

ExecCommand ==
  \E u \in Uuids :
    \/ \E n \in Names, t \in TaskTimeouts : StartTask(u, n, t)
    \/ \E st \in {"aborted", "enough"} : SignalTaskStop(u, st)
    \/ SignalTaskPause(u)
    \/ SignalTaskContinue(u)

TstCommand ==
  \/ \E st \in {"aborted", "enough"} : SignalUnitStop(st)
  \/ \E st \in {"paused", "resumed"} : SignalUnitMark(st)
  \/ CancelAbort
  \/ \E cmd \in TstCommands, t \in Timeouts, m \in Missions : StartTst(cmd, t, m)
  \/ \E cmd \in TstCommands, t \in Timeouts \cup {Garbage, None} : RefuseTst(cmd, t)

OtherCallback ==
  \/ \E code \in HealthStates \cup {"unknown"} : VehicleHealth(code)
  \/ BigRedButton
  \/ ResetEmergency
  \/ \E n \in Names : ActionHeartbeat(n)
  \/ LevelOneHeartbeat

TreeCall ==
  \/ \E st \in {"started", "running"} : BTSetCurrent(st)
  \/ \E failed \in BOOLEAN : BTClearCurrent(failed)
  \/ BTChillAfterError
  \/ BTResetAborted
  \/ \E n \in Names : BTRemoveAvailable(n)

HandlerNext ==
  ExecCommand \/ TstCommand \/ OtherCallback \/ TreeCall \/ Heartbeat \/ Elapse

HandlerSafety == HandlerInit /\ [][HandlerNext]_handlerVars

(* The heartbeat timer keeps firing while the node is alive, and time passes. *)
HandlerSpec ==
  HandlerSafety /\ WF_handlerVars(Heartbeat) /\ WF_handlerVars(Elapse)
-----------------------------------------------------------------------------
(* Properties. *)

\* A task that was aborted, declared enough of, finished or failed is never
\* seen in the queue: whoever marks one so takes it out in the same callback.
\* (A_ActionClient still tests for aborted and enough: that branch is dead.)
ExecutingLive ==
  \A i \in DOMAIN tasks_executing :
    tasks_executing[i].status \in {"started", "running", "paused", "resumed"}

\* Every cause of an emergency empties the queue, and nothing is queued while
\* it lasts, except the mission timeout, which leaves the queue standing: an
\* emergency with tasks in the queue means that the mission timer has run out.
QueueInEmergencyOnlyByTimeout ==
  emergency_flag /\ tasks_executing # <<>> => MissionExpired

\* The mission timer is stopped with a mission under way only by the operator
\* ($cancel_abort); otherwise it runs until the queue is empty.
TimerRunsWhileQueued ==
  [][/\ mission_age # None /\ mission_age' = None
     /\ tasks_executing # <<>>
     => CancelAbort]_handlerVars

\* A mission that has overrun its timeout is stopped: the emergency is raised,
\* unless the timer was stopped or set anew, or the node is dead.
OverrunRaisesEmergency ==
  MissionExpired ~> (emergency_flag \/ ~MissionExpired \/ ~alive)

\* A server that has fallen silent does not stay among the available ones.
SilentServerIsDropped ==
  \A n \in Names :
    (alive /\ Available(n)) ~>
      (~alive \/ ~Available(n) \/ tasks_available[n] = 0)
=============================================================================
