------------------------- MODULE TaskHandlerProofs -------------------------
(* Proofs about TaskHandler, for every value of its constants.             *)
(*                                                                         *)
(* Type correctness, ExecutingLive and QueueInEmergencyOnlyByTimeout are   *)
(* proved together, as the inductive invariant HandlerInv: a queue of live tasks  *)
(* is a sequence over LiveTask, which every operation on the queue keeps.  *)
EXTENDS TaskHandler, TLAPS, SequenceTheorems

LiveStates == {"started", "running", "paused", "resumed"}

LiveTask == [uuid : Uuids, name : Names, status : LiveStates,
             timeout : TaskTimeouts]

HandlerInv ==
  /\ HandlerTypeOK
  /\ tasks_executing \in Seq(LiveTask)
  /\ QueueInEmergencyOnlyByTimeout
-----------------------------------------------------------------------------
(* Lemmas on the queue operators. *)

\* Marking one task of a live queue with a live status leaves the queue live.
LEMMA WithStatusLive ==
  ASSUME NEW q \in Seq(LiveTask), NEW i \in DOMAIN q, NEW st \in LiveStates
  PROVE  WithStatus(q, i, st) \in Seq(LiveTask)
<1>1. q[i] \in LiveTask
  OBVIOUS
<1>2. [q[i] EXCEPT !.status = st] \in LiveTask
  BY <1>1 DEF LiveTask
<1> QED
  BY <1>2, ExceptSeq DEF WithStatus

\* So does marking the head, when there is one.
LEMMA SetCurrentLive ==
  ASSUME NEW q \in Seq(LiveTask), NEW st \in LiveStates
  PROVE  /\ SetCurrent(q, st) \in Seq(LiveTask)
         /\ q = <<>> => SetCurrent(q, st) = <<>>
<1>1. CASE q = <<>>
  BY <1>1 DEF SetCurrent
<1>2. CASE q # <<>>
  <2>1. 1 \in DOMAIN q
    BY <1>2
  <2> QED
    BY <1>2, <2>1, WithStatusLive DEF SetCurrent, LiveStates
<1> QED
  BY <1>1, <1>2

\* So does marking all of them.
LEMMA AllWithStatusLive ==
  ASSUME NEW q \in Seq(LiveTask), NEW st \in LiveStates
  PROVE  /\ AllWithStatus(q, st) \in Seq(LiveTask)
         /\ q = <<>> => AllWithStatus(q, st) = <<>>
<1>1. ASSUME NEW i \in 1..Len(q) PROVE [q[i] EXCEPT !.status = st] \in LiveTask
  <2>1. q[i] \in LiveTask
    BY ElementOfSeq
  <2> QED
    BY <2>1 DEF LiveTask
<1>2. AllWithStatus(q, st) \in [1..Len(q) -> LiveTask]
  BY <1>1 DEF AllWithStatus
<1>3. AllWithStatus(q, st) \in Seq(LiveTask)
  <2>1. Len(q) \in Nat
    OBVIOUS
  <2> QED
    BY <1>2, <2>1, SeqDef
<1>4. ASSUME q = <<>> PROVE AllWithStatus(q, st) = <<>>
  BY <1>4 DEF AllWithStatus
<1> QED
  BY <1>3, <1>4

\* Taking the head or any other task out of a live queue leaves it live.
LEMMA WithoutIndexLive ==
  ASSUME NEW q \in Seq(LiveTask), NEW i \in DOMAIN q
  PROVE  WithoutIndex(q, i) \in Seq(LiveTask)
<1>1. i \in 1..Len(q)
  OBVIOUS
<1>2. SubSeq(q, 1, i - 1) \in Seq(LiveTask)
  BY <1>1, SubSeqProperties
<1>3. SubSeq(q, i + 1, Len(q)) \in Seq(LiveTask)
  BY <1>1, SubSeqProperties
<1> QED
  BY <1>2, <1>3, ConcatProperties DEF WithoutIndex

LEMMA ClearCurrentLive ==
  ASSUME NEW q \in Seq(LiveTask)
  PROVE  /\ ClearCurrent(q) \in Seq(LiveTask)
         /\ q = <<>> => ClearCurrent(q) = <<>>
  BY HeadTailProperties DEF ClearCurrent

\* A sequence of live tasks is a sequence of tasks.
LEMMA LiveQueueType ==
  ASSUME NEW q \in Seq(LiveTask)
  PROVE  q \in Seq(Task)
<1>1. LiveTask \subseteq Task
  BY DEF LiveTask, LiveStates, Task, TaskStates
<1> QED
  BY <1>1, SeqMonotonic

\* The children of an accepted start-tst join the queue live.
LEMMA MissionLive ==
  ASSUME NEW m \in Missions
  PROVE  m \in Seq(LiveTask)
<1>1. [uuid : Uuids, name : Names, status : {"started"}, timeout : TaskTimeouts]
        \subseteq LiveTask
  BY DEF LiveTask, LiveStates
<1> QED
  BY <1>1, HandlerAssumption, SeqMonotonic

\* What is left to show of a step that leaves the mission timer alone: the new
\* queue is live, and it is empty if the emergency is up and the timer has not
\* run out.
LEMMA TimerKept ==
  ASSUME HandlerInv, UNCHANGED <<mission_age, mission_timeout>>,
         tasks_executing' \in Seq(LiveTask),
         tasks_executing' = <<>> \/ ~emergency_flag'
           \/ (emergency_flag /\ tasks_executing # <<>>)
  PROVE  /\ tasks_executing' \in Seq(Task)
         /\ tasks_executing' \in Seq(LiveTask)
         /\ QueueInEmergencyOnlyByTimeout'
  BY LiveQueueType DEF HandlerInv, QueueInEmergencyOnlyByTimeout, MissionExpired
-----------------------------------------------------------------------------
(* HandlerInv is inductive: one lemma for each group of actions. *)

LEMMA ExecCommandInv == HandlerInv /\ ExecCommand => HandlerInv'
<1> SUFFICES ASSUME HandlerInv, NEW u \in Uuids,
                    \/ \E n \in Names, t \in TaskTimeouts : StartTask(u, n, t)
                    \/ \E st \in {"aborted", "enough"} : SignalTaskStop(u, st)
                    \/ SignalTaskPause(u)
                    \/ SignalTaskContinue(u)
             PROVE  HandlerInv'
  BY DEF ExecCommand
<1> USE DEF missionVars, healthVars
<1>1. ASSUME NEW n \in Names, NEW t \in TaskTimeouts, StartTask(u, n, t)
      PROVE  HandlerInv'
  <2>1. NewTask(u, n, t) \in LiveTask
    BY DEF NewTask, LiveTask, LiveStates
  <2>2. tasks_executing' \in Seq(LiveTask)
    BY <1>1, <2>1, AppendProperties DEF StartTask, HandlerInv
  <2>3. ~emergency_flag'
    BY <1>1 DEF StartTask, MayStart
  <2>4. UNCHANGED <<mission_age, mission_timeout>>
    BY <1>1 DEF StartTask
  <2> QED
    BY <1>1, <2>2, <2>3, <2>4, TimerKept DEF StartTask, HandlerInv, HandlerTypeOK
<1>2. ASSUME NEW st \in {"aborted", "enough"}, SignalTaskStop(u, st)
      PROVE  HandlerInv'
  <2>1. PICK i \in DOMAIN tasks_executing :
          tasks_executing' = WithoutIndex(tasks_executing, i)
    BY <1>2 DEF SignalTaskStop
  <2>2. tasks_executing' \in Seq(LiveTask)
    BY <2>1, WithoutIndexLive DEF HandlerInv
  <2>3. tasks_executing # <<>>
    BY <2>1
  <2>4. UNCHANGED <<emergency_flag, mission_age, mission_timeout>>
    BY <1>2 DEF SignalTaskStop
  <2> QED
    BY <1>2, <2>2, <2>3, <2>4, TimerKept DEF SignalTaskStop, HandlerInv, HandlerTypeOK
<1>3. ASSUME SignalTaskPause(u) PROVE HandlerInv'
  <2>1. PICK i \in DOMAIN tasks_executing :
          tasks_executing' = WithStatus(tasks_executing, i, "paused")
    BY <1>3 DEF SignalTaskPause
  <2>2. tasks_executing' \in Seq(LiveTask)
    BY <2>1, WithStatusLive DEF HandlerInv, LiveStates
  <2>3. tasks_executing # <<>>
    BY <2>1
  <2>4. UNCHANGED <<emergency_flag, mission_age, mission_timeout>>
    BY <1>3 DEF SignalTaskPause
  <2> QED
    BY <1>3, <2>2, <2>3, <2>4, TimerKept DEF SignalTaskPause, HandlerInv, HandlerTypeOK
<1>4. ASSUME SignalTaskContinue(u) PROVE HandlerInv'
  <2>1. PICK i \in DOMAIN tasks_executing :
          tasks_executing' = WithStatus(tasks_executing, i, "resumed")
    BY <1>4 DEF SignalTaskContinue
  <2>2. tasks_executing' \in Seq(LiveTask)
    BY <2>1, WithStatusLive DEF HandlerInv, LiveStates
  <2>3. tasks_executing # <<>>
    BY <2>1
  <2>4. UNCHANGED <<emergency_flag, mission_age, mission_timeout>>
    BY <1>4 DEF SignalTaskContinue
  <2> QED
    BY <1>4, <2>2, <2>3, <2>4, TimerKept DEF SignalTaskContinue, HandlerInv, HandlerTypeOK
<1> QED
  BY <1>1, <1>2, <1>3, <1>4

LEMMA TstCommandInv == HandlerInv /\ TstCommand => HandlerInv'
<1> SUFFICES ASSUME HandlerInv, TstCommand
             PROVE  HandlerInv'
  OBVIOUS
<1> USE DEF missionVars, healthVars
<1>1. ASSUME NEW st \in {"aborted", "enough"}, SignalUnitStop(st)
      PROVE  HandlerInv'
  <2>1. /\ tasks_executing' = <<>>
        /\ UNCHANGED <<mission_age, mission_timeout>>
    BY <1>1 DEF SignalUnitStop
  <2>2. tasks_executing' \in Seq(LiveTask)
    BY <2>1, EmptySeq
  <2> QED
    BY <1>1, <2>1, <2>2, TimerKept DEF SignalUnitStop, HandlerInv, HandlerTypeOK
<1>2. ASSUME NEW st \in {"paused", "resumed"}, SignalUnitMark(st)
      PROVE  HandlerInv'
  <2>1. /\ tasks_executing' = AllWithStatus(tasks_executing, st)
        /\ UNCHANGED <<emergency_flag, mission_age, mission_timeout>>
    BY <1>2 DEF SignalUnitMark
  <2>2. /\ tasks_executing' \in Seq(LiveTask)
        /\ tasks_executing = <<>> => tasks_executing' = <<>>
    BY <2>1, AllWithStatusLive DEF HandlerInv, LiveStates
  <2>3. emergency_flag \in BOOLEAN
    BY DEF HandlerInv, HandlerTypeOK
  <2> QED
    BY <1>2, <2>1, <2>2, <2>3, TimerKept DEF SignalUnitMark, HandlerInv, HandlerTypeOK
<1>3. ASSUME CancelAbort PROVE HandlerInv'
  BY <1>3, HandlerAssumption
  DEF CancelAbort, HandlerInv, HandlerTypeOK, QueueInEmergencyOnlyByTimeout
<1>4. ASSUME NEW cmd \in TstCommands, NEW t \in Timeouts, NEW m \in Missions,
             StartTst(cmd, t, m)
      PROVE  HandlerInv'
  <2>1. tasks_executing' \in Seq(LiveTask)
    <3>1. m \in Seq(LiveTask)
      BY MissionLive
    <3> QED
      BY <1>4, <3>1, ConcatProperties DEF StartTst, HandlerInv
  <2>2. tasks_executing' \in Seq(Task)
    BY <2>1, LiveQueueType
  <2>3. mission_age' \in Ages
    BY <1>4, HandlerAssumption DEF StartTst, Ages
  <2>4. ~emergency_flag'
    BY <1>4 DEF StartTst, MayStart
  <2> QED
    BY <1>4, <2>1, <2>2, <2>3, <2>4
    DEF StartTst, TstCommands, HandlerInv, HandlerTypeOK, QueueInEmergencyOnlyByTimeout
<1>5. ASSUME NEW cmd \in TstCommands, NEW t \in Timeouts \cup {Garbage, None},
             RefuseTst(cmd, t)
      PROVE  HandlerInv'
  BY <1>5 DEF RefuseTst, MayStart, TstCommands, HandlerInv, HandlerTypeOK,
              QueueInEmergencyOnlyByTimeout
<1> QED
  BY <1>1, <1>2, <1>3, <1>4, <1>5 DEF TstCommand

LEMMA OtherCallbackInv == HandlerInv /\ OtherCallback => HandlerInv'
<1> SUFFICES ASSUME HandlerInv, OtherCallback
             PROVE  HandlerInv'
  OBVIOUS
<1> USE DEF missionVars, healthVars
<1>1. 0 \in Ages
  BY HandlerAssumption DEF Ages
<1>2. ASSUME NEW code \in HealthStates \cup {"unknown"}, VehicleHealth(code)
      PROVE  HandlerInv'
  BY <1>1, <1>2 DEF VehicleHealth, HandlerInv, HandlerTypeOK,
                    QueueInEmergencyOnlyByTimeout, MissionExpired
<1>3. ASSUME BigRedButton PROVE HandlerInv'
  <2>1. /\ tasks_executing' = <<>>
        /\ UNCHANGED <<mission_age, mission_timeout>>
    BY <1>3 DEF BigRedButton
  <2>2. tasks_executing' \in Seq(LiveTask)
    BY <2>1, EmptySeq
  <2> QED
    BY <1>3, <2>1, <2>2, TimerKept DEF BigRedButton, HandlerInv, HandlerTypeOK
<1>4. ASSUME ResetEmergency PROVE HandlerInv'
  BY <1>4 DEF ResetEmergency, HandlerInv, HandlerTypeOK, QueueInEmergencyOnlyByTimeout
<1>5. ASSUME NEW n \in Names, ActionHeartbeat(n) PROVE HandlerInv'
  BY <1>1, <1>5 DEF ActionHeartbeat, HandlerInv, HandlerTypeOK,
                    QueueInEmergencyOnlyByTimeout, MissionExpired
<1>6. ASSUME LevelOneHeartbeat PROVE HandlerInv'
  BY <1>6 DEF LevelOneHeartbeat, HandlerInv, HandlerTypeOK,
              QueueInEmergencyOnlyByTimeout, MissionExpired
<1> QED
  BY <1>2, <1>3, <1>4, <1>5, <1>6 DEF OtherCallback

LEMMA TreeCallInv == HandlerInv /\ TreeCall => HandlerInv'
<1> SUFFICES ASSUME HandlerInv, TreeCall
             PROVE  HandlerInv'
  OBVIOUS
<1> USE DEF missionVars, healthVars
<1>1. emergency_flag \in BOOLEAN
  BY DEF HandlerInv, HandlerTypeOK
<1>2. ASSUME NEW st \in {"started", "running"}, BTSetCurrent(st) PROVE HandlerInv'
  <2>1. /\ tasks_executing' = SetCurrent(tasks_executing, st)
        /\ UNCHANGED <<emergency_flag, mission_age, mission_timeout>>
    BY <1>2 DEF BTSetCurrent
  <2>2. /\ tasks_executing' \in Seq(LiveTask)
        /\ tasks_executing = <<>> => tasks_executing' = <<>>
    BY <2>1, SetCurrentLive DEF HandlerInv, LiveStates
  <2> QED
    BY <1>1, <1>2, <2>1, <2>2, TimerKept DEF BTSetCurrent, HandlerInv, HandlerTypeOK
<1>3. ASSUME NEW failed \in BOOLEAN, BTClearCurrent(failed) PROVE HandlerInv'
  <2>1. /\ tasks_executing' = ClearCurrent(tasks_executing)
        /\ UNCHANGED <<emergency_flag, mission_age, mission_timeout>>
    BY <1>3 DEF BTClearCurrent
  <2>2. /\ tasks_executing' \in Seq(LiveTask)
        /\ tasks_executing = <<>> => tasks_executing' = <<>>
    BY <2>1, ClearCurrentLive DEF HandlerInv
  <2>3. mission_status' \in MissionStates
    BY <1>3 DEF BTClearCurrent, MissionStates, HandlerInv, HandlerTypeOK
  <2> QED
    BY <1>1, <1>3, <2>1, <2>2, <2>3, TimerKept DEF BTClearCurrent, HandlerInv, HandlerTypeOK
<1>4. ASSUME BTChillAfterError PROVE HandlerInv'
  <2>1. /\ tasks_executing' = <<>> \/ UNCHANGED tasks_executing
        /\ UNCHANGED <<emergency_flag, mission_age, mission_timeout>>
    BY <1>4 DEF BTChillAfterError
  <2>2. tasks_executing' \in Seq(LiveTask)
    BY <2>1, EmptySeq DEF HandlerInv
  <2>3. mission_status' \in MissionStates /\ alive' \in BOOLEAN
    BY <1>4 DEF BTChillAfterError, MissionStates, HandlerInv, HandlerTypeOK
  <2> QED
    BY <1>1, <1>4, <2>1, <2>2, <2>3, TimerKept
    DEF BTChillAfterError, HandlerInv, HandlerTypeOK
<1>5. ASSUME BTResetAborted PROVE HandlerInv'
  BY <1>5 DEF BTResetAborted, HandlerInv, HandlerTypeOK,
              QueueInEmergencyOnlyByTimeout, MissionExpired
<1>6. ASSUME NEW n \in Names, BTRemoveAvailable(n) PROVE HandlerInv'
  BY <1>6 DEF BTRemoveAvailable, HandlerInv, HandlerTypeOK,
              QueueInEmergencyOnlyByTimeout, MissionExpired
<1> QED
  BY <1>2, <1>3, <1>4, <1>5, <1>6 DEF TreeCall

LEMMA HeartbeatInv == HandlerInv /\ Heartbeat => HandlerInv'
<1> SUFFICES ASSUME HandlerInv, Heartbeat
             PROVE  HandlerInv'
  OBVIOUS
<1> USE DEF missionVars, healthVars
<1>1. tasks_available' \in [Names -> Ages \cup {None}]
  BY DEF Heartbeat, DropStale, Available, HandlerInv, HandlerTypeOK
<1>2. CASE HeartbeatRaises
  BY <1>1, <1>2 DEF Heartbeat, HeartbeatRaises, HandlerInv, HandlerTypeOK,
                    QueueInEmergencyOnlyByTimeout, MissionExpired
<1>3. CASE HeartbeatExpires
  BY <1>1, <1>3 DEF Heartbeat, HeartbeatExpires, HandlerInv, HandlerTypeOK,
                    QueueInEmergencyOnlyByTimeout, MissionExpired
<1>4. CASE HeartbeatMissionDone
  BY <1>1, <1>4 DEF Heartbeat, HeartbeatMissionDone, HandlerInv, HandlerTypeOK,
                    QueueInEmergencyOnlyByTimeout
<1>5. CASE HeartbeatQuiet
  BY <1>1, <1>5 DEF Heartbeat, HeartbeatQuiet, HandlerInv, HandlerTypeOK,
                    QueueInEmergencyOnlyByTimeout, MissionExpired
<1> QED
  BY <1>2, <1>3, <1>4, <1>5 DEF Heartbeat

LEMMA ElapseInv == HandlerInv /\ Elapse => HandlerInv'
<1> SUFFICES ASSUME HandlerInv, Elapse
             PROVE  HandlerInv'
  OBVIOUS
<1>1. \A a \in Ages \cup {None} : Older(a) \in Ages \cup {None}
  BY HandlerAssumption DEF Older, Ages
<1>2. MissionExpired => MissionExpired'
  <2> SUFFICES ASSUME MissionExpired PROVE MissionExpired'
    OBVIOUS
  <2>1. /\ mission_timeout \in Timeouts /\ mission_age > mission_timeout
        /\ mission_age # None /\ mission_age \in Ages \cup {None}
        /\ mission_age' = Older(mission_age) /\ mission_timeout' = mission_timeout
    BY DEF MissionExpired, Elapse, HandlerInv, HandlerTypeOK
  <2>2. mission_timeout \in Int /\ mission_age \in Int
    BY <2>1, HandlerAssumption DEF Ages
  <2>3. mission_age' # None /\ mission_age' > mission_timeout'
    BY <1>1, <2>1, <2>2, HandlerAssumption DEF Older, Ages
  <2> QED
    BY <2>1, <2>3 DEF MissionExpired
<1> QED
  BY <1>1, <1>2 DEF Elapse, HandlerInv, HandlerTypeOK, QueueInEmergencyOnlyByTimeout

\* Steps that change no variable change nothing of HandlerInv.
LEMMA HandlerStutterInv == HandlerInv /\ UNCHANGED handlerVars => HandlerInv'
  BY DEF HandlerInv, HandlerTypeOK, QueueInEmergencyOnlyByTimeout, MissionExpired, handlerVars

LEMMA InitHandlerInv == HandlerInit => HandlerInv
  BY EmptySeq DEF HandlerInit, HandlerInv, HandlerTypeOK, QueueInEmergencyOnlyByTimeout,
                  HealthStates, MissionStates, Commands
-----------------------------------------------------------------------------
(* The theorems. *)

\* The inductive invariant holds of every reachable state.
THEOREM HandlerInvHolds == HandlerSafety => []HandlerInv
<1>1. HandlerInv /\ [HandlerNext]_handlerVars => HandlerInv'
  BY ExecCommandInv, TstCommandInv, OtherCallbackInv, TreeCallInv, HeartbeatInv,
     ElapseInv, HandlerStutterInv DEF HandlerNext
<1> QED
  BY <1>1, InitHandlerInv, PTL DEF HandlerSafety

\* Type correctness of the task handler.
THEOREM HandlerTypeCorrect == HandlerSafety => []HandlerTypeOK
<1>1. HandlerInv => HandlerTypeOK
  BY DEF HandlerInv
<1> QED
  BY <1>1, HandlerInvHolds, PTL

\* The queue never holds a task that is already over.
THEOREM QueueIsLive == HandlerSafety => []ExecutingLive
<1>1. HandlerInv => ExecutingLive
  <2> SUFFICES ASSUME HandlerInv, NEW i \in DOMAIN tasks_executing
               PROVE  tasks_executing[i].status \in LiveStates
    BY DEF ExecutingLive, LiveStates
  <2>1. tasks_executing[i] \in LiveTask
    BY DEF HandlerInv
  <2> QED
    BY <2>1 DEF LiveTask
<1> QED
  BY <1>1, HandlerInvHolds, PTL

\* Only the mission timeout leaves tasks queued in an emergency.
THEOREM OnlyTimeoutKeepsQueue == HandlerSafety => []QueueInEmergencyOnlyByTimeout
<1>1. HandlerInv => QueueInEmergencyOnlyByTimeout
  BY DEF HandlerInv
<1> QED
  BY <1>1, HandlerInvHolds, PTL

\* What a step of the handler does to a mission timer that is running: only
\* $cancel_abort, or the heartbeat with an empty queue, stops it.
LEMMA WhoStopsTheTimer ==
  ASSUME HandlerInv, [HandlerNext]_handlerVars,
         mission_age # None, mission_age' = None
  PROVE  CancelAbort \/ tasks_executing = <<>>
<1> USE DEF missionVars
<1>1. UNCHANGED mission_age => FALSE
  OBVIOUS
<1>2. CASE ExecCommand
  BY <1>1, <1>2 DEF ExecCommand, StartTask, SignalTaskStop, SignalTaskPause,
                    SignalTaskContinue
<1>3. CASE TstCommand
  <2>1. ASSUME NEW cmd \in TstCommands, NEW t \in Timeouts, NEW m \in Missions,
               StartTst(cmd, t, m)
        PROVE  FALSE
    BY <2>1, HandlerAssumption DEF StartTst
  <2> QED
    BY <1>1, <1>3, <2>1
    DEF TstCommand, SignalUnitStop, SignalUnitMark, RefuseTst
<1>4. CASE OtherCallback
  BY <1>1, <1>4 DEF OtherCallback, VehicleHealth, BigRedButton, ResetEmergency,
                    ActionHeartbeat, LevelOneHeartbeat
<1>5. CASE TreeCall
  BY <1>1, <1>5 DEF TreeCall, BTSetCurrent, BTClearCurrent, BTChillAfterError,
                    BTResetAborted, BTRemoveAvailable
<1>6. CASE Heartbeat
  BY <1>1, <1>6 DEF Heartbeat, HeartbeatRaises, HeartbeatExpires,
                    HeartbeatMissionDone, HeartbeatQuiet
<1>7. CASE Elapse
  BY <1>7, HandlerAssumption DEF Elapse, Older, HandlerInv, HandlerTypeOK, Ages
<1>8. CASE UNCHANGED handlerVars
  BY <1>1, <1>8 DEF handlerVars
<1> QED
  BY <1>2, <1>3, <1>4, <1>5, <1>6, <1>7, <1>8 DEF HandlerNext

\* A mission's timer runs as long as the queue holds a task, unless the
\* operator cancels the abort.
THEOREM TimerOutlivesQueue == HandlerSafety => TimerRunsWhileQueued
<1>1. HandlerInv /\ [HandlerNext]_handlerVars =>
        [/\ mission_age # None /\ mission_age' = None
         /\ tasks_executing # <<>>
         => CancelAbort]_handlerVars
  BY WhoStopsTheTimer
<1> QED
  BY <1>1, HandlerInvHolds, PTL DEF HandlerSafety, TimerRunsWhileQueued
=============================================================================
