------------------------------- MODULE WaspBT -------------------------------
(***************************************************************************)
(* The wasp_bt node: the task handler, the action clients and the          *)
(* behaviour tree that ticks between them (ROSBT, ros_bt.py).              *)
(*                                                                         *)
(*   S_Root                                                                *)
(*     F_HandleEmergency    no emergency, or the emergency leaf            *)
(*     F_Health_Handler     the vehicle is healthy, or A_Abort             *)
(*     F_Task_Handler       S_BreatheAfterAbort, S_get-ready,              *)
(*                          S_Mission with one S_<task> per server,        *)
(*                          A_Chilling                                     *)
(*                                                                         *)
(* One update() of the tick timer is one step: nothing else runs on the    *)
(* node's thread meanwhile.  All composites are memoryless, so that what   *)
(* they keep between ticks comes down to the status of the root and of the *)
(* A_ActionClient leaves.  A tick is a function of the records below, from *)
(* one subtree to the next.                                                *)
(***************************************************************************)
EXTENDS TaskHandler, ActionLink

CONSTANTS
  Emergency,       (* the server of the emergency action: in Servers if    *)
                   (* setup found it, otherwise the tree chills instead    *)
  GetReady,        (* the name of the get-ready action, in Names or not    *)
  BTHealthTimeout, (* bt_health_timeout                                    *)
  Clock,           (* bound: FALSE if no time passes                       *)
  HealthReports    (* bound: the health codes the vehicle sends            *)

ASSUME TreeAssumption ==
  /\ Emergency \notin Names
  /\ Names \subseteq Servers
  /\ Servers \subseteq Names \cup {Emergency}
  /\ BTHealthTimeout \in 0..(AgeCap - 1)
  /\ Clock \in BOOLEAN
  /\ HealthReports \subseteq HealthStates

VARIABLES
  tree,      (* the names that have a subtree                              *)
  known,     (* _last_available_tasks: the servers it was built for        *)
  root,      (* the status of S_Root after the last tick                   *)
  setup_age, (* time since C_HealthNodeAlive was set up                    *)
  payload    (* what the goal of a running leaf was made from              *)

treeVars == <<tree, known, root, setup_age, payload>>
vars     == <<handlerVars, linkVars, treeVars>>

\* The goal {"level": 1} of an emergency.
LevelOne == "level 1"
Payload  == Uuids \cup {LevelOne, None}

TreeTypeOK ==
  /\ HandlerTypeOK /\ LinkTypeOK
  /\ tree \subseteq Names /\ known \subseteq Names
  /\ root \in LeafStatus
  /\ setup_age \in Ages
  /\ payload \in [Servers -> Payload]

(* setup() ran before any server was heard from. *)
TreeInit ==
  /\ HandlerInit /\ LinkInit
  /\ tree \in SUBSET (Names \cap {GetReady})
  /\ known = {}
  /\ root = "INVALID"
  /\ setup_age = 0
  /\ payload = [s \in Servers |-> None]
-----------------------------------------------------------------------------
(* What a tick works on.  status: what S_Root has come to so far; fits:    *)
(* FALSE once a client has more goals than Slots holds.                    *)
Before ==
  [link |-> [s \in Servers |-> Forgotten(link[s])], leaf |-> leaf,
   payload |-> payload, tree |-> tree, known |-> known,
   queue |-> tasks_executing, available |-> tasks_available,
   mission |-> mission_status, emergency |-> emergency_flag,
   aborted |-> aborted_flag, alive |-> alive, status |-> root, fits |-> TRUE]

\* stop(INVALID) on the leaves of S: terminate, where it was ticked.
Stop(t, S) ==
  LET stopped == {s \in S : t.leaf[s].status # "INVALID"} IN
  [t EXCEPT !.link = [s \in Servers |-> IF s \in stopped THEN terminate(t.link[s], "INVALID")
                                                         ELSE t.link[s]],
            !.leaf = [s \in Servers |-> IF s \in stopped THEN [t.leaf[s] EXCEPT !.status = "INVALID"]
                                                         ELSE t.leaf[s]]]

HasSlot(k)  == \E g \in Slots : Unused(k, g)
FreeSlot(k) == CHOOSE g \in Slots : HasSlot(k) => Unused(k, g)

(* A_ActionClient's tick, with what it does to the task handler: initialise *)
(* marks the head started, sending its goal marks it running, a failure    *)
(* takes it off the queue and fails the mission.                           *)
TickLeaf(t, s, late) ==
  LET f     == EnterLeaf(t.leaf[s])
      k     == EnterClient(t.link[s], t.leaf[s])
      q     == IF t.leaf[s].status = "RUNNING" THEN t.queue ELSE SetCurrent(t.queue, "started")
      o     == UpdateOutcome(k, f, t.emergency, q # <<>>, late)
      works == o = "send" /\ ~t.emergency
      fails == o \in {"time_out", "fail"}
  IN [t EXCEPT
        !.fits       = @ /\ (o = "send" => HasSlot(k)),
        !.link[s]    = AfterUpdate(k, o, FreeSlot(k)),
        !.leaf[s]    = [status |-> OutcomeStatus(o),
                        timed  |-> IF works THEN Head(q).timeout # None ELSE f.timed],
        !.queue      = IF works THEN SetCurrent(q, "running")
                       ELSE IF fails THEN ClearCurrent(q) ELSE q,
        !.mission    = IF OutcomeStatus(o) = "FAILURE" THEN "error" ELSE @,
        !.payload[s] = IF o # "send" THEN @
                       ELSE IF works THEN Head(q).uuid ELSE LevelOne]

(* A_Chilling: after an error, the queue is dropped with the mission. *)
Chill(t) ==
  CASE t.mission = None -> [t EXCEPT !.status = "RUNNING"]
    [] t.mission = "error" /\ t.queue # <<>> /\ mission_command # "tst" ->
         [t EXCEPT !.alive = FALSE]
    [] t.mission = "error" /\ (t.queue = <<>> \/ mission_command = "tst") ->
         [t EXCEPT !.queue = <<>>, !.mission = None, !.status = "RUNNING"]
-----------------------------------------------------------------------------
(* _update_task_handler_tree. *)

Watched(t) == {n \in Names \ {GetReady} : t.available[n] # None}

\* _setup of the client of a server that was, or was not, found.
SetupClient(k, found) ==
  IF k.state \in running_states THEN k
  ELSE [k EXCEPT !.state = IF found THEN "READY" ELSE "DISCONNECTED"]

(* The subtree is built anew around the servers that answer: new leaves,   *)
(* the old ones dropped without being stopped, the clients kept.           *)
Rebuilt(t, found) ==
  LET asked == Watched(t) \cup (Names \cap {GetReady}) IN
  [t EXCEPT
     !.tree      = found \cap asked,
     !.known     = Watched(t),
     !.available = [n \in Names |-> IF n = GetReady /\ n \notin found THEN None ELSE @[n]],
     !.link      = [s \in Servers |-> IF s \in asked THEN SetupClient(@[s], s \in found) ELSE @[s]],
     !.leaf      = [s \in Servers |-> IF s = Emergency THEN @[s]
                                      ELSE [status |-> "INVALID", timed |-> FALSE]]]

Updated(t, found) == IF Watched(t) = t.known THEN t ELSE Rebuilt(t, found)
-----------------------------------------------------------------------------
(* The three subtrees of S_Root. *)

(* S_Root starts over unless it was running. *)
RootTree(t) == IF t.status = "RUNNING" THEN t ELSE Stop(t, Servers)

\* Mutant: the tree chills although the emergency server was found.
EmergencyTree_Chills(t) ==
  IF t.emergency THEN Chill(t) ELSE [t EXCEPT !.status = "SUCCESS"]

\* An emergency leaf that has succeeded keeps its status when the flag is
\* lowered: F_HandleEmergency had come to rest by then.
EmergencyTree(t) ==
  LET running == {s \in Servers \cap {Emergency} : t.leaf[s].status = "RUNNING"} IN
  IF ~t.emergency THEN [Stop(t, running) EXCEPT !.status = "SUCCESS"]
  ELSE IF Emergency \notin Servers THEN Chill(t)
  ELSE LET u == TickLeaf(t, Emergency, FALSE) IN
       [u EXCEPT !.status = u.leaf[Emergency].status]

HealthUnknown == health_age = None /\ setup_age <= BTHealthTimeout
HealthFresh   == health_age # None /\ health_age <= BTHealthTimeout
Healthy       == HealthFresh /\ health_status \in {"ready", "waiting"}

\* Mutant: A_Abort does not abort.
HealthTree_NoAbort(t) ==
  [t EXCEPT !.status = IF HealthUnknown THEN "RUNNING" ELSE "SUCCESS"]

HealthTree(t) ==
  CASE HealthUnknown -> [t EXCEPT !.status = "RUNNING"]
    [] Healthy       -> [t EXCEPT !.status = "SUCCESS"]
    [] OTHER         -> [t EXCEPT !.emergency = TRUE, !.queue = <<>>, !.status = "SUCCESS"]

\* The health a task needs: S_Mission's, or F_CanIGetReady?'s.
HealthFor(n) == IF n = GetReady THEN {"ready", "waiting"} ELSE {"ready"}

\* Mutant: the vehicle's health is not asked for.
LeafToTick_AnyHealth(t) ==
  {n \in t.tree : /\ t.mission # "error"
                  /\ t.queue # <<>>
                  /\ Head(t.queue).name = n
                  /\ Head(t.queue).status \in {"started", "resumed", "running"}}

\* The leaf that the subtrees of the tasks come to: the one of the head.
LeafToTick(t) ==
  {n \in t.tree : /\ t.mission # "error"
                  /\ health_status \in HealthFor(n)
                  /\ t.queue # <<>>
                  /\ Head(t.queue).name = n
                  /\ Head(t.queue).status \in {"started", "resumed", "running"}}

\* Mutants of AfterLeaf: the task leaves the queue as soon as it runs; it stays
\* after it succeeded.
AfterLeaf_Hasty(t, n) ==
  IF t.leaf[n].status = "FAILURE" THEN Chill(t)
  ELSE [t EXCEPT !.queue = ClearCurrent(@), !.status = "RUNNING"]
AfterLeaf_KeepsTask(t, n) ==
  IF t.leaf[n].status = "FAILURE" THEN Chill(t) ELSE [t EXCEPT !.status = "RUNNING"]

(* A leaf that succeeds is followed by A_ClearCurrentTask, which keeps      *)
(* running; one that fails, by A_Chilling.                                 *)
AfterLeaf(t, n) ==
  CASE t.leaf[n].status = "RUNNING" -> [t EXCEPT !.status = "RUNNING"]
    [] t.leaf[n].status = "SUCCESS" -> [t EXCEPT !.queue = ClearCurrent(@), !.status = "RUNNING"]
    [] t.leaf[n].status = "FAILURE" -> Chill(t)

(* S_get-ready and S_Mission.  A sequence that had failed resets its leaf   *)
(* on entry; whatever is not ticked is stopped.                            *)
TasksTree(t, late) ==
  LET ticked == LeafToTick(t)
      u == Stop(t, {n \in Names : n \notin ticked \/ t.leaf[n].status = "FAILURE"})
  IN IF ticked = {} THEN Chill(u)
     ELSE LET n == CHOOSE m \in ticked : TRUE IN AfterLeaf(TickLeaf(u, n, late), n)

\* Mutant: the flag is reset, and the tree goes on to the tasks.
TaskHandlerTree_NoBreath(t, late) == TasksTree([t EXCEPT !.aborted = FALSE], late)

(* S_BreatheAfterAbort comes first: it resets the flag and succeeds. *)
TaskHandlerTree(t, late) ==
  IF t.aborted THEN [Stop(t, Names) EXCEPT !.aborted = FALSE, !.status = "SUCCESS"]
  ELSE TasksTree(t, late)

\* Mutant: a sequence leaves the children after a running one as they are.
Held_LeavesRunning(t) == t

\* S_Root does not reach the task handler: whatever runs there is stopped.
Held(t) == IF t.alive THEN Stop(t, Names) ELSE t

Goes(t) == t.alive /\ t.status = "SUCCESS"

\* The servers that may answer a rebuild, and whether a task may be overdue.
Findings == IF Watched(Before) = known THEN {{}} ELSE SUBSET Names
Lates    == IF \E s \in Servers : leaf[s].timed THEN BOOLEAN ELSE {FALSE}

TreeTick ==
  /\ alive
  /\ UNCHANGED <<healthVars, missionVars, agent_uuid, setup_age>>
  /\ \E found \in Findings, late \in Lates :
     \E e \in {EmergencyTree(RootTree(Updated(Before, found)))} :
     \E h \in {IF Goes(e) THEN HealthTree(e) ELSE e} :
     \E t \in {IF Goes(h) THEN TaskHandlerTree(h, late) ELSE Held(h)} :
         /\ t.fits
         /\ link' = t.link /\ leaf' = t.leaf
         /\ payload' = [s \in Servers |-> IF t.leaf[s].status = "RUNNING" THEN t.payload[s]
                                                                         ELSE None]
         /\ tree' = t.tree /\ known' = t.known /\ root' = t.status
         /\ tasks_executing' = t.queue /\ tasks_available' = t.available
         /\ mission_status' = t.mission /\ emergency_flag' = t.emergency
         /\ aborted_flag' = t.aborted /\ alive' = t.alive
-----------------------------------------------------------------------------
(* What goes on between two ticks.  Left to the modules of the parts: the  *)
(* commands that are refused, a tst without uuid, the level 1 heartbeat,   *)
(* health codes nobody knows, marking every task of the queue at once, and *)
(* the feedback of a goal.                                                 *)
(*                                                                         *)
(* Where no time passes, the mission timer means nothing: the heartbeats,  *)
(* which could only stop it, and $cancel_abort, a reset that stops it too, *)
(* are left out with the clock.                                            *)

Command ==
  \/ ExecCommand
  \/ \E st \in {"aborted", "enough"} : SignalUnitStop(st)
  \/ Clock /\ CancelAbort
  \/ \E t \in Timeouts, m \in Missions : StartTst("tst", t, m)
  \/ BigRedButton
  \/ ResetEmergency

Report ==
  \/ \E code \in HealthReports : VehicleHealth(code)
  \/ \E n \in Names : ActionHeartbeat(n)

HandlerStep ==
  /\ Command \/ Report \/ (Clock /\ Heartbeat)
  /\ UNCHANGED <<linkVars, treeVars>>

TimePasses ==
  /\ Clock
  /\ Elapse
  /\ setup_age' = Older(setup_age)
  /\ UNCHANGED <<linkVars, tree, known, root, payload>>

\* Bound: the servers wait until what they said has arrived.  ActionLink has
\* every interleaving of the messages of a client.
Delivered ==
  \A s \in Servers, g \in Slots :
    link[s].goals[g].transit \subseteq {"cancel"} /\ link[s].goals[g].stage \notin Ended

ClientHears(s) == alive /\ Callback(s) /\ UNCHANGED <<handlerVars, treeVars>>

ServerAnswers(s) == Delivered /\ ServerAnswer(s) /\ UNCHANGED <<handlerVars, treeVars>>

GoalEnds(s) ==
  /\ Delivered
  /\ \E g \in Slots : ServerEnds(s, g)
  /\ UNCHANGED <<handlerVars, treeVars>>

TreeNext ==
  \/ TreeTick \/ HandlerStep \/ TimePasses
  \/ \E s \in Servers : ClientHears(s) \/ ServerAnswers(s) \/ GoalEnds(s)

TreeSafety == TreeInit /\ [][TreeNext]_vars

(* The tick timer fires, calls are delivered and answered, and goals end.  *)
TreeSpec ==
  /\ TreeSafety
  /\ WF_vars(TreeTick)
  /\ \A s \in Servers :
       WF_vars(ClientHears(s)) /\ WF_vars(ServerAnswers(s)) /\ WF_vars(GoalEnds(s))
-----------------------------------------------------------------------------
(* Properties. *)

\* The tree works on one thing at a time: it never has two goals on its hands.
OneLeafRuns ==
  \A s, r \in Servers : leaf[s].status = "RUNNING" /\ leaf[r].status = "RUNNING" => s = r

GoalSent(s) ==
  \E g \in Slots : link[s].goals[g].stage = "free" /\ link'[s].goals[g].stage = "requested"

\* A step that sends a task's server a goal sends the one that is due.
GoalsAreDue ==
  \A n \in Names : GoalSent(n) =>
    /\ tasks_executing' # <<>>
    /\ Head(tasks_executing') = [Head(tasks_executing) EXCEPT !.status = "running"]
    /\ Head(tasks_executing').name = n
    /\ payload'[n] = Head(tasks_executing').uuid
    /\ health_status \in HealthFor(n) /\ health_age # None
    /\ ~emergency_flag' /\ mission_status # "error"

\* A task's server is sent a goal only for the head of the queue, on a vehicle
\* that may work on it, in no emergency and with no failed mission, also in a
\* tick that rebuilds the tree or raises the emergency itself.  (A mission timer
\* can raise one with the queue standing; then it fails, see the README.)
TaskGoalsAreDue == [][GoalsAreDue]_vars

\* After a task or the mission was stopped, one whole tick leaves no task
\* running, so that what is queued next is not served by the goal of the task
\* that was stopped.
StopTakesABreath ==
  [][aborted_flag /\ (\E n \in Names : leaf'[n].status = "RUNNING") => ~TreeTick]_vars

\* A tick with the emergency flag up leaves no task running, or kills the node.
TasksAreStopped ==
  \/ ~emergency_flag \/ ~alive'
  \/ \A n \in Names :
       /\ leaf'[n].status # "RUNNING"
       /\ leaf[n].status = "RUNNING" /\ known' = known
            => \A g \in Slots : link[n].handle = g /\ link[n].goals[g].stage = "EXECUTING"
                                  => \/ "cancel" \in link'[n].goals[g].transit
                                     \/ link[n].state \notin running_states
  \/ ~TreeTick

\* A tick in an emergency stops what is running, and its goal is asked to
\* cancel if the client has heard of its acceptance.
EmergencyStopsTasks == [][TasksAreStopped]_vars

\* The queue grew no shorter, or there is a reason for it.
LeftByItsLeaf ==
  Len(tasks_executing') < Len(tasks_executing) /\ TreeTick =>
    \/ LET n == Head(tasks_executing).name IN leaf'[n].status \in {"SUCCESS", "FAILURE"}
    \/ mission_status = "error"
    \/ emergency_flag' /\ tasks_executing' = <<>>

\* A tick takes a task off the queue only when its own leaf has ended, when
\* the mission had failed, or when it raises an emergency.
TasksLeaveByTheirLeaf == [][LeftByItsLeaf]_vars

\* A tick in an emergency gets on with the emergency action: its server has
\* been asked and is to answer, or has just answered, or the answer to a
\* cancellation was read and the next tick asks again.
EmergencyIsPursued ==
  [][\/ ~emergency_flag \/ Emergency \notin Servers \/ ~alive'
     \/ link'[Emergency].state \in running_states
     \/ leaf'[Emergency].status \in {"SUCCESS", "FAILURE"}
     \/ link[Emergency].state = "CANCELLED"
     \/ ~TreeTick
    ]_vars

\* The red button's comment: "It will abort all tasks and set the aborted flag
\* to True."  So whenever the goal that a leaf waits for is not the one of the
\* head of the queue, a flag is up that has the next tick stop the leaf.
GoalServesHead ==
  \A n \in Names :
    /\ leaf[n].status = "RUNNING" /\ link[n].state \in {"SENT", "ACCEPTED", "RUNNING"}
    /\ tasks_executing # <<>>
    => Head(tasks_executing).uuid = payload[n] \/ aborted_flag \/ emergency_flag

\* A vehicle that has fallen silent is in an emergency, unless it is heard again.
SilenceRaisesEmergency ==
  (alive /\ ~HealthUnknown /\ ~HealthFresh) ~> (~alive \/ emergency_flag \/ HealthFresh)

\* The head of the queue is done with, unless something keeps the tree from it.
HeadTaskEnds ==
  (alive /\ tasks_executing # <<>>) ~>
    \/ ~alive \/ tasks_executing = <<>> \/ emergency_flag
    \/ health_status # "ready" \/ ~HealthFresh
    \/ Head(tasks_executing).status = "paused"
    \/ Head(tasks_executing).name \notin tree
=============================================================================
