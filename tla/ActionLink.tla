----------------------------- MODULE ActionLink -----------------------------
(***************************************************************************)
(* The behaviour tree's end of a ROS action: the client (SMARCActionClient, *)
(* BTActionClient), the A_ActionClient leaf that drives it, and the        *)
(* messages between the client and its server.                             *)
(*                                                                         *)
(* One client per server of Servers, kept for the life of the node.  Leaf  *)
(* ticks and client callbacks run one at a time on the node's single       *)
(* thread; the server and the network interleave with them.  Nothing       *)
(* orders the messages of different kinds, or of different goals.          *)
(*                                                                         *)
(* The server is the one GoalServer describes.  The client keeps no more   *)
(* of a goal than its handle; a goal is named here by a slot, used again   *)
(* once nothing in the system can name the goal any more.                  *)
(***************************************************************************)
CONSTANTS
  Servers,    (* the action servers of the tree                           *)
  Slots,      (* bound: goals of one client under way at the same time    *)
  NoSlot,     (* _goal_handle is None                                     *)
  Interrupts  (* what may befall a leaf besides its server's answers: a   *)
              (* subset of "preempt", "rebuild", "timeout"                *)

ASSUME LinkAssumption ==
  /\ NoSlot \notin Slots
  /\ Interrupts \subseteq {"preempt", "rebuild", "timeout"}

VARIABLES
  link,  (* per server: the client's state and handle, and its goals      *)
  leaf   (* per server: the leaf's status, and whether its goal is timed  *)

linkVars == <<link, leaf>>

running_states == {"SENT", "ACCEPTED", "RUNNING", "CANCELLING"}
failure_states == {"DISCONNECTED", "ERROR", "REJECTED", "CANCELLED"}
success_states == {"DONE"}
ActionClientState == {"READY"} \cup running_states \cup failure_states \cup success_states

Underway    == {"EXECUTING", "CANCELING"}
Ended       == {"SUCCEEDED", "ABORTED", "CANCELED"}
GoalStages  == {"free", "requested"} \cup Underway \cup Ended
Messages    == {"accept", "reject", "feedback", "cancel", "canceling", "not_canceling"}
Goal        == [stage : GoalStages, transit : SUBSET Messages]
Link        == [state : ActionClientState, handle : Slots \cup {NoSlot},
                goals : [Slots -> Goal]]
LeafStatus  == {"INVALID", "RUNNING", "SUCCESS", "FAILURE"}

LinkTypeOK ==
  /\ link \in [Servers -> Link]
  /\ leaf \in [Servers -> [status : LeafStatus, timed : BOOLEAN]]

FreeGoal == [stage |-> "free", transit |-> {}]

(* The client after a _setup that found its server. *)
FreshLink == [state |-> "READY", handle |-> NoSlot, goals |-> [g \in Slots |-> FreeGoal]]

LinkInit ==
  /\ link = [s \in Servers |-> FreshLink]
  /\ leaf = [s \in Servers |-> [status |-> "INVALID", timed |-> FALSE]]
-----------------------------------------------------------------------------
(* The client's operations, on the record k of one link. *)

Unused(k, g) == k.goals[g] = FreeGoal /\ k.handle # g

send_goal(k, g) ==
  [k EXCEPT !.state = "SENT", !.goals[g] = [stage |-> "requested", transit |-> {}]]

\* Without a handle the cancellation is skipped, and the state stays.
cancel_goal(k) ==
  IF k.handle = NoSlot THEN k
  ELSE [k EXCEPT !.state = "CANCELLING",
                 !.goals[k.handle].transit = @ \cup {"cancel"}]

get_ready(k) == [k EXCEPT !.state = "READY"]

cancel_if_running(k) == IF k.state \in running_states THEN cancel_goal(k) ELSE k

(* A_ActionClient.terminate, as far as the client goes. *)
terminate(k, new_status) ==
  get_ready(IF new_status = "INVALID" THEN cancel_if_running(k) ELSE k)

\* Mutants of UpdateOutcome: every failure is tried again; a goal that was
\* accepted counts as finished.
UpdateOutcome_Retries(k, f, emergency, has_task, late) ==
  CASE k.state \in failure_states -> "recover"
    [] k.state = "READY"          -> IF emergency \/ has_task THEN "send" ELSE "no_task"
    [] k.state \in running_states -> IF f.timed /\ late THEN "time_out" ELSE "wait"
    [] k.state \in success_states -> "succeed"
UpdateOutcome_Hasty(k, f, emergency, has_task, late) ==
  CASE k.state \in failure_states        -> IF k.state = "CANCELLED" THEN "recover" ELSE "fail"
    [] k.state = "READY"                 -> IF emergency \/ has_task THEN "send" ELSE "no_task"
    [] k.state \in {"SENT", "CANCELLING"} -> "wait"
    [] k.state \in {"ACCEPTED", "RUNNING", "DONE"} -> "succeed"

(* A_ActionClient.update of a client in state k.state: what it comes to.    *)
(* late: the task's timeout, if it has one, is over.                       *)
UpdateOutcome(k, f, emergency, has_task, late) ==
  CASE k.state = "CANCELLED"                            -> "recover"
    [] k.state = "READY" /\ (emergency \/ has_task)     -> "send"
    [] k.state = "READY" /\ ~emergency /\ ~has_task     -> "no_task"
    [] k.state \in running_states /\ f.timed /\ late    -> "time_out"
    [] k.state \in running_states /\ ~(f.timed /\ late) -> "wait"
    [] k.state \in failure_states \ {"CANCELLED"}       -> "fail"
    [] k.state \in success_states                       -> "succeed"

OutcomeStatus(o) ==
  CASE o \in {"recover", "send", "wait"}    -> "RUNNING"
    [] o \in {"no_task", "time_out", "fail"} -> "FAILURE"
    [] o = "succeed"                         -> "SUCCESS"

\* The handle of a goal that nothing else can name any more cancels nothing:
\* it may go, so that the goal's slot can be used again.  (Cancelling with it
\* has a client that waits for an acceptance CANCELLING instead of SENT; the
\* tree does not tell the running states apart.)
Forgotten(k) ==
  [k EXCEPT !.handle = IF @ \in Slots /\ k.goals[@] = FreeGoal THEN NoSlot ELSE @]

(* What update leaves of the client, g being the slot of a goal it sends.  *)
AfterUpdate(k, o, g) ==
  CASE o = "recover"  -> get_ready(k)
    [] o = "send"     -> send_goal(k, g)
    [] o = "time_out" -> terminate(cancel_goal(k), "FAILURE")
    [] o = "wait"     -> k
    [] OTHER          -> terminate(k, OutcomeStatus(o))

(* The leaf's fields at the start of a tick: initialise clears the timer.  *)
EnterLeaf(f) == IF f.status = "RUNNING" THEN f ELSE [f EXCEPT !.timed = FALSE]

(* initialise cancels what a previous activation left running. *)
EnterClient(k, f) == IF f.status = "RUNNING" THEN k ELSE cancel_if_running(k)
-----------------------------------------------------------------------------
(* The leaf of s, on its own: its task stays at the head of the queue, with *)
(* or without a timeout, and there is no emergency.                        *)

Tick(s, timeout, late) ==
  /\ late => "timeout" \in Interrupts
  /\ LET f == EnterLeaf(leaf[s])
         k == EnterClient(link[s], leaf[s])
         o == UpdateOutcome(k, f, FALSE, TRUE, late)
     IN \E g \in Slots :
          /\ o = "send" => Unused(k, g)
          /\ link' = [link EXCEPT ![s] = AfterUpdate(k, o, g)]
          /\ leaf' = [leaf EXCEPT ![s] =
                        [status |-> OutcomeStatus(o),
                         timed  |-> IF o = "send" THEN timeout ELSE f.timed]]

(* The leaf is stopped by something of higher priority. *)
Preempt(s) ==
  /\ "preempt" \in Interrupts
  /\ leaf[s].status # "INVALID"
  /\ link' = [link EXCEPT ![s] = terminate(@, "INVALID")]
  /\ leaf' = [leaf EXCEPT ![s].status = "INVALID"]

(* The tree is rebuilt around the same client: a new leaf, and the old one  *)
(* is dropped without being stopped.  _setup keeps the state of a client    *)
(* that is running and readies any other.                                  *)
Rebuild(s) ==
  /\ "rebuild" \in Interrupts
  /\ link' = [link EXCEPT ![s] = IF @.state \in running_states THEN @ ELSE get_ready(@)]
  /\ leaf' = [leaf EXCEPT ![s] = [status |-> "INVALID", timed |-> FALSE]]
-----------------------------------------------------------------------------
(* Client callbacks.  None looks at which goal the message is about. *)

Arrives(s, g, m, becomes, handle, stage) ==
  /\ m \in link[s].goals[g].transit
  /\ link' = [link EXCEPT ![s].state = becomes,
                          ![s].handle = handle,
                          ![s].goals[g] = [stage |-> stage, transit |-> @.transit \ {m}]]
  /\ UNCHANGED leaf

\* Mutant: the goal handle is not kept.
GoalAccepted_NoHandle(s, g) ==
  Arrives(s, g, "accept", "ACCEPTED", link[s].handle, link[s].goals[g].stage)

GoalAccepted(s, g) ==
  Arrives(s, g, "accept", "ACCEPTED", g, link[s].goals[g].stage)

\* Mutant: a rejection leaves the state.
GoalRejected_Unnoticed(s, g) ==
  Arrives(s, g, "reject", link[s].state, g, "free")

GoalRejected(s, g) ==
  Arrives(s, g, "reject", "REJECTED", g, "free")

FeedbackArrives(s, g) ==
  Arrives(s, g, "feedback", "RUNNING", link[s].handle, link[s].goals[g].stage)

CancelConfirmed(s, g) ==
  Arrives(s, g, "canceling", "CANCELLED", link[s].handle, link[s].goals[g].stage)

CancelFailed(s, g) ==
  Arrives(s, g, "not_canceling", link[s].state, link[s].handle, link[s].goals[g].stage)

ResultState(stage) ==
  CASE stage = "SUCCEEDED" -> "DONE"
    [] stage = "CANCELED"  -> "CANCELLED"
    [] stage = "ABORTED"   -> "ERROR"

(* The result is asked for when the goal is accepted, and answered when the *)
(* goal is over; rclpy then drops the goal's feedback.                     *)
ResultArrives(s, g) ==
  LET goal == link[s].goals[g] IN
    /\ goal.stage \in Ended
    /\ "accept" \notin goal.transit
    /\ link' = [link EXCEPT ![s].state = ResultState(goal.stage),
                            ![s].goals[g] = [stage   |-> "free",
                                             transit |-> goal.transit \ {"feedback"}]]
    /\ UNCHANGED leaf
-----------------------------------------------------------------------------
(* The server. *)

ServerMoves(s, g, stage, transit) ==
  /\ link' = [link EXCEPT ![s].goals[g] = [stage |-> stage, transit |-> transit]]
  /\ UNCHANGED leaf

ServerAccepts(s, g) ==
  /\ link[s].goals[g].stage = "requested"
  /\ \A h \in Slots : link[s].goals[h].stage # "EXECUTING"
  /\ ServerMoves(s, g, "EXECUTING", {"accept"})

ServerRejects(s, g) ==
  /\ link[s].goals[g].stage = "requested"
  /\ ServerMoves(s, g, "free", {"reject"})

ServerFeedback(s, g) ==
  LET goal == link[s].goals[g] IN
    /\ goal.stage \in Underway
    /\ ServerMoves(s, g, goal.stage, goal.transit \cup {"feedback"})

ServerFinishes(s, g, stage) ==
  LET goal == link[s].goals[g] IN
    /\ \/ stage \in {"SUCCEEDED", "ABORTED"} /\ goal.stage \in Underway
       \/ stage = "CANCELED" /\ goal.stage = "CANCELING"
    /\ ServerMoves(s, g, stage, goal.transit)

(* A cancel request reaches the server: it is granted, or refused by the    *)
(* user's callback, or finds nothing to cancel.                            *)
ServerCancels(s, g, granted) ==
  LET goal == link[s].goals[g] IN
    /\ "cancel" \in goal.transit
    /\ granted => goal.stage = "EXECUTING"
    /\ ServerMoves(s, g, IF granted THEN "CANCELING" ELSE goal.stage,
                   (goal.transit \ {"cancel"})
                     \cup {IF granted THEN "canceling" ELSE "not_canceling"})
-----------------------------------------------------------------------------
Callback(s) ==
  \E g \in Slots :
    \/ GoalAccepted(s, g) \/ GoalRejected(s, g) \/ FeedbackArrives(s, g)
    \/ CancelConfirmed(s, g) \/ CancelFailed(s, g) \/ ResultArrives(s, g)

ServerAnswer(s) ==
  \E g \in Slots :
    \/ ServerAccepts(s, g) \/ ServerRejects(s, g)
    \/ \E granted \in BOOLEAN : ServerCancels(s, g, granted)

ServerEnds(s, g) == \E stage \in Ended : ServerFinishes(s, g, stage)

AnyTick(s) == \E timeout, late \in BOOLEAN : Tick(s, timeout, late)

LinkNext ==
  \E s \in Servers :
    \/ AnyTick(s) \/ Preempt(s) \/ Rebuild(s)
    \/ Callback(s) \/ ServerAnswer(s)
    \/ \E g \in Slots : ServerFeedback(s, g) \/ ServerEnds(s, g)

LinkSafety == LinkInit /\ [][LinkNext]_linkVars

(* Every message is delivered and answered. *)
LinkFairness ==
  \A s \in Servers, g \in Slots :
    /\ WF_linkVars(GoalAccepted(s, g)) /\ WF_linkVars(GoalRejected(s, g))
    /\ WF_linkVars(CancelConfirmed(s, g)) /\ WF_linkVars(CancelFailed(s, g))
    /\ WF_linkVars(ResultArrives(s, g))
    /\ WF_linkVars(ServerAccepts(s, g) \/ ServerRejects(s, g))
    /\ WF_linkVars(\E granted \in BOOLEAN : ServerCancels(s, g, granted))

(* A tree that keeps ticking its leaves, and servers whose goals all end.   *)
LeafFairness ==
  \A s \in Servers :
    WF_linkVars(AnyTick(s)) /\ \A g \in Slots : WF_linkVars(ServerEnds(s, g))
-----------------------------------------------------------------------------
(* Properties. *)

\* A leaf succeeds (and the tree takes its task off the queue) only when no
\* goal of its client is asked for or executing: "action is finished proper".
SucceedsIdle ==
  \A s \in Servers :
    leaf[s].status # "SUCCESS" /\ leaf'[s].status = "SUCCESS" =>
      \A g \in Slots : link[s].goals[g].stage \notin {"requested", "EXECUTING"}

\* The client has one goal under way or asked for at a time, and one that executes
\* it can cancel: its handle is held, or its acceptance is on the way.
NoOrphan ==
  \A s \in Servers, g \in Slots :
    /\ link[s].goals[g].stage = "EXECUTING" =>
         link[s].handle = g \/ "accept" \in link[s].goals[g].transit
    /\ link[s].goals[g].stage \in {"requested"} \cup Underway =>
         \A h \in Slots \ {g} : link[s].goals[h].stage \notin {"requested"} \cup Underway

\* A client that is waiting has something to wait for: a request, an answer, a
\* goal under way or a result that will still reach it and change its state.
\* Whatever stale messages do to the state, none leaves it waiting for nothing.
WaitsForSomething ==
  \A s \in Servers :
    link[s].state \in running_states =>
      \E g \in Slots : \/ link[s].goals[g].stage # "free"
                       \/ "reject" \in link[s].goals[g].transit

\* An activation of a leaf comes to an end, its server's goals doing so.
ActivationEnds ==
  \A s \in Servers : leaf[s].status = "RUNNING" ~> leaf[s].status # "RUNNING"
=============================================================================
