---------------------------- MODULE TuperProofs -----------------------------
(***************************************************************************)
(* Proofs about LoLo's TUPER mission (TuperBT) and its stop detector       *)
(* (StopDetector), and about what the mission's legs rest on: that a leaf  *)
(* which nothing disturbs keeps hold of its one goal (MCActionLink).  For  *)
(* any number of servers, goals and setpoints, and any of the parameters.  *)
(*                                                                         *)
(* The client of such a leaf has at most one goal: InHand is that, with    *)
(* the messages that may be under way.                                     *)
(***************************************************************************)
EXTENDS MCActionLink, TuperBT, StopDetector, ActionLinkProofs, FiniteSetTheorems,
        WellFoundedInduction

USE DEF running_states, failure_states, success_states

\* No goal is under way, and no message.
AllFree(k) == \A g \in Slots : k.goals[g] = FreeGoal

\* The client waits for its goal g: it was asked for, or rejected, or accepted,
\* the acceptance being on its way unless the client holds the handle.
WaitsFor(k, g) ==
  /\ k.state \in {"SENT", "ACCEPTED", "RUNNING"}
  /\ \A h \in Slots \ {g} : k.goals[h] = FreeGoal
  /\ \/ k.goals[g] = [stage |-> "requested", transit |-> {}]
     \/ k.goals[g] = [stage |-> "free", transit |-> {"reject"}]
     \/ /\ k.goals[g].stage \in {"EXECUTING", "SUCCEEDED", "ABORTED"}
        /\ k.goals[g].transit \subseteq {"accept", "feedback"}
        /\ "accept" \in k.goals[g].transit \/ k.handle = g

InHand(k, status) ==
  \/ k.state \notin running_states /\ AllFree(k)
  \/ status = "RUNNING" /\ \E g \in Slots : WaitsFor(k, g)

UndisturbedInv ==
  /\ LinkInv
  /\ disturbed \in BOOLEAN
  /\ ~disturbed => \A s \in Servers : InHand(link[s], leaf[s].status)

\* One link changes, and is in hand afterwards.
LEMMA OneInHand ==
  ASSUME LinkInv, NEW s \in Servers,
         NEW k, NEW f, link' = [link EXCEPT ![s] = k],
         leaf' = [leaf EXCEPT ![s] = f] \/ (UNCHANGED leaf /\ f = leaf[s]),
         InHand(k, f.status)
  PROVE  \A x \in Servers : x = s \/ InHand(link[x], leaf[x].status)
                               => InHand(link'[x], leaf'[x].status)
<1>1. TAKE x \in Servers
<1>2. CASE x = s
  <2>1. link'[x] = k /\ leaf'[x] = f
    BY <1>2 DEF LinkInv
  <2>2. QED
    BY <2>1
<1>3. CASE x # s
  <2>1. link'[x] = link[x] /\ leaf'[x] = leaf[x]
    BY <1>3 DEF LinkInv
  <2>2. QED
    BY <1>3, <2>1
<1>4. QED
  BY <1>2, <1>3

\* Its goal sent, a free client waits for it.
LEMMA SentIsInHand ==
  ASSUME NEW k \in Link, AllFree(k), NEW g \in Slots
  PROVE  WaitsFor(send_goal(k, g), g)
<1>1. k.goals \in [Slots -> Goal]
  BY DEF Link
<1>2. send_goal(k, g) = [k EXCEPT !.state = "SENT",
                           !.goals = [k.goals EXCEPT ![g] = [stage |-> "requested", transit |-> {}]]]
  BY <1>1 DEF send_goal, Link
<1>3. QED
  BY <1>1, <1>2 DEF WaitsFor, AllFree, Link

LEMMA ReadyIsFree ==
  ASSUME NEW k \in Link, AllFree(k)
  PROVE  AllFree(get_ready(k)) /\ get_ready(k).state = "READY"
  BY DEF AllFree, get_ready, Link

\* An update that waits for a client that is busy, and for no other.
LEMMA UpdateInHand ==
  ASSUME NEW k \in Link, NEW status, InHand(k, status), NEW g \in Slots,
         NEW o \in {"recover", "send", "wait", "fail", "succeed"},
         o = "wait" <=> k.state \in running_states
  PROVE  /\ InHand(AfterUpdate(k, o, g), OutcomeStatus(o))
         /\ OutcomeStatus(o) = "SUCCESS" => AllFree(k)
<1> DEFINE n == AfterUpdate(k, o, g)
<1>1. CASE o = "wait"
  <2>1. n = k /\ OutcomeStatus(o) = "RUNNING"
    BY <1>1 DEF AfterUpdate, OutcomeStatus
  <2>2. QED
    BY <1>1, <2>1 DEF InHand
<1>2. CASE o \in {"send", "recover", "fail", "succeed"}
  <2>1. AllFree(k)
    BY <1>2 DEF InHand, WaitsFor
  <2>2. CASE o = "send"
    <3>1. n = send_goal(k, g) /\ OutcomeStatus(o) = "RUNNING"
      BY <2>2 DEF AfterUpdate, OutcomeStatus
    <3>2. WaitsFor(n, g)
      BY <2>1, <3>1, SentIsInHand
    <3>3. QED
      BY <2>1, <3>1, <3>2 DEF InHand
  <2>3. CASE o \in {"recover", "fail", "succeed"}
    <3>1. n = get_ready(k)
      BY <2>3 DEF AfterUpdate, OutcomeStatus, terminate
    <3>2. AllFree(n) /\ n.state = "READY"
      BY <2>1, <3>1, ReadyIsFree
    <3>3. QED
      BY <2>1, <3>2 DEF InHand
  <2>4. QED
    BY <1>2, <2>2, <2>3
<1>3. QED
  BY <1>1, <1>2

\* What a tick comes to, while the task has time left.
LEMMA OutcomeInTime ==
  ASSUME NEW k \in Link, NEW f \in [status : LeafStatus, timed : BOOLEAN],
         NEW late \in BOOLEAN, ~(late /\ f.timed)
  PROVE  LET o == UpdateOutcome(k, f, FALSE, TRUE, late) IN
           /\ o \in {"recover", "send", "wait", "fail", "succeed"}
           /\ o = "wait" <=> k.state \in running_states
<1>1. CASE k.state = "CANCELLED"
  BY <1>1 DEF UpdateOutcome
<1>2. CASE k.state = "READY"
  BY <1>2 DEF UpdateOutcome
<1>3. CASE k.state \in running_states
  BY <1>3 DEF UpdateOutcome
<1>4. CASE k.state \in failure_states \ {"CANCELLED"}
  BY <1>4 DEF UpdateOutcome
<1>5. CASE k.state \in success_states
  BY <1>5 DEF UpdateOutcome
<1>6. QED
  BY <1>1, <1>2, <1>3, <1>4, <1>5 DEF ActionClientState, Link

\* A tick of the leaf, its task not out of time.
LEMMA TickInHand ==
  ASSUME LinkInv, NEW s \in Servers, \A x \in Servers : InHand(link[x], leaf[x].status),
         NEW timeout \in BOOLEAN, NEW late \in BOOLEAN, Tick(s, timeout, late),
         ~(late /\ EnterLeaf(leaf[s]).timed)
  PROVE  /\ \A x \in Servers : InHand(link'[x], leaf'[x].status)
         /\ leaf'[s].status = "SUCCESS" => AllFree(link[s])
         /\ \A x \in Servers \ {s} : leaf'[x] = leaf[x]
<1> DEFINE f == EnterLeaf(leaf[s])
           k == EnterClient(link[s], leaf[s])
           o == UpdateOutcome(k, f, FALSE, TRUE, late)
<1>1. /\ link[s] \in Link /\ link[s].state \in ActionClientState
      /\ leaf[s] \in [status : LeafStatus, timed : BOOLEAN]
      /\ InHand(link[s], leaf[s].status)
  BY DEF LinkInv, Link
<1>2. k = link[s]
  BY <1>1 DEF EnterClient, cancel_if_running, InHand
<1>3. f \in [status : LeafStatus, timed : BOOLEAN] /\ ~(late /\ f.timed)
  BY <1>1 DEF EnterLeaf
<1>4. PICK g \in Slots :
        /\ link' = [link EXCEPT ![s] = AfterUpdate(k, o, g)]
        /\ leaf' = [leaf EXCEPT ![s] =
                       [status |-> OutcomeStatus(o),
                        timed  |-> IF o = "send" THEN timeout ELSE f.timed]]
  BY DEF Tick
<1> DEFINE n == AfterUpdate(k, o, g)
<1>5. /\ o \in {"recover", "send", "wait", "fail", "succeed"}
      /\ o = "wait" <=> link[s].state \in running_states
  <2> HIDE DEF f, k
  <2> QED
    <3>1. k \in Link /\ f \in [status : LeafStatus, timed : BOOLEAN] /\ ~(late /\ f.timed)
      BY <1>1, <1>2, <1>3
    <3>2. /\ o \in {"recover", "send", "wait", "fail", "succeed"}
          /\ o = "wait" <=> k.state \in running_states
      BY <3>1, OutcomeInTime
    <3>3. QED
      BY <1>2, <3>2
<1>6. link' = [link EXCEPT ![s] = n]
  BY <1>4
<1> DEFINE z == [status |-> OutcomeStatus(o), timed |-> IF o = "send" THEN timeout ELSE f.timed]
<1>8. leaf' = [leaf EXCEPT ![s] = z] /\ z.status = OutcomeStatus(o)
  BY <1>4
<1> HIDE DEF k, o
<1>7. InHand(n, OutcomeStatus(o)) /\ (OutcomeStatus(o) = "SUCCESS" => AllFree(link[s]))
  BY <1>1, <1>2, <1>5, UpdateInHand
<1> HIDE DEF n, z
<1>9. \A x \in Servers : InHand(link'[x], leaf'[x].status)
  BY <1>6, <1>7, <1>8, OneInHand
<1>10. leaf'[s].status = OutcomeStatus(o) /\ \A x \in Servers \ {s} : leaf'[x] = leaf[x]
  BY <1>8 DEF LinkInv
<1>11. QED
  BY <1>7, <1>9, <1>10

-----------------------------------------------------------------------------
(* Callbacks and servers. *)

\* The goal g moves on, with what its client makes of it.
GoalMoves(s, g, st, h, goal) ==
  /\ link' = [link EXCEPT ![s].state = st, ![s].handle = h, ![s].goals[g] = goal]
  /\ UNCHANGED leaf

Moved(k, g, st, h, goal) ==
  [k EXCEPT !.state = st, !.handle = h, !.goals = [k.goals EXCEPT ![g] = goal]]

LEMMA OneClientMoves ==
  ASSUME LinkInv, NEW s \in Servers, NEW g \in Slots, NEW st, NEW h, NEW goal,
         GoalMoves(s, g, st, h, goal)
  PROVE  link' = [link EXCEPT ![s] = Moved(link[s], g, st, h, goal)]
<1>1. link[s].goals \in [Slots -> Goal] /\ link[s] \in Link
  BY DEF LinkInv, Link
<1>2. QED
  BY <1>1 DEF LinkInv, Link, GoalMoves, Moved

\* A step that replaces one goal, and perhaps the client's state and handle.
LEMMA GoalInHand ==
  ASSUME LinkInv, NEW s \in Servers,
         NEW g \in Slots, WaitsFor(link[s], g), leaf[s].status = "RUNNING",
         NEW st, NEW h, NEW goal, GoalMoves(s, g, st, h, goal),
         \/ st \notin running_states /\ goal = FreeGoal
         \/ /\ st \in {"SENT", "ACCEPTED", "RUNNING"}
            /\ \/ goal = [stage |-> "requested", transit |-> {}]
               \/ goal = [stage |-> "free", transit |-> {"reject"}]
               \/ /\ goal.stage \in {"EXECUTING", "SUCCEEDED", "ABORTED"}
                  /\ goal.transit \subseteq {"accept", "feedback"}
                  /\ "accept" \in goal.transit \/ h = g
  PROVE  \A x \in Servers : x = s \/ InHand(link[x], leaf[x].status)
                               => InHand(link'[x], leaf'[x].status)
<1> DEFINE k == Moved(link[s], g, st, h, goal)
<1>1. link[s].goals \in [Slots -> Goal] /\ link[s] \in Link
  BY DEF LinkInv, Link
<1>2. link' = [link EXCEPT ![s] = k] /\ UNCHANGED leaf
  <2>1. UNCHANGED leaf
    BY DEF GoalMoves
  <2>2. QED
    BY <2>1, OneClientMoves
<1>3. /\ k.state = st /\ k.handle = h /\ k.goals[g] = goal
      /\ \A i \in Slots \ {g} : k.goals[i] = FreeGoal
  BY <1>1 DEF Link, WaitsFor, Moved
<1> HIDE DEF k
<1>4. CASE st \notin running_states /\ goal = FreeGoal
  <2>1. AllFree(k)
    BY <1>3, <1>4 DEF AllFree
  <2>2. InHand(k, leaf[s].status)
    BY <1>3, <1>4, <2>1 DEF InHand
  <2>3. QED
    BY <1>2, <2>2, OneInHand
<1>5. CASE ~(st \notin running_states /\ goal = FreeGoal)
  <2>1. WaitsFor(k, g)
    BY <1>3, <1>5 DEF WaitsFor
  <2>2. InHand(k, leaf[s].status)
    BY <2>1 DEF InHand
  <2>3. QED
    BY <1>2, <2>2, OneInHand
<1>6. QED
  BY <1>4, <1>5

\* Whatever a goal does, it is the one that is waited for.
LEMMA GoalIsWaitedFor ==
  ASSUME LinkInv, NEW s \in Servers, InHand(link[s], leaf[s].status),
         NEW g \in Slots, link[s].goals[g] # FreeGoal
  PROVE  WaitsFor(link[s], g) /\ leaf[s].status = "RUNNING"
<1>1. PICK h \in Slots : WaitsFor(link[s], h) /\ leaf[s].status = "RUNNING"
  BY DEF InHand, AllFree
<1>2. h = g
  BY <1>1 DEF WaitsFor
<1>3. QED
  BY <1>1, <1>2

LEMMA CallbackInHand ==
  ASSUME LinkInv, NEW s \in Servers, \A x \in Servers : InHand(link[x], leaf[x].status),
         Callback(s)
  PROVE  \A x \in Servers : InHand(link'[x], leaf'[x].status)
<1>1. PICK g \in Slots :
        \/ GoalAccepted(s, g) \/ GoalRejected(s, g) \/ FeedbackArrives(s, g)
        \/ CancelConfirmed(s, g) \/ CancelFailed(s, g) \/ ResultArrives(s, g)
  BY DEF Callback
<1> DEFINE goal == link[s].goals[g]
<1>2. goal \in Goal /\ link[s] \in Link /\ link \in [Servers -> Link]
  BY DEF LinkInv, Link
<1>3. goal # FreeGoal
  <2>1. goal.transit # {} \/ goal.stage # "free"
    BY <1>1, <1>2 DEF GoalAccepted, GoalRejected, FeedbackArrives, CancelConfirmed, CancelFailed,
                      Arrives, ResultArrives, Ended
  <2>2. QED
    BY <2>1 DEF FreeGoal
<1>4. WaitsFor(link[s], g) /\ leaf[s].status = "RUNNING"
  BY <1>3, GoalIsWaitedFor
<1>5. \/ goal = [stage |-> "requested", transit |-> {}]
      \/ goal = [stage |-> "free", transit |-> {"reject"}]
      \/ /\ goal.stage \in {"EXECUTING", "SUCCEEDED", "ABORTED"}
         /\ goal.transit \subseteq {"accept", "feedback"}
         /\ "accept" \in goal.transit \/ link[s].handle = g
  BY <1>4 DEF WaitsFor
\* What arrives about a goal that stays.
<1>6. ASSUME NEW m, NEW st \in {"ACCEPTED", "RUNNING"}, NEW h,
             Arrives(s, g, m, st, h, goal.stage),
             goal.stage \in {"EXECUTING", "SUCCEEDED", "ABORTED"},
             h = g \/ (m # "accept" /\ h = link[s].handle)
      PROVE  \A x \in Servers : InHand(link'[x], leaf'[x].status)
  <2> DEFINE new == [stage |-> goal.stage, transit |-> goal.transit \ {m}]
  <2>1. GoalMoves(s, g, st, h, new)
    BY <1>2, <1>6 DEF Arrives, Link, GoalMoves
  <2>2. /\ new.stage \in {"EXECUTING", "SUCCEEDED", "ABORTED"}
        /\ new.transit \subseteq {"accept", "feedback"}
        /\ "accept" \in new.transit \/ h = g
    BY <1>5, <1>6
  <2> HIDE DEF new, goal
  <2>3. QED
    BY <1>4, <1>6, <2>1, <2>2, GoalInHand
<1>7. CASE GoalAccepted(s, g)
  <2>1. "accept" \in goal.transit
    BY <1>7 DEF GoalAccepted, Arrives
  <2>2. goal.stage \in {"EXECUTING", "SUCCEEDED", "ABORTED"}
    BY <1>5, <2>1
  <2>3. QED
    BY <1>6, <1>7, <2>2 DEF GoalAccepted
<1>8. CASE FeedbackArrives(s, g)
  <2>1. "feedback" \in goal.transit
    BY <1>8 DEF FeedbackArrives, Arrives
  <2>2. goal.stage \in {"EXECUTING", "SUCCEEDED", "ABORTED"}
    BY <1>5, <2>1
  <2>3. QED
    BY <1>6, <1>8, <2>2 DEF FeedbackArrives
\* What ends a goal.
<1>9. ASSUME NEW st \in ActionClientState \ running_states, NEW h,
             GoalMoves(s, g, st, h, FreeGoal)
      PROVE  \A x \in Servers : InHand(link'[x], leaf'[x].status)
  BY <1>4, <1>9, GoalInHand
<1>10. CASE GoalRejected(s, g)
  <2>1. "reject" \in goal.transit
    BY <1>10 DEF GoalRejected, Arrives
  <2>2. goal.transit \ {"reject"} = {}
    BY <1>5, <2>1
  <2>3. GoalMoves(s, g, "REJECTED", g, FreeGoal)
    BY <1>2, <1>10, <2>2 DEF GoalRejected, Arrives, Link, FreeGoal, GoalMoves
  <2>4. QED
    BY <1>9, <2>3 DEF ActionClientState
<1>11. CASE ResultArrives(s, g)
  <2>1. goal.stage \in {"SUCCEEDED", "ABORTED"} /\ goal.transit \ {"feedback"} = {}
    BY <1>5, <1>11 DEF ResultArrives, Ended
  <2>2. GoalMoves(s, g, ResultState(goal.stage), link[s].handle, FreeGoal)
    BY <1>2, <1>11, <2>1 DEF ResultArrives, Link, FreeGoal, GoalMoves
  <2>3. ResultState(goal.stage) \in ActionClientState \ running_states
    BY <2>1 DEF ResultState, ActionClientState
  <2>4. QED
    BY <1>9, <2>2, <2>3
<1>12. CASE CancelConfirmed(s, g) \/ CancelFailed(s, g)
  <2>1. "canceling" \in goal.transit \/ "not_canceling" \in goal.transit
    BY <1>12 DEF CancelConfirmed, CancelFailed, Arrives
  <2>2. QED
    BY <1>5, <2>1
<1>13. QED
  BY <1>1, <1>7, <1>8, <1>10, <1>11, <1>12

LEMMA ServerInHand ==
  ASSUME LinkInv, NEW s \in Servers, \A x \in Servers : InHand(link[x], leaf[x].status),
         ServerAnswer(s) \/ \E g \in Slots : ServerFeedback(s, g) \/ ServerEnds(s, g)
  PROVE  \A x \in Servers : InHand(link'[x], leaf'[x].status)
<1>1. PICK g \in Slots :
        \/ ServerAccepts(s, g) \/ ServerRejects(s, g)
        \/ \E granted \in BOOLEAN : ServerCancels(s, g, granted)
        \/ ServerFeedback(s, g) \/ ServerEnds(s, g)
  BY DEF ServerAnswer
<1> DEFINE goal == link[s].goals[g]
<1>2. goal \in Goal /\ link[s] \in Link /\ link \in [Servers -> Link]
  BY DEF LinkInv, Link
<1>3. goal # FreeGoal
  <2>1. goal.transit # {} \/ goal.stage # "free"
    BY <1>1, <1>2 DEF ServerAccepts, ServerRejects, ServerCancels, ServerFeedback, ServerEnds,
                      ServerFinishes, Underway
  <2>2. QED
    BY <2>1 DEF FreeGoal
<1>4. WaitsFor(link[s], g) /\ leaf[s].status = "RUNNING"
  BY <1>3, GoalIsWaitedFor
<1>5. \/ goal = [stage |-> "requested", transit |-> {}]
      \/ goal = [stage |-> "free", transit |-> {"reject"}]
      \/ /\ goal.stage \in {"EXECUTING", "SUCCEEDED", "ABORTED"}
         /\ goal.transit \subseteq {"accept", "feedback"}
         /\ "accept" \in goal.transit \/ link[s].handle = g
  BY <1>4 DEF WaitsFor
<1>6. ASSUME NEW stage, NEW transit, ServerMoves(s, g, stage, transit),
             \/ stage = "free" /\ transit = {"reject"}
             \/ /\ stage \in {"EXECUTING", "SUCCEEDED", "ABORTED"}
                /\ transit \subseteq {"accept", "feedback"}
                /\ "accept" \in transit \/ link[s].handle = g
      PROVE  \A x \in Servers : InHand(link'[x], leaf'[x].status)
  <2> DEFINE new == [stage |-> stage, transit |-> transit]
  <2>1. GoalMoves(s, g, link[s].state, link[s].handle, new)
    BY <1>2, <1>6 DEF ServerMoves, Link, GoalMoves
  <2>2. \/ new = [stage |-> "free", transit |-> {"reject"}]
        \/ /\ new.stage \in {"EXECUTING", "SUCCEEDED", "ABORTED"}
           /\ new.transit \subseteq {"accept", "feedback"}
           /\ "accept" \in new.transit \/ link[s].handle = g
    BY <1>6
  <2>3. link[s].state \in {"SENT", "ACCEPTED", "RUNNING"}
    BY <1>4 DEF WaitsFor
  <2> HIDE DEF new
  <2>4. QED
    BY <1>4, <2>1, <2>2, <2>3, GoalInHand
<1>7. CASE ServerAccepts(s, g)
  BY <1>6, <1>7 DEF ServerAccepts
<1>8. CASE ServerRejects(s, g)
  BY <1>6, <1>8 DEF ServerRejects
<1>9. CASE \E granted \in BOOLEAN : ServerCancels(s, g, granted)
  BY <1>5, <1>9 DEF ServerCancels
<1>10. CASE ServerFeedback(s, g)
  <2>1. /\ goal.stage \in Underway
        /\ ServerMoves(s, g, goal.stage, goal.transit \cup {"feedback"})
    BY <1>10 DEF ServerFeedback
  <2> HIDE DEF goal
  <2>2. QED
    BY <1>5, <1>6, <2>1 DEF Underway
<1>11. CASE ServerEnds(s, g)
  <2>1. PICK stage \in Ended : ServerFinishes(s, g, stage)
    BY <1>11 DEF ServerEnds
  <2>2. goal.stage \in Underway /\ stage # "CANCELED" /\ ServerMoves(s, g, stage, goal.transit)
    BY <1>5, <2>1 DEF ServerFinishes, Underway
  <2> HIDE DEF goal
  <2>3. QED
    BY <1>5, <1>6, <2>1, <2>2 DEF Underway, Ended
<1>12. QED
  BY <1>1, <1>7, <1>8, <1>9, <1>10, <1>11

-----------------------------------------------------------------------------
(* The theorems about an undisturbed leaf. *)

LEMMA UndisturbedStep == UndisturbedInv /\ [Next]_mcVars => UndisturbedInv'
<1> SUFFICES ASSUME UndisturbedInv, [Next]_mcVars PROVE UndisturbedInv'
  OBVIOUS
<1> USE DEF UndisturbedInv
<1>1. CASE UNCHANGED mcVars
  <2>1. UNCHANGED <<link, leaf, disturbed>>
    BY <1>1 DEF mcVars, linkVars
  <2>2. LinkInv'
    BY <2>1 DEF LinkInv, LinkOK, Expects, LateMessages
  <2>3. (\A s \in Servers : InHand(link[s], leaf[s].status))'
          <=> \A s \in Servers : InHand(link[s], leaf[s].status)
    BY <2>1 DEF InHand, AllFree, WaitsFor
  <2>4. QED
    BY <2>1, <2>2, <2>3
<1>2. CASE Next
  <2>1. PICK s \in Servers :
          \/ \E timeout, late \in BOOLEAN :
               /\ Tick(s, timeout, late)
               /\ disturbed' = (disturbed \/ (late /\ EnterLeaf(leaf[s]).timed))
          \/ (Preempt(s) \/ Rebuild(s)) /\ disturbed' = TRUE
          \/ /\ \/ Callback(s) \/ ServerAnswer(s)
                \/ \E g \in Slots : ServerFeedback(s, g) \/ ServerEnds(s, g)
             /\ UNCHANGED disturbed
    BY <1>2 DEF Next
  <2>2. LinkInv'
    BY <2>1, TickInv, InterruptInv, CallbackInv, ServerInv
  <2>3. disturbed' \in BOOLEAN
    BY <2>1
  <2>4. ASSUME ~disturbed' PROVE \A x \in Servers : InHand(link'[x], leaf'[x].status)
    <3>1. ASSUME NEW timeout \in BOOLEAN, NEW late \in BOOLEAN, Tick(s, timeout, late),
                 disturbed' = (disturbed \/ (late /\ EnterLeaf(leaf[s]).timed))
          PROVE  \A x \in Servers : InHand(link'[x], leaf'[x].status)
      <4>1. ~disturbed /\ ~(late /\ EnterLeaf(leaf[s]).timed)
        BY <2>4, <3>1
      <4>2. QED
        BY <3>1, <4>1, TickInHand
    <3>2. CASE /\ Callback(s) \/ ServerAnswer(s)
                    \/ \E g \in Slots : ServerFeedback(s, g) \/ ServerEnds(s, g)
               /\ UNCHANGED disturbed
      BY <2>4, <3>2, CallbackInHand, ServerInHand
    <3>3. QED
      BY <2>1, <2>4, <3>1, <3>2
  <2>5. (\A x \in Servers : InHand(link[x], leaf[x].status))'
          <=> \A x \in Servers : InHand(link'[x], leaf'[x].status)
    BY DEF InHand, AllFree, WaitsFor
  <2>6. QED
    BY <2>2, <2>3, <2>4, <2>5
<1>3. QED
  BY <1>1, <1>2

THEOREM UndisturbedInvHolds == Spec => []UndisturbedInv
<1>1. Init => UndisturbedInv
  <2> SUFFICES ASSUME Init PROVE UndisturbedInv
    OBVIOUS
  <2>1. LinkInv /\ disturbed = FALSE
    BY InitInv DEF Init
  <2>2. \A s \in Servers : InHand(link[s], leaf[s].status)
    BY DEF Init, LinkInit, FreshLink, InHand, AllFree
  <2>3. QED
    BY <2>1, <2>2 DEF UndisturbedInv
<1>2. QED
  BY <1>1, UndisturbedStep, PTL DEF Spec

\* A leaf that nothing has disturbed has one goal under way at a time, and holds
\* or is about to get the handle of one that executes: for any number of goals.
THEOREM UndisturbedLeavesKeepTheirGoal == Spec => []UndisturbedNoOrphan
<1>1. UndisturbedInv => UndisturbedNoOrphan
  <2> SUFFICES ASSUME UndisturbedInv, ~disturbed, NEW s \in Servers, NEW g \in Slots,
                      link[s].goals[g].stage \in {"requested"} \cup Underway
               PROVE  /\ link[s].goals[g].stage = "EXECUTING" =>
                           link[s].handle = g \/ "accept" \in link[s].goals[g].transit
                      /\ \A h \in Slots \ {g} :
                           link[s].goals[h].stage \notin {"requested"} \cup Underway
    BY DEF UndisturbedNoOrphan, NoOrphan, Underway
  <2>1. LinkInv /\ InHand(link[s], leaf[s].status)
    BY DEF UndisturbedInv
  <2>2. link[s].goals[g] # FreeGoal
    BY DEF FreeGoal, Underway
  <2>3. WaitsFor(link[s], g)
    BY <2>1, <2>2, GoalIsWaitedFor
  <2>4. QED
    BY <2>3 DEF WaitsFor, FreeGoal, Underway
<1>2. QED
  BY <1>1, UndisturbedInvHolds, PTL

\* Only a client that is DONE lets its leaf succeed, late or not.
LEMMA SuccessIsDone ==
  ASSUME NEW k \in Link, NEW f \in [status : LeafStatus, timed : BOOLEAN], NEW late \in BOOLEAN,
         OutcomeStatus(UpdateOutcome(k, f, FALSE, TRUE, late)) = "SUCCESS"
  PROVE  k.state = "DONE"
<1>1. CASE k.state = "CANCELLED"
  BY <1>1 DEF UpdateOutcome, OutcomeStatus
<1>2. CASE k.state = "READY"
  BY <1>2 DEF UpdateOutcome, OutcomeStatus
<1>3. CASE k.state \in running_states
  <2>1. UpdateOutcome(k, f, FALSE, TRUE, late) \in {"time_out", "wait"}
    <3>1. CASE f.timed /\ late
      BY <1>3, <3>1 DEF UpdateOutcome
    <3>2. CASE ~(f.timed /\ late)
      BY <1>3, <3>2 DEF UpdateOutcome
    <3>3. QED
      BY <3>1, <3>2
  <2>2. QED
    BY <2>1 DEF OutcomeStatus
<1>4. CASE k.state \in failure_states \ {"CANCELLED"}
  BY <1>4 DEF UpdateOutcome, OutcomeStatus
<1>5. CASE k.state \in success_states
  BY <1>5
<1>6. QED
  BY <1>1, <1>2, <1>3, <1>4, <1>5 DEF ActionClientState, Link

\* A leaf that nothing has disturbed succeeds only when no goal of its client is
\* asked for or executing, and the tree may take its task off the queue.
THEOREM UndisturbedSuccessIsIdle == Spec => SuccessMeansIdle
<1>1. UndisturbedInv /\ [Next]_mcVars => [~disturbed => SucceedsIdle]_mcVars
  <2> SUFFICES ASSUME UndisturbedInv, Next, ~disturbed, NEW x \in Servers,
                      leaf[x].status # "SUCCESS", leaf'[x].status = "SUCCESS"
               PROVE  AllFree(link[x])
    BY DEF SucceedsIdle, AllFree, FreeGoal
  <2> USE DEF UndisturbedInv
  <2>1. PICK s \in Servers :
          \/ \E timeout, late \in BOOLEAN : Tick(s, timeout, late)
          \/ Preempt(s) \/ Rebuild(s) \/ UNCHANGED leaf
    <3>1. \A s \in Servers : Callback(s) => UNCHANGED leaf
      <4>1. ASSUME NEW s \in Servers, NEW g \in Slots,
                   GoalAccepted(s, g) \/ GoalRejected(s, g) \/ FeedbackArrives(s, g)
            PROVE  UNCHANGED leaf
        BY <4>1 DEF GoalAccepted, GoalRejected, FeedbackArrives, Arrives
      <4>2. ASSUME NEW s \in Servers, NEW g \in Slots,
                   CancelConfirmed(s, g) \/ CancelFailed(s, g) \/ ResultArrives(s, g)
            PROVE  UNCHANGED leaf
        BY <4>2 DEF CancelConfirmed, CancelFailed, Arrives, ResultArrives
      <4>3. QED
        BY <4>1, <4>2 DEF Callback
    <3>2. \A s \in Servers : ServerAnswer(s) => UNCHANGED leaf
      BY DEF ServerAnswer, ServerAccepts, ServerRejects, ServerCancels, ServerMoves
    <3>3. \A s \in Servers, g \in Slots : ServerFeedback(s, g) \/ ServerEnds(s, g) => UNCHANGED leaf
      BY DEF ServerFeedback, ServerEnds, ServerFinishes, ServerMoves
    <3>4. QED
      BY <3>1, <3>2, <3>3 DEF Next
  <2>2. PICK timeout \in BOOLEAN, late \in BOOLEAN : Tick(s, timeout, late)
    BY <2>1 DEF Preempt, Rebuild, LinkInv
  <2> DEFINE f == EnterLeaf(leaf[s])
             k == EnterClient(link[s], leaf[s])
             o == UpdateOutcome(k, f, FALSE, TRUE, late)
  <2>3. /\ link[s] \in Link /\ leaf[s] \in [status : LeafStatus, timed : BOOLEAN]
        /\ InHand(link[s], leaf[s].status)
    BY DEF LinkInv
  <2>4. k = link[s] /\ f \in [status : LeafStatus, timed : BOOLEAN]
    BY <2>3 DEF EnterClient, EnterLeaf, cancel_if_running, InHand
  <2>5. x = s /\ OutcomeStatus(o) = "SUCCESS"
    <3> HIDE DEF o
    <3>1. \E timed : leaf' = [leaf EXCEPT ![s] = [status |-> OutcomeStatus(o), timed |-> timed]]
      BY <2>2 DEF Tick, o
    <3>2. QED
      BY <3>1 DEF LinkInv
  <2>6. link[s].state = "DONE"
    <3> HIDE DEF k, f
    <3>1. k.state = "DONE"
      BY <2>3, <2>4, <2>5, SuccessIsDone
    <3>2. QED
      BY <2>4, <3>1
  <2>7. QED
    BY <2>3, <2>5, <2>6 DEF InHand, WaitsFor
<1>2. QED
  BY <1>1, UndisturbedInvHolds, PTL DEF Spec, SuccessMeansIdle

-----------------------------------------------------------------------------
(* The legs of the TUPER mission: of their clients' messages only a request *)
(* to cancel is ever under way, and a handle is that of a goal under way.   *)

LegOK(k) ==
  \A g \in Slots :
    /\ k.goals[g].transit \subseteq {"cancel"}
    /\ k.goals[g].stage \notin Ended
    /\ k.goals[g].transit # {} \/ k.handle = g => k.goals[g].stage \in Underway

LegsInv ==
  /\ LinkInv
  /\ \A s \in TuperServers : LegOK(link[s])

\* Nothing disturbs a leg while its mission runs, if no goal of an earlier one
\* was in its way.
TuperInv ==
  /\ LegsInv
  /\ mission = "running" /\ ~lingering =>
       \A s \in TuperServers : InHand(link[s], leaf[s].status)

LEMMA CancelKeepsLeg ==
  ASSUME NEW k \in Link, LegOK(k), k.handle # NoSlot
  PROVE  /\ LegOK(cancel_goal(k))
         /\ "cancel" \in cancel_goal(k).goals[k.handle].transit
         /\ \A g \in Slots : cancel_goal(k).goals[g].stage = k.goals[g].stage
<1> DEFINE h == k.handle
           c == cancel_goal(k)
<1>1. h \in Slots /\ k.goals \in [Slots -> Goal]
  BY DEF Link
<1>2. c = [k EXCEPT !.state = "CANCELLING",
                    !.goals = [k.goals EXCEPT ![h] =
                      [k.goals[h] EXCEPT !.transit = k.goals[h].transit \cup {"cancel"}]]]
  BY <1>1 DEF cancel_goal, Link, Goal
<1>3. /\ c.handle = h
      /\ \A g \in Slots : c.goals[g].stage = k.goals[g].stage
      /\ c.goals[h].transit = k.goals[h].transit \cup {"cancel"}
      /\ \A g \in Slots \ {h} : c.goals[g] = k.goals[g]
  BY <1>1, <1>2 DEF Link, Goal
<1> HIDE DEF c
<1>4. LegOK(c)
  BY <1>1, <1>3 DEF LegOK
<1>5. QED
  BY <1>3, <1>4 DEF c

LEMMA TerminateKeepsLeg ==
  ASSUME NEW k \in Link, LegOK(k), NEW st
  PROVE  LegOK(terminate(k, st)) /\ LegOK(cancel_if_running(k))
<1>1. LegOK(cancel_if_running(k))
  BY CancelKeepsLeg DEF cancel_if_running, cancel_goal
<1>2. \A c : LegOK(c) /\ c.goals = get_ready(c).goals /\ c.handle = get_ready(c).handle
             => LegOK(get_ready(c))
  BY DEF LegOK
<1>3. \A c : c.goals = get_ready(c).goals /\ c.handle = get_ready(c).handle
  BY DEF get_ready
<1>4. QED
  BY <1>1, <1>2, <1>3 DEF terminate

LEMMA LegsAreServers == TuperServers \subseteq Servers
  BY TuperClients

\* What a reset leaves of a client.
LEMMA StoppedKeepsLeg ==
  ASSUME LegsInv, NEW s \in Servers
  PROVE  LinkOK(Stopped(s)) /\ (s \in TuperServers => LegOK(Stopped(s)))
<1>1. LinkOK(link[s]) /\ link[s] \in Link
  BY DEF LegsInv, LinkInv, LinkOK
<1>2. LinkOK(Stopped(s))
  BY <1>1, TerminateOK DEF Stopped
<1>3. ASSUME s \in TuperServers PROVE LegOK(Stopped(s))
  BY <1>1, <1>3, TerminateKeepsLeg DEF Stopped, LegsInv
<1>4. QED
  BY <1>2, <1>3

LEMMA ResetKeepsLegs ==
  ASSUME LegsInv, ResetStates PROVE LegsInv'
<1>1. \A s \in Servers : LinkOK(Stopped(s)) /\ Stopped(s) \in Link
  BY StoppedKeepsLeg DEF LinkOK
<1>2. \A s \in Servers : link'[s] = Stopped(s)
  BY DEF ResetStates
<1>3. link' \in [Servers -> Link]
  BY <1>1 DEF ResetStates
<1>4. leaf' \in [Servers -> [status : LeafStatus, timed : BOOLEAN]]
  BY DEF ResetStates, LegsInv, LinkInv, LeafStatus
<1>5. \A s \in Servers : LinkOK(link'[s])
  BY <1>1, <1>2
<1>6. \A s \in Servers : LinkOK(link[s])'
  BY <1>5 DEF LinkOK, Expects, LateMessages
<1>7. \A s \in TuperServers : LegOK(link'[s])
  BY <1>2, StoppedKeepsLeg, LegsAreServers
<1>8. QED
  BY <1>3, <1>4, <1>6, <1>7 DEF LegsInv, LinkInv, LegOK

\* A leg in hand lets go of its goal when it is stopped: the goal is cancelled,
\* if it executes, and was not accepted otherwise.
LEMMA StoppedLetsGo ==
  ASSUME LegsInv, NEW s \in TuperServers, InHand(link[s], leaf[s].status)
  PROVE  \A g \in Slots : Stopped(s).goals[g].stage = "EXECUTING"
                            => "cancel" \in Stopped(s).goals[g].transit
<1> DEFINE k == link[s]
<1>1. s \in Servers /\ k \in Link /\ LegOK(k)
  BY LegsAreServers DEF LegsInv, LinkInv
<1>2. CASE k.state \notin running_states /\ AllFree(k)
  <2>1. Stopped(s).goals = k.goals
    BY <1>1, <1>2 DEF Stopped, terminate, cancel_if_running, get_ready, Link
  <2>2. QED
    BY <1>2, <2>1 DEF AllFree, FreeGoal
<1>3. ASSUME NEW g \in Slots, WaitsFor(k, g), leaf[s].status = "RUNNING"
      PROVE  \A x \in Slots : Stopped(s).goals[x].stage = "EXECUTING"
                                => "cancel" \in Stopped(s).goals[x].transit
  <2>1. Stopped(s).goals = cancel_goal(k).goals
    BY <1>3 DEF Stopped, terminate, cancel_if_running, get_ready, WaitsFor
  <2>2. \A x \in Slots \ {g} : k.goals[x].stage = "free"
    BY <1>3 DEF WaitsFor, FreeGoal
  <2>3. k.goals[g].stage = "EXECUTING" => k.handle = g /\ g # NoSlot
    BY <1>1, <1>3, LinkAssumption DEF WaitsFor, LegOK
  <2>4. CASE k.handle = NoSlot
    BY <2>1, <2>2, <2>3, <2>4 DEF cancel_goal
  <2>5. CASE k.handle # NoSlot
    BY <1>1, <2>1, <2>2, <2>3, <2>5, CancelKeepsLeg
  <2>6. QED
    BY <2>4, <2>5
<1>4. QED
  BY <1>2, <1>3 DEF InHand

-----------------------------------------------------------------------------
(* What the legs go through. *)

\* What an answer leaves of the client, and of the goal it is about.
LEMMA AnswerKeepsLegs ==
  ASSUME LegsInv, NEW s \in TuperServers, NEW g \in Slots,
         NEW st \in ActionClientState, NEW h \in Slots \cup {NoSlot}, NEW goal \in Goal,
         Answers(s, g, st, h, goal),
         goal.transit = {}, goal.stage \notin Ended,
         h \in {NoSlot, g, link[s].handle}, h = g => goal.stage \in Underway,
         st \in running_states =>
           \/ goal.stage # "free"
           \/ link[s].state \in running_states /\ link[s].goals[g].stage = "free"
  PROVE  LegsInv'
<1>1. /\ link' = [link EXCEPT ![s] = [link[s] EXCEPT !.state = st, !.handle = h,
                      !.goals = [link[s].goals EXCEPT ![g] = goal]]]
      /\ UNCHANGED leaf
  <2>1. GoalMoves(s, g, st, h, goal) /\ s \in Servers
    BY LegsAreServers DEF Answers, GoalMoves
  <2>2. UNCHANGED leaf
    BY <2>1 DEF GoalMoves
  <2>3. LinkInv
    BY DEF LegsInv
  <2>4. link' = [link EXCEPT ![s] = Moved(link[s], g, st, h, goal)]
    BY <2>1, <2>3, OneClientMoves
  <2>5. QED
    BY <2>2, <2>4 DEF Moved
<1>2. "reject" \notin link[s].goals[g].transit
  BY DEF LegsInv, LegOK
<1>3. LinkInv'
  BY <1>1, <1>2, LegsAreServers, OneGoalChanges DEF LegsInv
<1>4. ASSUME NEW x \in TuperServers PROVE LegOK(link'[x])
  <2>1. link \in [Servers -> Link] /\ x \in Servers /\ LegOK(link[x]) /\ link[s] \in Link
    BY LegsAreServers DEF LegsInv, LinkInv
  <2>2. CASE x # s
    BY <1>1, <2>1, <2>2
  <2>3. CASE x = s
    <3>1. /\ link'[s].handle = h /\ link'[s].goals[g] = goal
          /\ \A i \in Slots \ {g} : link'[s].goals[i] = link[s].goals[i]
      BY <1>1, <2>1, <2>3 DEF Link
    <3>2. QED
      BY <2>1, <2>3, <3>1, LinkAssumption DEF LegOK
  <2>4. QED
    BY <2>2, <2>3
<1>5. QED
  BY <1>3, <1>4 DEF LegsInv, LegOK

\* A goal of a leg in hand is accepted, rejected or over: nobody has asked for it
\* to be cancelled.
LEMMA AnswerInHand ==
  ASSUME LegsInv, NEW s \in TuperServers, NEW g \in Slots,
         NEW st \in ActionClientState, NEW h, NEW goal, Answers(s, g, st, h, goal),
         link[s].goals[g].stage # "free",
         \/ st \notin running_states /\ goal = FreeGoal
         \/ st = "ACCEPTED" /\ goal = [stage |-> "EXECUTING", transit |-> {}] /\ h = g
         \/ "cancel" \in link[s].goals[g].transit,
         \A x \in TuperServers : InHand(link[x], leaf[x].status)
  PROVE  \A x \in TuperServers : InHand(link'[x], leaf'[x].status)
<1>1. s \in Servers /\ LinkInv /\ InHand(link[s], leaf[s].status)
  BY LegsAreServers DEF LegsInv
<1>2. WaitsFor(link[s], g) /\ leaf[s].status = "RUNNING"
  <2>1. link[s].goals[g] # FreeGoal
    BY DEF FreeGoal
  <2>2. QED
    BY <1>1, <2>1, GoalIsWaitedFor
<1>3. "cancel" \notin link[s].goals[g].transit
  BY <1>2 DEF WaitsFor
<1>4. GoalMoves(s, g, st, h, goal)
  BY DEF Answers, GoalMoves
<1>5. \A x \in Servers : x = s \/ InHand(link[x], leaf[x].status)
                       => InHand(link'[x], leaf'[x].status)
  <2>1. CASE st \notin running_states /\ goal = FreeGoal
    BY <1>1, <1>2, <1>4, <2>1, GoalInHand
  <2>2. CASE st = "ACCEPTED" /\ goal = [stage |-> "EXECUTING", transit |-> {}] /\ h = g
    <3>1. /\ goal.stage \in {"EXECUTING", "SUCCEEDED", "ABORTED"}
          /\ goal.transit \subseteq {"accept", "feedback"}
      BY <2>2
    <3>2. QED
      BY <1>1, <1>2, <1>4, <2>2, <3>1, GoalInHand
  <2>3. QED
    BY <1>3, <2>1, <2>2
<1>6. QED
  BY <1>5, LegsAreServers

LEMMA MoveToKeepsInv ==
  ASSUME TuperInv, MoveToAnswers PROVE TuperInv'
<1> DEFINE held == \A x \in TuperServers : InHand(link'[x], leaf'[x].status)
           hand == \A x \in TuperServers : InHand(link[x], leaf[x].status)
<1>1. PICK s \in TuperServers, g \in Slots :
        \/ AnswersGoal(s, g, FALSE) \/ AnswersGoal(s, g, TRUE)
        \/ AnswersCancel(s, g, link[s].goals[g].stage = "EXECUTING")
        \/ \E stage \in Ended : AnswersResult(s, g, stage)
  BY DEF MoveToAnswers
<1>2. /\ link[s].goals[g] \in Goal /\ link[s].state \in ActionClientState
      /\ link[s].handle \in Slots \cup {NoSlot}
      /\ LegsInv /\ LegOK(link[s]) /\ g # NoSlot
  BY LegsAreServers, LinkAssumption DEF TuperInv, LegsInv, LinkInv, Link
<1>3. FreeGoal \in Goal /\ FreeGoal.transit = {} /\ FreeGoal.stage = "free"
  BY DEF FreeGoal, Goal, GoalStages
<1>4. UNCHANGED <<mission, lingering, leaf>>
  BY <1>1 DEF MoveToAnswers, tuperVars, AnswersGoal, AnswersCancel, AnswersResult, Answers
<1>5. LegsInv' /\ (hand => held)
  <2>1. CASE AnswersGoal(s, g, FALSE)
    <3>1. Answers(s, g, "REJECTED", NoSlot, FreeGoal) /\ link[s].goals[g].stage = "requested"
      BY <2>1 DEF AnswersGoal
    <3>2. LegsInv'
      BY <1>2, <1>3, <3>1, AnswerKeepsLegs DEF ActionClientState, Ended
    <3>3. hand => held
      BY <1>2, <3>1, AnswerInHand DEF ActionClientState
    <3>4. QED
      BY <3>2, <3>3
  <2>2. CASE AnswersGoal(s, g, TRUE)
    <3> DEFINE new == [stage |-> "EXECUTING", transit |-> {}]
    <3>1. Answers(s, g, "ACCEPTED", g, new) /\ link[s].goals[g].stage = "requested"
      BY <2>2 DEF AnswersGoal
    <3>2. new \in Goal /\ new.transit = {} /\ new.stage = "EXECUTING"
      BY DEF Goal, GoalStages, Underway
    <3>3. hand => held
      BY <1>2, <3>1, AnswerInHand DEF ActionClientState
    <3> HIDE DEF new
    <3>4. LegsInv'
      BY <1>2, <3>1, <3>2, AnswerKeepsLegs DEF ActionClientState, Ended, Underway
    <3>5. QED
      BY <3>3, <3>4
  <2>3. CASE AnswersCancel(s, g, TRUE) /\ link[s].goals[g].stage = "EXECUTING"
    <3> DEFINE new == [stage |-> "CANCELING", transit |-> {}]
    <3>1. Answers(s, g, "CANCELLED", link[s].handle, new) /\ "cancel" \in link[s].goals[g].transit
      BY <2>3 DEF AnswersCancel
    <3>2. new \in Goal /\ new.transit = {} /\ new.stage = "CANCELING"
      BY DEF Goal, GoalStages, Underway
    <3> HIDE DEF new
    <3>3. LegsInv'
      BY <1>2, <3>1, <3>2, AnswerKeepsLegs DEF ActionClientState, Ended, Underway
    <3>4. hand => held
      BY <1>2, <2>3, <3>1, AnswerInHand DEF ActionClientState
    <3>5. QED
      BY <3>3, <3>4
  <2>4. CASE AnswersCancel(s, g, FALSE) /\ link[s].goals[g].stage # "EXECUTING"
    <3> DEFINE goal == link[s].goals[g]
               new  == [goal EXCEPT !.transit = {}]
    <3>1. Answers(s, g, link[s].state, link[s].handle, new) /\ "cancel" \in goal.transit
      BY <2>4 DEF AnswersCancel
    <3>2. goal.stage \in Underway
      BY <1>2, <3>1 DEF LegOK
    <3>3. new \in Goal /\ new.transit = {} /\ new.stage = goal.stage
      BY <1>2 DEF Goal
    <3> HIDE DEF new
    <3>4. LegsInv'
      BY <1>2, <3>1, <3>2, <3>3, AnswerKeepsLegs DEF Ended, Underway
    <3>5. hand => held
      BY <1>2, <3>1, <3>2, AnswerInHand DEF Underway
    <3>6. QED
      BY <3>4, <3>5
  <2>5. ASSUME NEW stage \in Ended, AnswersResult(s, g, stage) PROVE LegsInv' /\ (hand => held)
    <3> DEFINE h == IF link[s].handle = g THEN NoSlot ELSE link[s].handle
    <3>1. /\ Answers(s, g, ResultState(stage), h, FreeGoal)
          /\ link[s].goals[g].stage \in Underway
          /\ h \in {NoSlot, link[s].handle} /\ h # g /\ h \in Slots \cup {NoSlot}
      BY <1>2, <2>5 DEF AnswersResult
    <3>2. ResultState(stage) \in ActionClientState \ running_states
      BY DEF ResultState, Ended, ActionClientState
    <3> HIDE DEF h
    <3>3. LegsInv'
      BY <1>2, <1>3, <3>1, <3>2, AnswerKeepsLegs DEF Ended
    <3>4. hand => held
      BY <1>2, <3>1, <3>2, AnswerInHand DEF Underway
    <3>5. QED
      BY <3>3, <3>4
  <2>6. QED
    BY <1>1, <2>1, <2>2, <2>3, <2>4, <2>5
<1>6. (\A x \in TuperServers : InHand(link[x], leaf[x].status))' <=> held
  BY DEF InHand, AllFree, WaitsFor
<1>7. QED
  BY <1>4, <1>5, <1>6 DEF TuperInv

\* What update comes to, in each state that a client can be in.
LEMMA LegOutcomes ==
  ASSUME NEW k \in Link
  PROVE  /\ LeafUpdate(k) \in {"recover", "send", "wait", "fail", "succeed"}
         /\ LeafUpdate(k) = "wait" <=> k.state \in running_states
<1>1. CASE k.state = "CANCELLED"
  BY <1>1 DEF LeafUpdate
<1>2. CASE k.state = "READY"
  BY <1>2 DEF LeafUpdate
<1>3. CASE k.state \in running_states
  BY <1>3 DEF LeafUpdate
<1>4. CASE k.state \in failure_states \ {"CANCELLED"}
  BY <1>4 DEF LeafUpdate
<1>5. CASE k.state \in success_states
  BY <1>5 DEF LeafUpdate
<1>6. QED
  BY <1>1, <1>2, <1>3, <1>4, <1>5 DEF ActionClientState, Link

LEMMA UpdateKeepsLeg ==
  ASSUME NEW k \in Link, LegOK(k), NEW g \in Slots,
         NEW o \in {"recover", "send", "wait", "fail", "succeed"}, o = "send" => Unused(k, g)
  PROVE  LegOK(AfterUpdate(k, o, g))
<1>1. k.goals \in [Slots -> Goal]
  BY DEF Link
<1>2. CASE o = "send"
  <2> DEFINE new == [stage |-> "requested", transit |-> {}]
             c == send_goal(k, g)
  <2>1. c = [k EXCEPT !.state = "SENT", !.goals = [k.goals EXCEPT ![g] = new]]
    BY <1>1 DEF send_goal, Link
  <2>2. /\ c.handle = k.handle /\ c.goals[g] = new
        /\ \A i \in Slots \ {g} : c.goals[i] = k.goals[i]
    BY <1>1, <2>1 DEF Link
  <2>3. k.handle # g
    BY <1>2 DEF Unused
  <2> HIDE DEF c
  <2>4. LegOK(c)
    BY <2>2, <2>3 DEF LegOK, Ended
  <2>5. QED
    BY <1>2, <2>4 DEF AfterUpdate, c
<1>3. CASE o = "recover"
  BY <1>3 DEF AfterUpdate, get_ready, LegOK, Link
<1>4. CASE o = "wait"
  BY <1>4 DEF AfterUpdate
<1>5. CASE o \in {"fail", "succeed"}
  BY <1>5, TerminateKeepsLeg DEF AfterUpdate
<1>6. QED
  BY <1>2, <1>3, <1>4, <1>5

LEMMA VisitKeepsInv ==
  ASSUME TuperInv, VisitLeg PROVE TuperInv'
<1> DEFINE s == Leg(visiting)
           k == EnterClient(link[s], leaf[s])
           o == LeafUpdate(k)
<1>1. s \in TuperServers /\ UNCHANGED <<mission, lingering>>
  BY DEF VisitLeg, TuperServers
<1>2. PICK g \in Slots :
        /\ o = "send" => Unused(k, g)
        /\ link' = [link EXCEPT ![s] = AfterUpdate(k, o, g)]
  BY DEF VisitLeg
<1>3. leaf' = [leaf EXCEPT ![s].status = OutcomeStatus(o)]
  BY DEF VisitLeg
<1> HIDE DEF s
<1>4. /\ LegsInv /\ LinkInv /\ s \in Servers /\ LegOK(link[s]) /\ LinkOK(link[s])
      /\ link[s] \in Link /\ leaf[s] \in [status : LeafStatus, timed : BOOLEAN]
  BY <1>1, LegsAreServers DEF TuperInv, LegsInv, LinkInv
<1>5. LinkOK(k) /\ LegOK(k) /\ k \in Link
  BY <1>4, CancelIfRunningOK, TerminateKeepsLeg DEF EnterClient, LinkOK
<1>6. /\ o \in {"recover", "send", "wait", "fail", "succeed"}
      /\ o = "wait" <=> k.state \in running_states
  <2> HIDE DEF k
  <2>1. QED
    BY <1>5, LegOutcomes
<1>7. InHand(link[s], leaf[s].status) => k = link[s]
  BY <1>4 DEF EnterClient, cancel_if_running, InHand
<1> HIDE DEF k, o
<1> DEFINE n == AfterUpdate(k, o, g)
<1>8. LinkOK(n) /\ LegOK(n) /\ OutcomeStatus(o) \in LeafStatus
  <2>1. OutcomeStatus(o) \in LeafStatus
    BY <1>6 DEF OutcomeStatus, LeafStatus
  <2>2. LinkOK(n)
    BY <1>2, <1>5, <1>6, AfterUpdateOK
  <2>3. LegOK(n)
    BY <1>2, <1>5, <1>6, UpdateKeepsLeg
  <2>4. QED
    BY <2>1, <2>2, <2>3
<1> DEFINE z == [leaf[s] EXCEPT !.status = OutcomeStatus(o)]
<1>9. leaf' = [leaf EXCEPT ![s] = z] /\ z.status = OutcomeStatus(o)
      /\ z \in [status : LeafStatus, timed : BOOLEAN]
  BY <1>3, <1>4, <1>8 DEF LinkInv
<1>10. InHand(link[s], leaf[s].status) => InHand(n, z.status)
  BY <1>5, <1>6, <1>7, <1>9, UpdateInHand
<1>11. link' = [link EXCEPT ![s] = n]
  BY <1>2
<1> HIDE DEF n, z
<1>12. LegsInv'
  <2>1. leaf' \in [Servers -> [status : LeafStatus, timed : BOOLEAN]]
    BY <1>4, <1>9 DEF LinkInv
  <2>2. LinkInv'
    BY <1>4, <1>8, <1>11, <2>1, OneLinkChanges
  <2>3. \A x \in TuperServers : LegOK(link'[x])
    BY <1>4, <1>8, <1>11, LegsAreServers DEF LinkInv, LegsInv
  <2>4. QED
    BY <2>2, <2>3 DEF LegsInv, LegOK
<1>13. ASSUME \A x \in TuperServers : InHand(link[x], leaf[x].status)
       PROVE  \A x \in TuperServers : InHand(link'[x], leaf'[x].status)
  <2>1. InHand(n, z.status)
    BY <1>1, <1>10, <1>13
  <2>2. \A x \in Servers : x = s \/ InHand(link[x], leaf[x].status)
                         => InHand(link'[x], leaf'[x].status)
    BY <1>4, <1>9, <1>11, <2>1, OneInHand
  <2>3. QED
    BY <1>13, <2>2, LegsAreServers
<1>14. (\A x \in TuperServers : InHand(link[x], leaf[x].status))'
         <=> \A x \in TuperServers : InHand(link'[x], leaf'[x].status)
  BY DEF InHand, AllFree, WaitsFor
<1>15. QED
  BY <1>1, <1>12, <1>13, <1>14 DEF TuperInv

\* A mission that starts with no goal of an earlier one under way has both its
\* clients free.
LEMMA PrepareKeepsInv ==
  ASSUME TuperInv, PrepareTuper PROVE TuperInv'
<1>1. ResetStates /\ lingering' = (Lingering # {}) /\ LegsInv
  BY DEF PrepareTuper, TuperInv
<1>2. LegsInv'
  BY <1>1, ResetKeepsLegs
<1>3. ASSUME Lingering = {}, NEW s \in TuperServers
      PROVE  InHand(link'[s], leaf'[s].status)
  <2>1. LinkOK(link[s]) /\ link[s] \in Link /\ LegOK(link[s]) /\ s \in Servers
    BY <1>1, LegsAreServers DEF LegsInv, LinkInv
  <2>2. \A g \in Slots : link[s].goals[g].stage = "free" /\ link[s].goals[g].transit = {}
    <3> SUFFICES ASSUME NEW g \in Slots
                 PROVE  link[s].goals[g].stage = "free" /\ link[s].goals[g].transit = {}
      OBVIOUS
    <3>1. <<s, g>> \in TuperServers \X Slots /\ <<s, g>> \notin Lingering
      BY <1>3
    <3>2. link[s].goals[g].stage = "free"
      BY <3>1 DEF Lingering
    <3>3. QED
      BY <2>1, <3>2 DEF LegOK, Underway
  <2>3. AllFree(link[s])
    BY <2>1, <2>2 DEF AllFree, FreeGoal, Link, Goal
  <2>4. link[s].state \notin running_states
    BY <2>1, <2>2 DEF LinkOK, Expects
  <2>5. Stopped(s) \in {link[s], get_ready(link[s])}
    BY <2>4 DEF Stopped, terminate, cancel_if_running
  <2>6. AllFree(Stopped(s)) /\ Stopped(s).state \notin running_states
    BY <2>1, <2>3, <2>4, <2>5, ReadyIsFree
  <2>7. link'[s] = Stopped(s)
    BY <1>1, <2>1 DEF ResetStates
  <2>8. QED
    BY <2>6, <2>7 DEF InHand
<1>4. (\A x \in TuperServers : InHand(link[x], leaf[x].status))'
         <=> \A x \in TuperServers : InHand(link'[x], leaf'[x].status)
  BY DEF InHand, AllFree, WaitsFor
<1>5. QED
  BY <1>1, <1>2, <1>3, <1>4 DEF TuperInv

\* A step that leaves the links alone keeps the invariant, unless a mission
\* starts; so does one that resets, and then no mission runs.
LEMMA SameLegs ==
  ASSUME TuperInv, UNCHANGED linkVars,
         mission' # "running" \/ UNCHANGED <<mission, lingering>>
  PROVE  TuperInv'
<1>1. LegsInv'
  BY DEF linkVars, TuperInv, LegsInv, LinkInv, LinkOK, Expects, LateMessages, LegOK
<1>2. (\A x \in TuperServers : InHand(link[x], leaf[x].status))'
        <=> \A x \in TuperServers : InHand(link[x], leaf[x].status)
  BY DEF linkVars, InHand, AllFree, WaitsFor
<1>3. QED
  BY <1>1, <1>2 DEF TuperInv

LEMMA ResetEndsLegs ==
  ASSUME TuperInv, ResetStates, mission' # "running" PROVE TuperInv'
  BY ResetKeepsLegs DEF TuperInv

LEMMA TuperInitInv ==
  ASSUME LinkInit PROVE LegsInv
<1>1. LinkInv
  BY InitInv
<1>2. \A s \in TuperServers : LegOK(link[s])
  BY LegsAreServers, LinkAssumption DEF LinkInit, FreshLink, FreeGoal, LegOK, Ended
<1>3. QED
  BY <1>1, <1>2 DEF LegsInv

LEMMA TuperStep ==
  ASSUME TuperInv, [TuperNext]_<<linkVars, mission, tuperVars>> PROVE TuperInv'
<1>1. CASE UNCHANGED <<linkVars, mission, tuperVars>>
  BY <1>1, SameLegs DEF tuperVars
<1>2. ASSUME NEW valid \in BOOLEAN, ReceiveTuper(valid) PROVE TuperInv'
  <2>1. ResetStates /\ mission' # "running"
    BY <1>2 DEF ReceiveTuper, MissionRequested, Over
  <2>2. QED
    BY <2>1, ResetEndsLegs
<1>3. CASE CancelTuper \/ OutOfTime
  <2>1. ResetStates /\ mission' # "running"
    BY <1>3 DEF CancelTuper, OutOfTime, MissionReset
  <2>2. QED
    BY <2>1, ResetEndsLegs
<1>4. CASE CancelingTuper \/ LoopCanceled
  BY <1>4, SameLegs DEF CancelingTuper, LoopCanceled, MissionCanceling
<1>5. CASE Elapse
  BY <1>5, SameLegs DEF Elapse
<1>6. CASE LoopRaises
  BY <1>6, SameLegs DEF LoopRaises, RaisedStage
<1>7. CASE StartTick
  <2>1. LoopRaises \/ UNCHANGED <<linkVars, mission, lingering>>
    BY <1>7 DEF StartTick
  <2>2. QED
    BY <1>6, <2>1, SameLegs
<1>8. CASE AfterTick
  <2>1. \/ ResetStates /\ mission' # "running"
        \/ UNCHANGED <<linkVars, mission, lingering>>
    BY <1>8 DEF AfterTick
  <2>2. QED
    BY <2>1, ResetEndsLegs, SameLegs
<1>9. CASE LookAround \/ Command \/ Publish \/ Exit
  <2>1. UNCHANGED <<linkVars, mission, lingering>>
    BY <1>9 DEF LookAround, Command, Publish, Exit, Goes, Finishes
  <2>2. QED
    BY <2>1, SameLegs
<1>10. CASE ReadGoal
  <2>1. LoopRaises \/ UNCHANGED <<linkVars, mission, lingering>>
    BY <1>10 DEF ReadGoal, Goes
  <2>2. QED
    BY <1>6, <2>1, SameLegs
<1>11. QED
  BY <1>1, <1>2, <1>3, <1>4, <1>5, <1>7, <1>8, <1>9, <1>10, PrepareKeepsInv, VisitKeepsInv,
     MoveToKeepsInv DEF TuperNext, TuperLoop
-----------------------------------------------------------------------------
(* The theorems about the TUPER mission. *)

THEOREM TuperInvHolds == TuperSafety => []TuperInv
<1>1. LinkInit /\ mission = "none" => TuperInv
  BY TuperInitInv DEF TuperInv
<1>2. TuperInv /\ [TuperNext]_<<linkVars, mission, tuperVars>> => TuperInv'
  BY TuperStep
<1>3. QED
  BY <1>1, <1>2, PTL DEF TuperSafety

\* A TUPER mission that succeeds or aborts leaves the vehicle without a goal; and the
\* goals of its legs are over or asked to be cancelled, unless it was being cancelled,
\* or an earlier mission's goals were in the way: whenever its time runs out, and
\* however long the server of the legs takes to answer.  It says nothing of a mission
\* that ends cancelled: that one may leave the vehicle a goal.
THEOREM FinishedTuperLetsGo == TuperSafety => FinishedMissionLetsGo
<1> DEFINE ends == mission' \in {"succeeded", "aborted"} /\ mission \in InLoop
<1>1. ASSUME TuperInv, TuperNext, ends
      PROVE  ~course' /\ (mission = "running" /\ ~lingering => LegsAskedToStop')
  <2>1. ResetStates
    <3>1. OutOfTime \/ AfterTick
      <4>1. ~((\E valid \in BOOLEAN : ReceiveTuper(valid)) \/ PrepareTuper \/ CancelTuper
                \/ CancelingTuper)
        BY <1>1 DEF ReceiveTuper, MissionRequested, PrepareTuper, MissionStarts, CancelTuper,
                    MissionReset, CancelingTuper, MissionCanceling, InLoop, Over
      <4>2. ~(LoopCanceled \/ LoopRaises)
        BY <1>1 DEF LoopCanceled, LoopRaises, RaisedStage, InLoop
      <4>3. mission' # mission
        BY <1>1 DEF InLoop
      <4>4. ~Elapse /\ ~VisitLeg
        BY <4>3 DEF Elapse, VisitLeg
      <4>5. ~StartTick /\ ~ReadGoal
        BY <4>2, <4>3 DEF StartTick, ReadGoal, Goes
      <4>6. ~(LookAround \/ Command \/ Publish \/ Exit)
        BY <4>3 DEF LookAround, Command, Publish, Exit, Goes, Finishes
      <4>7. ~MoveToAnswers
        <5>1. \A s, g, st, h, goal : Answers(s, g, st, h, goal) => mission' = mission
          BY DEF Answers
        <5>2. \A s, g : AnswersGoal(s, g, TRUE) \/ AnswersGoal(s, g, FALSE) => mission' = mission
          BY <5>1 DEF AnswersGoal
        <5>3. \A s, g : \A granted \in BOOLEAN : AnswersCancel(s, g, granted) => mission' = mission
          BY <5>1 DEF AnswersCancel
        <5>4. \A s, g, stage : AnswersResult(s, g, stage) => mission' = mission
          BY <5>1 DEF AnswersResult
        <5>5. QED
          BY <4>3, <5>2, <5>3, <5>4 DEF MoveToAnswers
      <4>8. QED
        BY <1>1, <4>1, <4>2, <4>4, <4>5, <4>6, <4>7 DEF TuperNext, TuperLoop
    <3>2. QED
      BY <1>1, <3>1 DEF OutOfTime, AfterTick, InLoop
  <2>2. ASSUME mission = "running", ~lingering PROVE LegsAskedToStop'
    <3>1. \A s \in TuperServers : link'[s] = Stopped(s)
      BY <2>1, LegsAreServers DEF ResetStates
    <3>2. \A s \in TuperServers, g \in Slots :
            link'[s].goals[g].stage = "EXECUTING" => "cancel" \in link'[s].goals[g].transit
      BY <1>1, <2>2, <3>1, StoppedLetsGo DEF TuperInv
    <3>3. QED
      BY <3>2 DEF LegsAskedToStop
  <2>3. QED
    BY <2>1, <2>2 DEF ResetStates
<1>2. TuperInv /\ [TuperNext]_<<linkVars, mission, tuperVars>>
        => [ends => ~course' /\ (mission = "running" /\ ~lingering => LegsAskedToStop')
           ]_<<linkVars, mission, tuperVars>>
  BY <1>1
<1>3. QED
  BY <1>2, TuperInvHolds, PTL DEF TuperSafety, FinishedMissionLetsGo

-----------------------------------------------------------------------------
(* Who drives. *)

\* The phases go one way: what a phase between the legs finds is that the leg before
\* it is over, and the leg after it was not sent.  A goal of the vehicle is that of
\* such a phase, also between two ticks.
DriverInv ==
  /\ mission \notin InLoop \cup {"canceling"} => at = "idle"
  /\ mission = "running" =>
       /\ at \notin {"idle", "after"} => visiting = current
       /\ at \in {"command", "publish", "read", "exit"} => visiting \in Controls
       /\ at = "idle" /\ root # "RUNNING" => current = "none"
       /\ at = "after" => root \in {"RUNNING", "SUCCESS", "FAILURE"}
       /\ course => current \in Controls
       /\ ~lingering => /\ current # "return" => AllFree(link["surface_and_return"])
                        /\ current \in Controls => AllFree(link["go_to_start"])

\* The server has nothing to answer for a client that is free.
LEMMA FreeStaysFree ==
  ASSUME LegsInv, MoveToAnswers, NEW s \in TuperServers, AllFree(link[s])
  PROVE  AllFree(link'[s])
<1>1. PICK x \in TuperServers, g \in Slots :
        \/ AnswersGoal(x, g, FALSE) \/ AnswersGoal(x, g, TRUE)
        \/ AnswersCancel(x, g, link[x].goals[g].stage = "EXECUTING")
        \/ \E stage \in Ended : AnswersResult(x, g, stage)
  BY DEF MoveToAnswers
<1>2. link[x].goals[g] # FreeGoal
  BY <1>1 DEF AnswersGoal, AnswersCancel, AnswersResult, FreeGoal, Underway
<1>3. x # s
  BY <1>2 DEF AllFree
<1>4. \A st, h, goal : Answers(x, g, st, h, goal) => link'[s] = link[s]
  BY <1>3, LegsAreServers DEF Answers, LegsInv, LinkInv
<1>5. link'[s] = link[s]
  BY <1>1, <1>4 DEF AnswersGoal, AnswersCancel, AnswersResult
<1>6. QED
  BY <1>5

\* A leg that succeeds leaves its client free.
LEMMA LegLeavesFree ==
  ASSUME TuperInv, VisitLeg, visiting = "start", mission = "running", ~lingering
  PROVE  /\ link'["surface_and_return"] = link["surface_and_return"]
         /\ leaf'["go_to_start"].status # "RUNNING" => AllFree(link'["go_to_start"])
<1> DEFINE s == "go_to_start"
<1>1. TuperInv' /\ UNCHANGED <<mission, lingering>>
  BY VisitKeepsInv DEF VisitLeg
<1>2. s \in TuperServers /\ "surface_and_return" \in Servers
  BY LegsAreServers DEF TuperServers, Leg, Legs, Phases, Controls
<1>3. InHand(link'[s], leaf'[s].status)
  BY <1>1, <1>2 DEF TuperInv, InHand, AllFree, WaitsFor
<1>4. link'["surface_and_return"] = link["surface_and_return"]
  <2>1. link \in [Servers -> Link]
    BY DEF TuperInv, LegsInv, LinkInv
  <2>2. QED
    BY <1>2, <2>1 DEF VisitLeg, Leg
<1>5. QED
  BY <1>3, <1>4 DEF InHand

LEMMA VisitKeepsDriver ==
  ASSUME TuperInv, DriverInv, VisitLeg PROVE DriverInv'
<1>1. UNCHANGED <<mission, lingering, course>> /\ at = "visit" /\ visiting \in Legs
  BY DEF VisitLeg, At
<1>2. mission \in InLoop \cup {"canceling"}
  BY <1>1 DEF DriverInv
<1> SUFFICES ASSUME mission = "running" PROVE DriverInv'
  BY <1>1, <1>2 DEF DriverInv
<1>3. visiting = current /\ ~course
  BY <1>1 DEF DriverInv, Controls
<1> DEFINE o == LeafUpdate(EnterClient(link[Leg(visiting)], leaf[Leg(visiting)]))
<1>4. Comes(OutcomeStatus(o)) /\ leaf' = [leaf EXCEPT ![Leg(visiting)].status = OutcomeStatus(o)]
  BY DEF VisitLeg
<1>5. OutcomeStatus(o) \in {"RUNNING", "SUCCESS", "FAILURE"}
  <2>1. Leg(visiting) \in TuperServers
    BY <1>1 DEF TuperServers
  <2>2. EnterClient(link[Leg(visiting)], leaf[Leg(visiting)]) \in Link
    BY <2>1, LegsAreServers, CancelIfRunningOK DEF EnterClient, TuperInv, LegsInv, LinkInv, LinkOK
  <2>3. o \in {"recover", "send", "wait", "fail", "succeed"}
    BY <2>2, LegOutcomes
  <2>4. QED
    BY <2>3 DEF OutcomeStatus
<1> HIDE DEF o
<1>6. CASE OutcomeStatus(o) = "SUCCESS" /\ visiting # "return"
  <2>1. visiting = "start" /\ current' = "follow" /\ visiting' = "follow" /\ at' = "visit"
    BY <1>1, <1>4, <1>6 DEF Comes, Next_, Legs, Phases, Controls
  <2>2. leaf'["go_to_start"].status = "SUCCESS"
    BY <1>4, <1>6, <2>1, LegsAreServers
    DEF Leg, TuperServers, Legs, Phases, Controls, TuperInv, LegsInv, LinkInv
  <2>3. ~lingering => AllFree(link'["go_to_start"]) /\ AllFree(link'["surface_and_return"])
    BY <1>3, <2>1, <2>2, LegLeavesFree DEF DriverInv
  <2>4. QED
    BY <1>1, <1>3, <2>1, <2>3 DEF DriverInv, Controls, AllFree
<1>7. CASE ~(OutcomeStatus(o) = "SUCCESS" /\ visiting # "return")
  <2>1. root' = OutcomeStatus(o) /\ at' = "after" /\ current' = current
    BY <1>4, <1>7 DEF Comes, TickOver
  <2>2. ~lingering /\ current # "return" => AllFree(link'["surface_and_return"])
    BY <1>1, <1>3, LegLeavesFree DEF DriverInv, Legs, Phases, Controls
  <2>3. current \notin Controls
    BY <1>1, <1>3 DEF Controls
  <2>4. QED
    BY <1>1, <1>2, <1>3, <1>5, <2>1, <2>2, <2>3 DEF DriverInv, AllFree
<1>8. QED
  BY <1>6, <1>7

\* A phase between the legs, and what is over with it.
LEMMA FinishKeepsDriver ==
  ASSUME DriverInv, at \notin {"idle", "after"}, visiting \in Controls,
         NEW status \in {"RUNNING", "SUCCESS", "FAILURE"}, NEW found, Finishes(status, found)
  PROVE  DriverInv'
<1>1. UNCHANGED <<link, mission, lingering>> /\ (status = "RUNNING" => course' = course)
      /\ (status # "RUNNING" => course' = FALSE)
  BY DEF Finishes, linkVars
<1>2. mission \in InLoop \cup {"canceling"}
  BY DEF DriverInv
<1> SUFFICES ASSUME mission = "running" PROVE DriverInv'
  BY <1>1, <1>2 DEF DriverInv
<1>3. visiting = current
  BY DEF DriverInv
<1>4. \/ /\ status = "SUCCESS" /\ at' = "visit" /\ visiting' = current'
         /\ current' \in {"settle", "return"}
      \/ status # "SUCCESS" /\ at' = "after" /\ root' = status /\ current' = current
  BY DEF Finishes, Comes, TickOver, Next_, Controls, Phases, Legs
<1>5. QED
  BY <1>1, <1>3, <1>4 DEF DriverInv, Controls, Phases, Legs, AllFree

LEMMA PrepareKeepsDriver ==
  ASSUME TuperInv, DriverInv, PrepareTuper PROVE DriverInv'
<1>1. TuperInv' /\ mission' = "running" /\ ResetStates /\ at' = at /\ at = "idle"
  BY PrepareKeepsInv DEF PrepareTuper, MissionStarts, DriverInv, InLoop, loopVars
<1>2. ASSUME ~lingering', NEW s \in TuperServers PROVE AllFree(link'[s])
  <2>1. InHand(link'[s], leaf'[s].status)
    BY <1>1, <1>2 DEF TuperInv, InHand, AllFree, WaitsFor
  <2>2. leaf'[s].status = "INVALID"
    BY <1>1, LegsAreServers DEF ResetStates, TuperInv, LegsInv, LinkInv
  <2>3. QED
    BY <2>1, <2>2 DEF InHand
<1>3. {"go_to_start", "surface_and_return"} \subseteq TuperServers
  BY DEF TuperServers, Leg, Legs, Phases, Controls
<1>4. QED
  BY <1>1, <1>2, <1>3 DEF DriverInv, ResetStates, AllFree, Controls, Phases, Legs

LEMMA DriverStep ==
  ASSUME TuperInv, DriverInv, [TuperNext]_<<linkVars, mission, tuperVars>> PROVE DriverInv'
<1> USE DEF At
<1>1. CASE UNCHANGED <<linkVars, mission, tuperVars>>
  BY <1>1 DEF DriverInv, linkVars, tuperVars, treeVars, loopVars, AllFree
<1>2. ASSUME \/ \E valid \in BOOLEAN : ReceiveTuper(valid)
             \/ CancelTuper \/ CancelingTuper \/ LoopCanceled \/ OutOfTime
      PROVE  DriverInv'
  <2>1. mission' # "running" /\ at' = at /\ (at = "idle" \/ mission' \in InLoop \cup {"canceling"})
    BY <1>2 DEF ReceiveTuper, CancelTuper, CancelingTuper, LoopCanceled, OutOfTime,
                MissionRequested, MissionReset, MissionCanceling, DriverInv, InLoop, Over,
                tuperVars, loopVars
  <2>2. QED
    BY <2>1 DEF DriverInv
<1>3. CASE LoopRaises
  <2>1. mission' # "running" /\ at' = "idle"
    BY <1>3 DEF LoopRaises, RaisedStage, TickOver
  <2>2. QED
    BY <2>1 DEF DriverInv
<1>4. CASE Elapse
  BY <1>4 DEF Elapse, DriverInv, linkVars, treeVars, loopVars, AllFree
<1>5. CASE StartTick /\ ~LoopRaises
  <2>1. /\ UNCHANGED <<link, mission, root, course, lingering>>
        /\ mission \in InLoop /\ at = "idle" /\ at' = "visit"
        /\ current' = (IF root = "RUNNING" THEN current ELSE "start") /\ visiting' = current'
    BY <1>5 DEF StartTick, linkVars
  <2>2. QED
    BY <2>1 DEF DriverInv, Controls, Phases, Legs, AllFree
<1>6. CASE AfterTick
  <2>1. /\ at = "after" /\ at' = "idle"
        /\ \/ mission' # "running"
           \/ /\ root \notin {"SUCCESS", "FAILURE"}
              /\ UNCHANGED <<link, mission, root, current, course, lingering>>
    BY <1>6 DEF AfterTick, TickOver, linkVars, treeVars
  <2>2. QED
    BY <2>1 DEF DriverInv, AllFree
<1>7. CASE LookAround \/ Exit
  <2>1. /\ at \in {"visit", "exit"} /\ (at = "visit" => visiting \in Controls)
        /\ \/ \E status \in {"RUNNING", "SUCCESS", "FAILURE"}, found \in BOOLEAN \cup {ever_ukf_ready} :
                Finishes(status, found)
           \/ Goes("command") /\ UNCHANGED course
    BY <1>7 DEF LookAround, Exit
  <2>2. CASE visiting \in Controls
    <3>1. CASE Goes("command") /\ UNCHANGED course
      BY <2>1, <2>2, <3>1 DEF Goes, DriverInv, linkVars, AllFree
    <3>2. QED
      BY <2>1, <2>2, <3>1, FinishKeepsDriver
  <2>3. CASE visiting \notin Controls
    <3>1. mission \in {"reset", "canceling"}
      BY <2>1, <2>3 DEF DriverInv, InLoop
    <3>2. mission' = mission
      BY <2>1 DEF Finishes, Goes
    <3>3. QED
      BY <3>1, <3>2 DEF DriverInv, InLoop
  <2>4. QED
    BY <2>2, <2>3
<1>8. CASE Command \/ Publish \/ (ReadGoal /\ ~LoopRaises)
  <2>1. /\ at \in {"command", "publish", "read"} /\ at' \in {"publish", "read", "exit"}
        /\ UNCHANGED <<link, mission, root, current, visiting, lingering>>
    BY <1>8 DEF Command, Publish, ReadGoal, Goes, linkVars
  <2>2. QED
    BY <2>1 DEF DriverInv, AllFree
<1>9. CASE MoveToAnswers
  <2>1. UNCHANGED <<mission, tuperVars>>
    <3>1. \A s, g, st, h, goal : Answers(s, g, st, h, goal) => UNCHANGED mission
      BY DEF Answers
    <3>2. QED
      BY <1>9, <3>1 DEF MoveToAnswers, AnswersGoal, AnswersCancel, AnswersResult
  <2>2. {"go_to_start", "surface_and_return"} \subseteq TuperServers
    BY DEF TuperServers, Leg, Legs, Phases, Controls
  <2>3. \A s \in TuperServers : AllFree(link[s]) => AllFree(link'[s])
    BY <1>9, FreeStaysFree DEF TuperInv
  <2>4. QED
    BY <2>1, <2>2, <2>3 DEF DriverInv, tuperVars, treeVars, loopVars, AllFree
<1>10. QED
  BY <1>1, <1>2, <1>3, <1>4, <1>5, <1>6, <1>7, <1>8, <1>9, PrepareKeepsDriver, VisitKeepsDriver
  DEF TuperNext, TuperLoop

\* While a TUPER mission runs that nothing has cancelled, and that found no goal of an
\* earlier one in its way, the vehicle has a goal only while no leg's goal is under
\* way, for any slots, and whatever the server of the legs answers and when.
THEOREM OneDriverAtATime == TuperSafety => []OneDriver
<1>1. LinkInit /\ mission = "none" /\ TuperInit => TuperInv /\ DriverInv
  BY TuperInitInv DEF TuperInv, TuperInit, DriverInv
<1>2. TuperInv /\ DriverInv /\ [TuperNext]_<<linkVars, mission, tuperVars>> => TuperInv' /\ DriverInv'
  BY TuperStep, DriverStep
<1>3. DriverInv => OneDriver
  <2> SUFFICES ASSUME DriverInv, mission = "running", ~lingering, course,
                      NEW s \in TuperServers, NEW g \in Slots
               PROVE  link[s].goals[g].stage = "free"
    BY DEF OneDriver
  <2>1. current \in Controls /\ current # "return"
    BY DEF DriverInv, Controls, Legs
  <2>2. s \in {"go_to_start", "surface_and_return"}
    BY DEF TuperServers, Leg
  <2>3. QED
    BY <2>1, <2>2 DEF DriverInv, AllFree, FreeGoal
<1>4. QED
  BY <1>1, <1>2, <1>3, PTL DEF TuperSafety

-----------------------------------------------------------------------------
(* The stop detector. *)

\* A set of naturals has a least one, and one that is bounded a greatest.
LEMMA LeastNatural ==
  ASSUME NEW T, T \subseteq Nat, T # {}
  PROVE  \E x \in T : \A y \in T : x <= y
<1> DEFINE R == {p \in Nat \X Nat : p[1] < p[2]}
<1>1. IsWellFoundedOn(R, Nat)
  BY NatLessThanWellFounded DEF OpToRel
<1> HIDE DEF R
<1>2. PICK x \in T : \A y \in T : <<y, x>> \notin R
  BY <1>1, WFMin
<1>3. ASSUME NEW y \in T PROVE x <= y
  <2>1. x \in Nat /\ y \in Nat /\ <<y, x>> \notin R
    BY <1>2
  <2>2. ~ (y < x)
    BY <2>1 DEF R
  <2>3. QED
    BY <2>1, <2>2
<1>4. QED
  BY <1>3

\* By the distances to the bound, of which there is a least.
LEMMA GreatestNatural ==
  ASSUME NEW n \in Nat, NEW T, T \subseteq 0..n, T # {}
  PROVE  \E x \in T : \A y \in T : y <= x
<1> DEFINE U == {n - x : x \in T}
<1>1. U \subseteq Nat /\ U # {}
  <2>1. \A x \in T : x \in 0..n /\ n - x \in Nat
    OBVIOUS
  <2>2. U # {}
    <3>1. PICK x \in T : TRUE
      OBVIOUS
    <3>2. n - x \in U
      OBVIOUS
    <3>3. QED
      BY <3>2
  <2>3. QED
    BY <2>1, <2>2
<1>2. PICK m \in U : \A y \in U : m <= y
  <2> HIDE DEF U
  <2>1. QED
    BY <1>1, LeastNatural
<1>3. PICK x \in T : m = n - x
  OBVIOUS
<1>4. ASSUME NEW y \in T PROVE y <= x
  <2>1. n - x <= n - y
    BY <1>2, <1>3
  <2>2. x \in Int /\ y \in Int
    OBVIOUS
  <2>3. QED
    BY <2>1, <2>2
<1>5. QED
  BY <1>4

\* What EarliestOf and LatestOf choose is there, and is what they are named for.
LEMMA EarliestIsEarliest ==
  ASSUME NEW T, T \subseteq Nat, T # {}
  PROVE  EarliestOf(T) \in T /\ \A y \in T : EarliestOf(T) <= y
<1>1. \E x \in T : \A y \in T : y >= x
  <2>1. PICK x \in T : \A y \in T : x <= y
    BY LeastNatural
  <2>2. QED
    BY <2>1
<1>2. EarliestOf(T) \in T /\ \A y \in T : y >= EarliestOf(T)
  BY <1>1 DEF EarliestOf
<1>3. QED
  BY <1>2

\* The same of the latest.
LEMMA LatestIsLatest ==
  ASSUME NEW n \in Nat, NEW T, T \subseteq 0..n, T # {}
  PROVE  LatestOf(T) \in T /\ \A y \in T : y <= LatestOf(T)
BY GreatestNatural DEF LatestOf

\* What was heard was heard by now, of places that are whole.
StopInv ==
  /\ now \in Nat /\ Heard \subseteq 0..now
  /\ \A t \in Heard : setpoint_history[t] \in Int

\* The invariant holds throughout.
LEMMA StopInvHolds == StopSafety => []StopInv
<1>1. StopInit => StopInv
  BY DEF StopInit, StopInv, Heard
<1>2. StopInv /\ [StopNext]_stopVars => StopInv'
  <2> SUFFICES ASSUME StopInv, [StopNext]_stopVars PROVE StopInv'
    OBVIOUS
  <2>1. ASSUME NEW x \in 0..MaxPlace, ReceiveSetpoint(x) PROVE StopInv'
    <3>1. x \in Int
      BY StopAssumption
    <3>2. QED
      BY <2>1, <3>1 DEF StopInv, ReceiveSetpoint, Heard, Retained
  <2>2. CASE ForgetSetpoints
    BY <2>2 DEF StopInv, ForgetSetpoints, Heard
  <2>3. CASE TimeGoesOn
    BY <2>3 DEF StopInv, TimeGoesOn, Heard
  <2>4. CASE UNCHANGED stopVars
    BY <2>4 DEF StopInv, stopVars, Heard
  <2>5. QED
    BY <2>1, <2>2, <2>3, <2>4 DEF StopNext
<1>3. QED
  BY <1>1, <1>2, PTL DEF StopSafety

(* The samples that NoGaps looks at: those of the period, and the last one  *)
(* before it.                                                              *)
Looked ==
  Recent \cup (IF Retained \ Recent = {} THEN {} ELSE {LatestOf(Retained \ Recent)})

\* One of them is no later than any time of the period.
LEMMA PeriodIsCovered ==
  ASSUME StopInv, setpoint_stopped
  PROVE  /\ Looked \subseteq Heard
         /\ \E u \in Looked : u <= now - StopPeriod
<1> USE StopAssumption DEF StopInv
<1>1. Recent \subseteq Retained /\ Retained \subseteq Heard /\ Retained \subseteq 0..now
  BY DEF Recent, Retained
<1>2. Recent # {}
  <2>1. Cardinality(Recent) >= 2
    BY DEF setpoint_stopped, Count
  <2>2. QED
    BY <2>1, FS_EmptySet
<1>3. CASE Retained \ Recent = {}
  <2> DEFINE first == EarliestOf(Retained)
             last == LatestOf(Retained)
  <2>1. Looked = Retained /\ Retained # {}
    BY <1>1, <1>2, <1>3 DEF Looked
  <2>2. first \in Retained
    <3>1. Retained \subseteq Nat
      BY <1>1
    <3>2. QED
      BY <2>1, <3>1, EarliestIsEarliest
  <2>3. last \in Retained
    BY <1>1, <2>1, LatestIsLatest
  <2>4. last - first >= StopPeriod
    BY DEF setpoint_stopped
  <2> HIDE DEF first, last
  <2>5. first \in 0..now /\ last \in 0..now
    BY <1>1, <2>2, <2>3
  <2>6. first <= now - StopPeriod
    BY <2>4, <2>5
  <2>7. QED
    BY <1>1, <2>1, <2>2, <2>6
<1>4. CASE Retained \ Recent # {}
  <2> DEFINE before == LatestOf(Retained \ Recent)
  <2>1. before \in Retained \ Recent
    BY <1>1, <1>4, LatestIsLatest
  <2>2. Looked = Recent \cup {before}
    BY <1>4 DEF Looked
  <2> HIDE DEF before
  <2>3. before <= now - StopPeriod
    BY <1>1, <2>1 DEF Recent
  <2>4. QED
    BY <1>1, <2>1, <2>2, <2>3
<1>5. QED
  BY <1>3, <1>4

\* The last sample is of the period.
LEMMA LatestIsLooked ==
  ASSUME StopInv, setpoint_stopped
  PROVE  LatestOf(Heard) \in Looked /\ now - LatestOf(Heard) <= EstimateMaxAge
<1> USE StopAssumption DEF StopInv
<1> DEFINE last == LatestOf(Heard)
<1>1. Heard # {} /\ now - last <= EstimateMaxAge
  BY DEF setpoint_stopped, setpoint_fresh
<1>2. last \in Heard /\ \A y \in Heard : y <= last
  BY <1>1, LatestIsLatest
<1> HIDE DEF last
<1>3. Recent # {}
  <2>1. Cardinality(Recent) >= 2
    BY DEF setpoint_stopped, Count
  <2>2. QED
    BY <2>1, FS_EmptySet
<1>4. PICK r \in Recent : TRUE
  BY <1>3
<1>5. r \in Heard /\ now - r <= StopPeriod
  BY <1>4 DEF Recent, Retained
<1>6. now - last <= StopPeriod
  BY <1>2, <1>5
<1>7. last \in Recent
  BY <1>2, <1>6 DEF Recent, Retained, StopWindow
<1>8. QED
  BY <1>1, <1>7 DEF Looked, last

(* For any period, margin, tolerance, pace and age: when the detector says   *)
(* that the setpoint has stopped, there was no time in the period at which  *)
(* the last setpoint was stale (_setpoint_cb, setpoint_stopped).            *)
THEOREM StopsAreHeard == StopSafety => [](setpoint_stopped => NoDropout)
<1>1. ASSUME StopInv, setpoint_stopped PROVE NoDropout
  <2> USE StopAssumption DEF StopInv
  <2> SUFFICES ASSUME NEW t \in (now - StopPeriod)..now
               PROVE  \E u \in Heard : u <= t /\ t - u <= EstimateMaxAge
    BY DEF NoDropout
  <2>1. /\ Looked \subseteq Heard
        /\ \E u \in Looked : u <= now - StopPeriod
    BY <1>1, PeriodIsCovered
  <2>2. PICK u \in Looked : u <= now - StopPeriod
    BY <2>1
  <2>3. Looked \subseteq 0..now /\ Looked \subseteq Nat
    BY <1>1, <2>1
  <2>4. u <= t
    BY <1>1, <2>2, <2>3
  <2> DEFINE Later == {v \in Looked : v > t}
  <2>5. CASE Later = {}
    <3>1. LatestOf(Heard) \in Looked /\ now - LatestOf(Heard) <= EstimateMaxAge
      BY <1>1, LatestIsLooked
    <3> DEFINE last == LatestOf(Heard)
    <3>2. last \in 0..now /\ now - last <= EstimateMaxAge /\ ~ (last > t)
      BY <2>3, <2>5, <3>1
    <3>3. last \in Heard
      BY <2>1, <3>1
    <3> HIDE DEF last
    <3>4. last <= t /\ t - last <= EstimateMaxAge
      BY <1>1, <3>2
    <3>5. QED
      BY <3>3, <3>4
  <2>6. CASE Later # {}
    <3>1. Later \subseteq Nat
      BY <2>3
    <3>2. PICK v \in Later : \A y \in Later : v <= y
      <4> HIDE DEF Later
      <4>1. QED
        BY <2>6, <3>1, LeastNatural
    <3>3. v \in Looked /\ v > t /\ v \in Nat
      BY <3>1
    <3>4. v # EarliestOf(Looked)
      <4>1. EarliestOf(Looked) <= u
        BY <2>2, <2>3, EarliestIsEarliest
      <4>2. u \in Nat
        BY <2>3
      <4>3. QED
        BY <1>1, <2>4, <3>3, <4>1, <4>2
    <3>5. PICK w \in Looked : w < v /\ v - w <= EstimateMaxAge
      BY <1>1, <3>3, <3>4 DEF setpoint_stopped, NoGaps, Looked
    <3>6. w \in Nat
      BY <2>3
    <3>7. ~ (w > t)
      BY <3>2, <3>3, <3>5, <3>6
    <3>8. w <= t /\ t - w <= EstimateMaxAge
      BY <1>1, <3>3, <3>5, <3>6, <3>7
    <3>9. QED
      BY <2>1, <3>5, <3>8
  <2>7. QED
    BY <2>5, <2>6
<1>2. StopInv => (setpoint_stopped => NoDropout)
  BY <1>1
<1>3. QED
  BY <1>2, StopInvHolds, PTL

(***************************************************************************)
(* The sums.  Induction over a finite set, with no operator to instantiate: *)
(* Good is the set of the subsets that are as they should be, and of those  *)
(* that are not there would be a smallest.                                 *)
(***************************************************************************)

\* A subset that is good has all subsets that are smaller good.
LEMMA SmallestIsGood ==
  ASSUME NEW S, IsFiniteSet(S), NEW Good,
         \A T \in SUBSET S :
           (\A R \in SUBSET S : Cardinality(R) < Cardinality(T) => R \in Good) => T \in Good
  PROVE  SUBSET S \subseteq Good
<1> SUFFICES ASSUME NEW B \in SUBSET S, B \notin Good PROVE FALSE
  OBVIOUS
<1> DEFINE Sizes == {Cardinality(T) : T \in {U \in SUBSET S : U \notin Good}}
<1>1. \A T \in SUBSET S : IsFiniteSet(T) /\ Cardinality(T) \in Nat
  BY FS_Subset, FS_CardinalityType
<1>2. Sizes \subseteq Nat /\ Sizes # {}
  BY <1>1
<1>3. PICK n \in Sizes : \A k \in Sizes : n <= k
  <2> HIDE DEF Sizes
  <2>1. QED
    BY <1>2, LeastNatural
<1>4. PICK T \in SUBSET S : T \notin Good /\ Cardinality(T) = n
  OBVIOUS
<1>5. PICK R \in SUBSET S : Cardinality(R) < Cardinality(T) /\ R \notin Good
  BY <1>4
<1>6. Cardinality(R) \in Sizes
  BY <1>5
<1>7. n <= Cardinality(R)
  BY <1>3, <1>6
<1>8. QED
  BY <1>1, <1>4, <1>5, <1>7

\* One element less is smaller.
LEMMA OneLess ==
  ASSUME NEW S, IsFiniteSet(S), NEW x \in S
  PROVE  IsFiniteSet(S \ {x}) /\ Cardinality(S \ {x}) = Cardinality(S) - 1
         /\ Cardinality(S) \in Nat /\ Cardinality(S \ {x}) \in Nat
         /\ Cardinality(S \ {x}) < Cardinality(S)
<1>1. IsFiniteSet(S \ {x}) /\ Cardinality(S \ {x}) = Cardinality(S) - 1
  BY FS_RemoveElement
<1>2. Cardinality(S) \in Nat /\ Cardinality(S \ {x}) \in Nat
  BY <1>1, FS_CardinalityType
<1>3. QED
  BY <1>1, <1>2

OneOf(s) == CHOOSE x \in s : TRUE

\* g is the sum of f over each subset of S.
Sums(f, S, g) ==
  g = [s \in SUBSET S |-> IF s = {} THEN 0 ELSE f[OneOf(s)] + g[s \ {OneOf(s)}]]

\* The sum is the value of such a function.
LEMMA SumIsChosen ==
  ASSUME NEW f, NEW S
  PROVE  SumOver(f, S) = (CHOOSE g : Sums(f, S, g))[S]
BY DEF SumOver, MapThenSumSet, MapThenFoldSet, Sums, OneOf


\* What the sum is, in terms of the sum over one element less: the smallest set of which this
\* is not so would have a sum over each of its subsets, and only one.
Unfolds(f, T) ==
  SumOver(f, T) = IF T = {} THEN 0 ELSE f[OneOf(T)] + SumOver(f, T \ {OneOf(T)})

\* There is no other such function.
LEMMA SumIsUnique ==
  ASSUME NEW f, NEW T, IsFiniteSet(T), NEW g, Sums(f, T, g),
         \A s \in SUBSET T : s # T => Unfolds(f, s)
  PROVE  \A s \in SUBSET T : s # T => g[s] = SumOver(f, s)
<1> DEFINE Good == {s \in SUBSET T : s # T => g[s] = SumOver(f, s)}
<1>1. ASSUME NEW s \in SUBSET T,
             \A r \in SUBSET T : Cardinality(r) < Cardinality(s) => r \in Good
      PROVE  s \in Good
  <2> SUFFICES ASSUME s # T PROVE g[s] = SumOver(f, s)
    OBVIOUS
  <2>1. Unfolds(f, s)
    OBVIOUS
  <2>2. g[s] = IF s = {} THEN 0 ELSE f[OneOf(s)] + g[s \ {OneOf(s)}]
    BY DEF Sums
  <2>3. CASE s = {}
    BY <2>1, <2>2, <2>3 DEF Unfolds
  <2>4. CASE s # {}
    <3> DEFINE x == OneOf(s)
    <3>1. x \in s
      BY <2>4 DEF OneOf
    <3>2. IsFiniteSet(s)
      BY FS_Subset
    <3> HIDE DEF x
    <3>3. Cardinality(s \ {x}) < Cardinality(s)
      BY <3>1, <3>2, OneLess
    <3>4. s \ {x} \in SUBSET T /\ s \ {x} # T
      BY <3>1
    <3>5. g[s \ {x}] = SumOver(f, s \ {x})
      BY <1>1, <3>3, <3>4
    <3>6. QED
      BY <2>1, <2>2, <2>4, <3>5 DEF Unfolds, x
  <2>5. QED
    BY <2>3, <2>4
<1> HIDE DEF Good
<1>2. SUBSET T \subseteq Good
  BY <1>1, SmallestIsGood
<1>3. QED
  BY <1>2 DEF Good

\* There is one, and what it says of the whole set.
LEMMA SumUnfolds ==
  ASSUME NEW f, NEW S, IsFiniteSet(S)
  PROVE  Unfolds(f, S)
<1> DEFINE Good == {T \in SUBSET S : Unfolds(f, T)}
<1>1. ASSUME NEW T \in SUBSET S,
             \A R \in SUBSET S : Cardinality(R) < Cardinality(T) => R \in Good
      PROVE  T \in Good
  <2>1. IsFiniteSet(T)
    BY FS_Subset
  <2>2. ASSUME NEW s \in SUBSET T, s # T PROVE Unfolds(f, s)
    <3>1. Cardinality(s) <= Cardinality(T) /\ Cardinality(s) # Cardinality(T)
      BY <2>1, <2>2, FS_Subset
    <3>2. Cardinality(s) \in Nat /\ Cardinality(T) \in Nat
      BY <2>1, FS_Subset, FS_CardinalityType
    <3>3. Cardinality(s) < Cardinality(T)
      BY <3>1, <3>2
    <3>4. QED
      BY <1>1, <3>3
  <2> DEFINE Right(s) == IF s = {} THEN 0 ELSE f[OneOf(s)] + SumOver(f, s \ {OneOf(s)})
             g == [s \in SUBSET T |-> Right(s)]
  <2>3. \A s \in SUBSET T : s # T => g[s] = SumOver(f, s)
    BY <2>2 DEF Unfolds
  <2>4. ASSUME NEW s \in SUBSET T, s # {}
        PROVE  g[s \ {OneOf(s)}] = SumOver(f, s \ {OneOf(s)})
    <3> DEFINE x == OneOf(s)
    <3>1. x \in s
      BY <2>4 DEF OneOf
    <3> HIDE DEF x, g
    <3>2. s \ {x} \in SUBSET T /\ s \ {x} # T
      BY <3>1
    <3>3. QED
      BY <2>3, <3>2 DEF x
  <2>5. Sums(f, T, g)
    <3>1. \A s \in SUBSET T :
            Right(s) = IF s = {} THEN 0 ELSE f[OneOf(s)] + g[s \ {OneOf(s)}]
      <4> HIDE DEF g
      <4>1. QED
        BY <2>4
    <3>2. g = [s \in SUBSET T |-> IF s = {} THEN 0 ELSE f[OneOf(s)] + g[s \ {OneOf(s)}]]
      BY <3>1
    <3> HIDE DEF g
    <3>3. QED
      BY <3>2 DEF Sums
  <2>6. PICK h : h = (CHOOSE k : Sums(f, T, k)) /\ Sums(f, T, h)
    <3> HIDE DEF g
    <3>1. QED
      BY <2>5
  <2>7. SumOver(f, T) = h[T]
    BY <2>6, SumIsChosen
  <2>8. h[T] = IF T = {} THEN 0 ELSE f[OneOf(T)] + h[T \ {OneOf(T)}]
    BY <2>6 DEF Sums
  <2>9. T # {} => h[T \ {OneOf(T)}] = SumOver(f, T \ {OneOf(T)})
    <3> DEFINE x == OneOf(T)
    <3>1. T # {} => x \in T
      BY DEF OneOf
    <3>2. \A s \in SUBSET T : s # T => h[s] = SumOver(f, s)
      <4>1. Sums(f, T, h)
        BY <2>6
      <4>2. \A s \in SUBSET T : s # T => Unfolds(f, s)
        BY <2>2
      <4> HIDE DEF g
      <4>3. QED
        BY ONLY <2>1, <4>1, <4>2, SumIsUnique
    <3> HIDE DEF x
    <3>3. T # {} => T \ {x} \in SUBSET T /\ T \ {x} # T
      BY <3>1
    <3>4. QED
      BY <3>2, <3>3 DEF x
  <2>10. Unfolds(f, T)
    BY <2>7, <2>8, <2>9 DEF Unfolds
  <2>11. QED
    BY <2>10
<1> HIDE DEF Good
<1>2. SUBSET S \subseteq Good
  BY <1>1, SmallestIsGood
<1>3. QED
  BY <1>2 DEF Good

\* Nothing adds up to nothing.
LEMMA SumOverNone == ASSUME NEW f PROVE SumOver(f, {}) = 0
BY SumUnfolds, FS_EmptySet DEF Unfolds

\* A sum of integers is one.
LEMMA SumIsInt ==
  ASSUME NEW f, NEW S, IsFiniteSet(S), \A x \in S : f[x] \in Int
  PROVE  SumOver(f, S) \in Int
<1> DEFINE Good == {T \in SUBSET S : SumOver(f, T) \in Int}
<1>1. ASSUME NEW T \in SUBSET S,
             \A R \in SUBSET S : Cardinality(R) < Cardinality(T) => R \in Good
      PROVE  T \in Good
  <2>1. IsFiniteSet(T)
    BY FS_Subset
  <2>2. CASE T = {}
    BY <2>2, SumOverNone
  <2>3. CASE T # {}
    <3> DEFINE x == OneOf(T)
    <3>1. x \in T
      BY <2>3 DEF OneOf
    <3>2. SumOver(f, T) = f[x] + SumOver(f, T \ {x})
      BY <2>1, <2>3, SumUnfolds DEF Unfolds
    <3> HIDE DEF x
    <3>3. Cardinality(T \ {x}) < Cardinality(T)
      BY <2>1, <3>1, OneLess
    <3>4. SumOver(f, T \ {x}) \in Int
      BY <1>1, <3>1, <3>3
    <3>5. QED
      BY <3>1, <3>2, <3>4
  <2>4. QED
    BY <2>2, <2>3
<1> HIDE DEF Good
<1>2. SUBSET S \subseteq Good
  BY <1>1, SmallestIsGood
<1>3. QED
  BY <1>2 DEF Good

\* Any of them may be taken off first.
LEMMA SumWithout ==
  ASSUME NEW f, NEW S, IsFiniteSet(S), \A x \in S : f[x] \in Int, NEW y \in S
  PROVE  SumOver(f, S) = f[y] + SumOver(f, S \ {y})
<1> DEFINE Good == {T \in SUBSET S : \A z \in T : SumOver(f, T) = f[z] + SumOver(f, T \ {z})}
<1>1. ASSUME NEW T \in SUBSET S,
             \A R \in SUBSET S : Cardinality(R) < Cardinality(T) => R \in Good
      PROVE  T \in Good
  <2> SUFFICES ASSUME NEW z \in T PROVE SumOver(f, T) = f[z] + SumOver(f, T \ {z})
    OBVIOUS
  <2>1. IsFiniteSet(T)
    BY FS_Subset
  <2> DEFINE x == OneOf(T)
  <2>2. x \in T
    BY DEF OneOf
  <2>3. SumOver(f, T) = f[x] + SumOver(f, T \ {x})
    BY <2>1, SumUnfolds DEF Unfolds
  <2> HIDE DEF x
  <2>4. CASE z = x
    BY <2>3, <2>4
  <2>5. CASE z # x
    <3>1. Cardinality(T \ {x}) < Cardinality(T) /\ Cardinality(T \ {z}) < Cardinality(T)
      BY <2>1, <2>2, OneLess
    <3>2. T \ {x} \in Good /\ T \ {z} \in Good
      BY <1>1, <3>1
    <3>3. (T \ {x}) \ {z} = (T \ {z}) \ {x}
      OBVIOUS
    <3> DEFINE rest == (T \ {x}) \ {z}
    <3>4. SumOver(f, T \ {x}) = f[z] + SumOver(f, rest)
      BY <2>5, <3>2
    <3>5. SumOver(f, T \ {z}) = f[x] + SumOver(f, rest)
      BY <2>2, <2>5, <3>2, <3>3
    <3>6. SumOver(f, rest) \in Int /\ f[x] \in Int /\ f[z] \in Int
      <4>1. IsFiniteSet(rest)
        BY <2>1, FS_Subset
      <4>2. QED
        BY <2>2, <4>1, SumIsInt
    <3> HIDE DEF rest
    <3>7. QED
      BY <2>3, <3>4, <3>5, <3>6
  <2>6. QED
    BY <2>4, <2>5
<1> HIDE DEF Good
<1>2. SUBSET S \subseteq Good
  BY <1>1, SmallestIsGood
<1>3. QED
  BY <1>2 DEF Good

\* The samples are integers.
Whole(g, T) == \A u \in T : g[u] \in Int

\* The same, for a set that is named.
LEMMA SumWithoutOne ==
  ASSUME NEW T, IsFiniteSet(T), NEW g, Whole(g, T),
         NEW t \in T, NEW R, R = T \ {t}
  PROVE  SumOver(g, R) \in Int /\ SumOver(g, T) = g[t] + SumOver(g, R)
<1>1. IsFiniteSet(T \ {t}) /\ \A u \in T \ {t} : g[u] \in Int
  BY FS_Subset DEF Whole
<1>2. SumOver(g, T \ {t}) \in Int
  BY <1>1, SumIsInt
<1>3. SumOver(g, T) = g[t] + SumOver(g, T \ {t})
  BY SumWithout DEF Whole
<1>4. QED
  BY <1>2, <1>3

(***************************************************************************)
(* The line of least squares.  Its slope over samples of which any two are  *)
(* further apart in place than a pace makes of their times is steeper than  *)
(* that pace: with the samples added in the order of their times, each adds *)
(* what it is ahead of all before it.                                      *)
(***************************************************************************)

Times(S)       == [t \in S |-> t]
Weighted(S, f) == [t \in S |-> t * f[t]]
Squares(S)     == [t \in S |-> t * t]

\* By how much the rise exceeds the run, of n samples whose times, places, products and
\* squares add up to these;
Excess(pace, n, time, place, product, square) ==
  pace * (n * product - time * place) - (n * square - time * time)

\* and what one more sample adds to it.
Lead(pace, n, time, place, product, square, m, y) ==
  pace * (product + n * (m * y) - time * y - m * place)
    - (square + n * (m * m) - 2 * (m * time))

\* How far the sample at m is ahead of the one at t, times how much later it is.
Ahead(pace, t, x, m, y) == (m - t) * (pace * (y - x) - (m - t))

\* The sums with a sample more, of time t and place x, and their arithmetic.
Adds(n, time, place, product, square, t, x, n1, time1, place1, product1, square1) ==
  /\ {n, time, place, product, square, t, x} \subseteq Int
  /\ n1 = n + 1 /\ time1 = t + time /\ place1 = x + place
  /\ product1 = t * x + product /\ square1 = t * t + square

\* The excess grows by the lead of the sample;
LEMMA ExcessGrows ==
  ASSUME NEW pace \in Int, NEW n, NEW time, NEW place, NEW product, NEW square, NEW t, NEW x,
         NEW n1, NEW time1, NEW place1, NEW product1, NEW square1,
         Adds(n, time, place, product, square, t, x, n1, time1, place1, product1, square1)
  PROVE  /\ Excess(pace, n1, time1, place1, product1, square1)
              = Excess(pace, n, time, place, product, square)
                  + Lead(pace, n, time, place, product, square, t, x)
         /\ Excess(pace, n, time, place, product, square) \in Int
         /\ Lead(pace, n, time, place, product, square, t, x) \in Int
<1>0. /\ n \in Int /\ time \in Int /\ place \in Int /\ product \in Int /\ square \in Int
      /\ t \in Int /\ x \in Int
      /\ n1 = n + 1 /\ time1 = t + time /\ place1 = x + place
      /\ product1 = t * x + product /\ square1 = t * t + square
  BY DEF Adds
<1>1. Excess(pace, n + 1, t + time, x + place, t * x + product, t * t + square)
        = Excess(pace, n, time, place, product, square)
            + Lead(pace, n, time, place, product, square, t, x)
  BY <1>0 DEF Excess, Lead
<1>2. /\ Excess(pace, n, time, place, product, square) \in Int
      /\ Lead(pace, n, time, place, product, square, t, x) \in Int
  BY <1>0 DEF Excess, Lead
<1>3. QED
  BY <1>0, <1>1, <1>2

\* and the lead of another, by how far that is ahead of it.
LEMMA LeadGrows ==
  ASSUME NEW pace \in Int, NEW n, NEW time, NEW place, NEW product, NEW square, NEW t, NEW x,
         NEW n1, NEW time1, NEW place1, NEW product1, NEW square1,
         Adds(n, time, place, product, square, t, x, n1, time1, place1, product1, square1),
         NEW m \in Int, NEW y \in Int
  PROVE  /\ Lead(pace, n, time, place, product, square, m, y) \in Int
         /\ Lead(pace, n1, time1, place1, product1, square1, m, y)
              = Lead(pace, n, time, place, product, square, m, y) + Ahead(pace, t, x, m, y)
<1>0. /\ n \in Int /\ time \in Int /\ place \in Int /\ product \in Int /\ square \in Int
      /\ t \in Int /\ x \in Int
      /\ n1 = n + 1 /\ time1 = t + time /\ place1 = x + place
      /\ product1 = t * x + product /\ square1 = t * t + square
  BY DEF Adds
<1>1. /\ Lead(pace, n, time, place, product, square, m, y) \in Int
      /\ Lead(pace, n + 1, t + time, x + place, t * x + product, t * t + square, m, y)
           = Lead(pace, n, time, place, product, square, m, y) + Ahead(pace, t, x, m, y)
  BY <1>0 DEF Lead, Ahead
<1>2. QED
  BY <1>0, <1>1

\* The same of the samples of f at the times of T, a subset of S.
ExcessOf(pace, S, f, T) ==
  Excess(pace, Cardinality(T), SumOver(Times(S), T), SumOver(f, T), SumOver(Weighted(S, f), T),
         SumOver(Squares(S), T))

LeadOf(pace, S, f, T, m, y) ==
  Lead(pace, Cardinality(T), SumOver(Times(S), T), SumOver(f, T), SumOver(Weighted(S, f), T),
       SumOver(Squares(S), T), m, y)

\* What follows is about samples at times that are natural, of places that are whole.
Samples(S, f) == S \subseteq Nat /\ \A t \in S : f[t] \in Int

\* R is the subset T of S without the time t.
IsWithout(R, T, t, S) ==
  T \in SUBSET S /\ IsFiniteSet(T) /\ t \in T /\ R = T \ {t}

\* The sums that both are made of, with one sample and without it.
LEMMA SumsWithout ==
  ASSUME NEW S, NEW f, Samples(S, f),
         NEW T, NEW t, NEW R, IsWithout(R, T, t, S)
  PROVE  /\ Cardinality(R) \in Nat /\ Cardinality(T) = Cardinality(R) + 1
         /\ SumOver(Times(S), R) \in Int
         /\ SumOver(f, R) \in Int
         /\ SumOver(Weighted(S, f), R) \in Int
         /\ SumOver(Squares(S), R) \in Int
         /\ SumOver(Times(S), T) = t + SumOver(Times(S), R)
         /\ SumOver(f, T) = f[t] + SumOver(f, R)
         /\ SumOver(Weighted(S, f), T) = t * f[t] + SumOver(Weighted(S, f), R)
         /\ SumOver(Squares(S), T) = t * t + SumOver(Squares(S), R)
<1>0. T \in SUBSET S /\ IsFiniteSet(T) /\ t \in T /\ R = T \ {t}
  BY DEF IsWithout
<1>1. /\ Times(S)[t] = t /\ Weighted(S, f)[t] = t * f[t] /\ Squares(S)[t] = t * t
      /\ Whole(Times(S), T) /\ Whole(f, T)
      /\ Whole(Weighted(S, f), T) /\ Whole(Squares(S), T)
  BY <1>0 DEF Samples, Whole, Times, Weighted, Squares
<1>2. Cardinality(R) \in Nat /\ Cardinality(T) = Cardinality(R) + 1
  BY <1>0, OneLess
<1>3. ASSUME NEW g, Whole(g, T)
      PROVE  SumOver(g, R) \in Int /\ SumOver(g, T) = g[t] + SumOver(g, R)
  BY <1>0, <1>3, SumWithoutOne
<1>4. QED
  BY <1>1, <1>2, <1>3

\* One sample more of those of T makes the excess larger by what it leads the others by;
LEMMA ExcessWithout ==
  ASSUME NEW S, NEW f, Samples(S, f), NEW pace \in Int,
         NEW T, NEW t, NEW R, IsWithout(R, T, t, S)
  PROVE  /\ ExcessOf(pace, S, f, R) \in Int
         /\ LeadOf(pace, S, f, R, t, f[t]) \in Int
         /\ ExcessOf(pace, S, f, T) = ExcessOf(pace, S, f, R) + LeadOf(pace, S, f, R, t, f[t])
<1> DEFINE n == Cardinality(R)
           time == SumOver(Times(S), R)
           place == SumOver(f, R)
           product == SumOver(Weighted(S, f), R)
           square == SumOver(Squares(S), R)
           n1 == Cardinality(T)
           time1 == SumOver(Times(S), T)
           place1 == SumOver(f, T)
           product1 == SumOver(Weighted(S, f), T)
           square1 == SumOver(Squares(S), T)
           x == f[t]
<1>1. t \in Int /\ x \in Int
  BY DEF Samples, IsWithout
<1>2. Adds(n, time, place, product, square, t, x, n1, time1, place1, product1, square1)
  <2>1. /\ n \in Int /\ time \in Int /\ place \in Int /\ product \in Int /\ square \in Int
        /\ n1 = n + 1 /\ time1 = t + time /\ place1 = x + place
        /\ product1 = t * x + product /\ square1 = t * t + square
    BY SumsWithout
  <2> HIDE DEF n, time, place, product, square, n1, time1, place1, product1, square1, x
  <2>2. QED
    BY <1>1, <2>1 DEF Adds
<1>3. /\ ExcessOf(pace, S, f, R) = Excess(pace, n, time, place, product, square)
      /\ LeadOf(pace, S, f, R, t, x) = Lead(pace, n, time, place, product, square, t, x)
      /\ ExcessOf(pace, S, f, T) = Excess(pace, n1, time1, place1, product1, square1)
  BY DEF ExcessOf, LeadOf
<1> HIDE DEF n, time, place, product, square, n1, time1, place1, product1, square1, x
<1>4. /\ Excess(pace, n1, time1, place1, product1, square1)
           = Excess(pace, n, time, place, product, square)
               + Lead(pace, n, time, place, product, square, t, x)
      /\ Excess(pace, n, time, place, product, square) \in Int
      /\ Lead(pace, n, time, place, product, square, t, x) \in Int
  BY <1>2, ExcessGrows
<1>5. QED
  BY <1>3, <1>4 DEF x

\* and the lead of any other that is ahead of it.
LEMMA LeadWithout ==
  ASSUME NEW S, NEW f, Samples(S, f), NEW pace \in Int,
         NEW T, NEW t, NEW R, IsWithout(R, T, t, S),
         NEW m, m \in Int, NEW y, y \in Int
  PROVE  /\ LeadOf(pace, S, f, R, m, y) \in Int
         /\ LeadOf(pace, S, f, T, m, y) \in Int
         /\ Ahead(pace, t, f[t], m, y) > 0
              => LeadOf(pace, S, f, T, m, y) > LeadOf(pace, S, f, R, m, y)
<1> DEFINE n == Cardinality(R)
           time == SumOver(Times(S), R)
           place == SumOver(f, R)
           product == SumOver(Weighted(S, f), R)
           square == SumOver(Squares(S), R)
           n1 == Cardinality(T)
           time1 == SumOver(Times(S), T)
           place1 == SumOver(f, T)
           product1 == SumOver(Weighted(S, f), T)
           square1 == SumOver(Squares(S), T)
           x == f[t]
<1>1. t \in Int /\ x \in Int
  BY DEF Samples, IsWithout
<1>2. Adds(n, time, place, product, square, t, x, n1, time1, place1, product1, square1)
  <2>1. /\ n \in Int /\ time \in Int /\ place \in Int /\ product \in Int /\ square \in Int
        /\ n1 = n + 1 /\ time1 = t + time /\ place1 = x + place
        /\ product1 = t * x + product /\ square1 = t * t + square
    BY SumsWithout
  <2> HIDE DEF n, time, place, product, square, n1, time1, place1, product1, square1, x
  <2>2. QED
    BY <1>1, <2>1 DEF Adds
<1>3. /\ LeadOf(pace, S, f, R, m, y) = Lead(pace, n, time, place, product, square, m, y)
      /\ LeadOf(pace, S, f, T, m, y) = Lead(pace, n1, time1, place1, product1, square1, m, y)
  BY DEF LeadOf
<1> HIDE DEF n, time, place, product, square, n1, time1, place1, product1, square1, x
<1>4. /\ Lead(pace, n, time, place, product, square, m, y) \in Int
      /\ Lead(pace, n1, time1, place1, product1, square1, m, y)
           = Lead(pace, n, time, place, product, square, m, y) + Ahead(pace, t, x, m, y)
  BY <1>2, LeadGrows
<1>5. Ahead(pace, t, x, m, y) \in Int
  BY <1>1 DEF Ahead
<1>6. QED
  BY <1>3, <1>4, <1>5 DEF x

\* Over no samples there is nothing.
LEMMA NoSamples ==
  ASSUME NEW S, NEW f, NEW pace \in Int
  PROVE  /\ ExcessOf(pace, S, f, {}) = 0
         /\ \A m, y \in Int : LeadOf(pace, S, f, {}, m, y) = 0
<1>1. Cardinality({}) = 0 /\ \A g : SumOver(g, {}) = 0
  BY FS_EmptySet, SumOverNone
<1>2. Excess(pace, 0, 0, 0, 0, 0) = 0 /\ \A m, y \in Int : Lead(pace, 0, 0, 0, 0, 0, m, y) = 0
  BY DEF Excess, Lead
<1>3. QED
  BY <1>1, <1>2 DEF ExcessOf, LeadOf

\* Any two samples are further apart than the pace makes of their times.
Outruns(pace, S, f) == \A t, u \in S : t < u => pace * (f[u] - f[t]) > u - t

\* A sample that comes after others leads them.
LEMMA LaterLeads ==
  ASSUME NEW S, NEW f, Samples(S, f), NEW pace \in Int,
         Outruns(pace, S, f), NEW m \in S,
         NEW B \in SUBSET S, IsFiniteSet(B), \A t \in B : t < m
  PROVE  IF B = {} THEN LeadOf(pace, S, f, B, m, f[m]) = 0
                   ELSE LeadOf(pace, S, f, B, m, f[m]) > 0
<1> DEFINE Good == {T \in SUBSET B : IF T = {} THEN LeadOf(pace, S, f, T, m, f[m]) = 0
                                               ELSE LeadOf(pace, S, f, T, m, f[m]) > 0}
<1>0. m \in Int /\ f[m] \in Int
  BY DEF Samples
<1>1. ASSUME NEW T \in SUBSET B,
             \A R \in SUBSET B : Cardinality(R) < Cardinality(T) => R \in Good
      PROVE  T \in Good
  <2>1. IsFiniteSet(T) /\ T \in SUBSET S
    BY FS_Subset
  <2>2. CASE T = {}
    BY <1>0, <2>2, NoSamples
  <2>3. CASE T # {}
    <3>1. PICK t \in T : TRUE
      BY <2>3
    <3> DEFINE R == T \ {t}
               before == LeadOf(pace, S, f, R, m, f[m])
    <3>2. Cardinality(R) < Cardinality(T)
      BY <2>1, OneLess
    <3>3. R \in Good
      BY <1>1, <3>2
    <3>4. /\ before \in Int
          /\ LeadOf(pace, S, f, T, m, f[m]) \in Int
          /\ Ahead(pace, t, f[t], m, f[m]) > 0 => LeadOf(pace, S, f, T, m, f[m]) > before
      <4> HIDE DEF Good
      <4> DEFINE y == f[m]
      <4>1. IsWithout(R, T, t, S)
        BY <2>1, <3>1 DEF IsWithout
      <4>2. y \in Int
        BY <1>0
      <4> HIDE DEF R, y
      <4>3. /\ LeadOf(pace, S, f, R, m, y) \in Int
            /\ LeadOf(pace, S, f, T, m, y) \in Int
            /\ Ahead(pace, t, f[t], m, y) > 0
                 => LeadOf(pace, S, f, T, m, y) > LeadOf(pace, S, f, R, m, y)
        BY <1>0, <4>1, <4>2, LeadWithout
      <4>4. QED
        BY <4>3 DEF y
    <3>5. before >= 0
      BY <3>3, <3>4
    <3>6. Ahead(pace, t, f[t], m, f[m]) > 0 /\ Ahead(pace, t, f[t], m, f[m]) \in Int
      <4>1. /\ t \in Int /\ m \in Int /\ f[t] \in Int /\ f[m] \in Int
            /\ m - t > 0 /\ pace * (f[m] - f[t]) > m - t
        BY <2>1 DEF Outruns, Samples
      <4> DEFINE far == pace * (f[m] - f[t])
                 late == m - t
      <4>2. far \in Int /\ late \in Int /\ late > 0 /\ far > late
        BY <4>1
      <4> HIDE DEF far, late
      <4>3. far - late > 0 /\ far - late \in Int
        BY <4>2
      <4>4. late * (far - late) > 0 /\ late * (far - late) \in Int
        BY <4>2, <4>3
      <4>5. QED
        BY <4>4 DEF Ahead, far, late
    <3> HIDE DEF before
    <3>7. QED
      BY <2>3, <3>4, <3>5, <3>6
  <2>4. QED
    BY <2>2, <2>3
<1> HIDE DEF Good
<1>2. SUBSET B \subseteq Good
  BY <1>1, SmallestIsGood
<1>3. QED
  BY <1>2 DEF Good

\* The line through two samples or more is steeper than the pace.
LEMMA Regression ==
  ASSUME NEW last \in Nat, NEW S, S \subseteq 0..last, IsFiniteSet(S),
         NEW f, \A t \in S : f[t] \in Int, NEW pace \in Int, Outruns(pace, S, f),
         Cardinality(S) >= 2
  PROVE  ExcessOf(pace, S, f, S) > 0
<1> DEFINE E(T) == ExcessOf(pace, S, f, T)
           Good == {T \in SUBSET S : E(T) >= 0 /\ (Cardinality(T) >= 2 => E(T) > 0)}
<1>0. Samples(S, f)
  BY DEF Samples
<1>1. ASSUME NEW T \in SUBSET S,
             \A R \in SUBSET S : Cardinality(R) < Cardinality(T) => R \in Good
      PROVE  T \in Good
  <2>1. IsFiniteSet(T) /\ T \subseteq 0..last
    BY FS_Subset
  <2>2. CASE T = {}
    BY <2>2, NoSamples, FS_EmptySet
  <2>3. CASE T # {}
    <3>1. PICK m \in T : \A t \in T : t <= m
      BY <2>1, <2>3, GreatestNatural
    <3> DEFINE R == T \ {m}
               lead == LeadOf(pace, S, f, R, m, f[m])
    <3>2. /\ IsFiniteSet(R) /\ Cardinality(R) < Cardinality(T)
          /\ Cardinality(T) = Cardinality(R) + 1 /\ Cardinality(R) \in Nat
      BY <2>1, OneLess
    <3>3. R \in Good
      BY <1>1, <3>2
    <3>4. E(T) = E(R) + lead /\ E(R) \in Int /\ lead \in Int
      <4>1. IsWithout(R, T, m, S)
        BY <2>1 DEF IsWithout
      <4> HIDE DEF R
      <4>2. QED
        BY <1>0, <4>1, ExcessWithout
    <3>5. IF R = {} THEN lead = 0 ELSE lead > 0
      <4>1. \A t \in R : t < m
        BY <2>1, <3>1
      <4>2. R \in SUBSET S /\ m \in S
        OBVIOUS
      <4> HIDE DEF R
      <4>3. QED
        BY <1>0, <3>2, <4>1, <4>2, LaterLeads
    <3>6. E(R) >= 0
      BY <3>3
    <3>7. Cardinality(T) >= 2 => R # {}
      BY <3>2, FS_EmptySet
    <3> HIDE DEF R, lead, E
    <3>8. QED
      BY <3>2, <3>4, <3>5, <3>6, <3>7
  <2>4. QED
    BY <2>2, <2>3
<1> HIDE DEF Good
<1>2. SUBSET S \subseteq Good
  BY <1>1, SmallestIsGood
<1>3. QED
  BY <1>2 DEF Good

\* The samples of the period are few, and as the lemmas want them.
LEMMA PeriodIsSampled ==
  ASSUME StopInv
  PROVE  /\ Samples(Recent, setpoint_history)
         /\ Recent \subseteq 0..now /\ IsFiniteSet(Recent)
         /\ Count \in Nat /\ PlaceSum \in Int
<1>1. Recent \subseteq Heard /\ Recent \subseteq 0..now
  BY DEF StopInv, Recent, Retained
<1>2. IsFiniteSet(Recent)
  <2>1. IsFiniteSet(0..now)
    BY FS_Interval DEF StopInv
  <2>2. QED
    BY <1>1, <2>1, FS_Subset
<1>3. Count \in Nat
  BY <1>2, FS_CardinalityType DEF Count
<1>4. Samples(Recent, setpoint_history)
  BY <1>1 DEF StopInv, Samples
<1>5. PlaceSum \in Int
  BY <1>2, <1>4, SumIsInt DEF PlaceSum, Samples
<1>6. QED
  BY <1>1, <1>2, <1>3, <1>4, <1>5

\* A setpoint that outruns the pace, forwards or backwards, is not slow.
LEMMA FastIsNotSlow ==
  ASSUME StopInv, IsSlow, NEW pace \in {StopPace, -StopPace}
  PROVE  ~Outruns(pace, Recent, setpoint_history)
<1> SUFFICES ASSUME Outruns(pace, Recent, setpoint_history) PROVE FALSE
  OBVIOUS
<1> DEFINE times    == SumOver(Times(Recent), Recent)
           products == SumOver(Weighted(Recent, setpoint_history), Recent)
           squares  == SumOver(Squares(Recent), Recent)
           rise     == Count * products - times * PlaceSum
           run      == Count * squares - times * times
<1>1. StopPace \in Int /\ pace \in Int /\ now \in Nat
  BY StopAssumption DEF StopInv
<1>2. /\ Samples(Recent, setpoint_history)
      /\ Recent \subseteq 0..now /\ IsFiniteSet(Recent)
      /\ Count \in Nat /\ PlaceSum \in Int
  BY PeriodIsSampled
<1>3. Count >= 3 /\ StopPace * rise <= run /\ -(StopPace * rise) <= run
  BY DEF IsSlow, PlaceAt, Times, Weighted, Squares
<1>4. times \in Int /\ products \in Int /\ squares \in Int
  <2>1. /\ \A t \in Recent : Times(Recent)[t] \in Int /\ Squares(Recent)[t] \in Int
        /\ \A t \in Recent : Weighted(Recent, setpoint_history)[t] \in Int
    BY <1>2 DEF Samples, Times, Squares, Weighted
  <2>2. QED
    BY <1>2, <2>1, SumIsInt
<1>5. ExcessOf(pace, Recent, setpoint_history, Recent) > 0
  <2>1. \A t \in Recent : setpoint_history[t] \in Int
    BY <1>2 DEF Samples
  <2>2. Cardinality(Recent) >= 2
    BY <1>2, <1>3 DEF Count
  <2>3. QED
    BY <1>1, <1>2, <2>1, <2>2, Regression
<1>6. pace * rise - run > 0
  BY <1>5 DEF ExcessOf, Excess, Count, PlaceSum
<1>7. rise \in Int /\ run \in Int
  BY <1>2, <1>4
<1> HIDE DEF rise, run
<1>8. CASE pace = StopPace
  BY <1>1, <1>3, <1>6, <1>7, <1>8
<1>9. CASE pace = -StopPace
  <2>1. pace * rise = -(StopPace * rise) /\ StopPace * rise \in Int
    BY <1>1, <1>7, <1>9
  <2>2. QED
    BY <1>3, <1>6, <1>7, <2>1
<1>10. QED
  BY <1>8, <1>9

\* A setpoint that moves on with every reception of a period without gaps is faster than one
\* unit in the age at which it would be stale.
LEMMA MovingOnIsFast ==
  ASSUME StopInv, NoGaps, MovesOn, StopPace > EstimateMaxAge
  PROVE  Outruns(StopPace, Recent, setpoint_history)
<1> USE StopAssumption DEF StopInv
<1> DEFINE x(t) == setpoint_history[t]
<1>1. Recent \subseteq Retained /\ Retained \subseteq 0..now /\ \A t \in Recent : x(t) \in Int
  BY DEF Recent, Retained
<1>0. Retained \subseteq Nat /\ Recent \subseteq Nat
  <2>1. 0..now \subseteq Nat
    OBVIOUS
  <2>2. QED
    BY <1>1, <2>1
<1>2. \A t, u \in Recent : t < u => x(t) < x(u)
  BY DEF MovesOn, PlaceAt
<1>3. EstimateMaxAge \in Nat /\ EstimateMaxAge >= 1 /\ StopPace \in Nat
  OBVIOUS
<1> HIDE DEF x
<1>4. ASSUME NEW t \in Recent
      PROVE  \A u \in Recent : t < u => EstimateMaxAge * (x(u) - x(t)) >= u - t
  <2> DEFINE Bad == {u \in Recent : t < u /\ ~(EstimateMaxAge * (x(u) - x(t)) >= u - t)}
  <2> SUFFICES ASSUME Bad # {} PROVE FALSE
    OBVIOUS
  <2>1. Bad \subseteq Nat
    <3>1. Bad \subseteq Recent
      OBVIOUS
    <3> HIDE DEF Bad
    <3>2. QED
      BY <1>0, <3>1
  <2>2. PICK u \in Bad : \A v \in Bad : u <= v
    <3> HIDE DEF Bad
    <3>1. QED
      BY <2>1, LeastNatural
  <2>3. u \in Recent /\ t < u /\ u \in Nat /\ t \in Nat
    BY <1>1
  <2>4. PICK w \in Looked : w < u /\ u - w <= EstimateMaxAge
    <3>1. Looked \subseteq Nat
      <4>1. Retained \ Recent # {} => LatestOf(Retained \ Recent) \in Retained
        BY <1>1, LatestIsLatest
      <4>2. QED
        BY <1>0, <4>1 DEF Looked
    <3>2. t \in Looked /\ u \in Looked
      BY <2>3 DEF Looked
    <3>3. EarliestOf(Looked) <= t /\ EarliestOf(Looked) \in Nat
      BY <3>1, <3>2, EarliestIsEarliest
    <3>4. u # EarliestOf(Looked)
      BY <2>3, <3>3
    <3>5. QED
      BY <3>2, <3>4 DEF NoGaps, Looked
  <2>5. w \in Recent \/ w < t
    <3>1. CASE Retained \ Recent = {}
      BY <3>1 DEF Looked
    <3>2. CASE Retained \ Recent # {}
      <4> DEFINE before == LatestOf(Retained \ Recent)
      <4>1. before \in Retained \ Recent
        BY <1>1, <3>2, LatestIsLatest
      <4>2. w \in Recent \/ w = before
        BY <3>2 DEF Looked
      <4> HIDE DEF before
      <4>3. before < t
        BY <1>1, <4>1 DEF Recent
      <4>4. QED
        BY <4>2, <4>3
    <3>3. QED
      BY <3>1, <3>2
  <2>6. x(u) \in Int /\ x(t) \in Int /\ x(t) < x(u)
    BY <1>1, <1>2, <2>3
  <2>7. w \in Int /\ u - w <= EstimateMaxAge
    <3>1. w \in Recent \/ w \in Retained
      <4>1. Retained \ Recent # {} => LatestOf(Retained \ Recent) \in Retained
        BY <1>1, LatestIsLatest
      <4>2. QED
        BY <4>1 DEF Looked
    <3>2. w \in Nat
      BY <1>0, <3>1
    <3>3. QED
      BY <2>4, <3>2
  <2> DEFINE gain(a, b) == EstimateMaxAge * (x(b) - x(a))
  <2>8. CASE w <= t
    <3>1. u - t <= EstimateMaxAge
      BY <1>3, <2>3, <2>7, <2>8
    <3>2. gain(t, u) >= EstimateMaxAge
      <4> DEFINE d == x(u) - x(t)
      <4>1. d \in Int /\ d >= 1
        BY <2>6
      <4> HIDE DEF d
      <4>2. EstimateMaxAge * d >= EstimateMaxAge
        BY <1>3, <4>1
      <4>3. QED
        BY <4>2 DEF d
    <3>3. gain(t, u) \in Int
      BY <1>3, <2>6
    <3> HIDE DEF gain
    <3>4. gain(t, u) >= u - t
      BY <1>3, <2>3, <3>1, <3>2, <3>3
    <3>5. QED
      BY <3>4 DEF gain
  <2>9. CASE w > t
    <3>1. w \in Recent
      BY <1>1, <2>3, <2>5, <2>7, <2>9
    <3>2. w \notin Bad
      BY <2>2, <2>3, <2>4, <2>7
    <3>3. gain(t, w) >= w - t
      BY <2>9, <3>1, <3>2
    <3>4. x(w) \in Int /\ x(w) < x(u)
      BY <1>1, <1>2, <2>3, <2>4, <3>1
    <3>5. gain(w, u) >= EstimateMaxAge /\ gain(w, u) \in Int
      <4> DEFINE d == x(u) - x(w)
      <4>1. d \in Int /\ d >= 1
        BY <2>6, <3>4
      <4> HIDE DEF d
      <4>2. EstimateMaxAge * d >= EstimateMaxAge /\ EstimateMaxAge * d \in Int
        BY <1>3, <4>1
      <4>3. QED
        BY <4>2 DEF d
    <3>6. gain(t, u) = gain(t, w) + gain(w, u) /\ gain(t, w) \in Int
      BY <1>3, <2>6, <3>4
    <3> HIDE DEF gain
    <3>7. gain(t, u) >= u - t
      BY <1>3, <2>3, <2>7, <3>3, <3>5, <3>6
    <3>8. QED
      BY <3>7 DEF gain
  <2>10. QED
    BY <2>3, <2>7, <2>8, <2>9
<1>5. ASSUME NEW t \in Recent, NEW u \in Recent, t < u
      PROVE  StopPace * (x(u) - x(t)) > u - t
  <2> DEFINE d == x(u) - x(t)
  <2>1. d \in Int /\ d >= 1 /\ u \in Nat /\ t \in Nat
    BY <1>1, <1>2, <1>5
  <2>2. EstimateMaxAge * d >= u - t
    BY <1>4, <1>5
  <2> HIDE DEF d
  <2>3. StopPace * d > EstimateMaxAge * d
    BY <1>3, <2>1
  <2>4. StopPace * d \in Int /\ EstimateMaxAge * d \in Int
    BY <1>3, <2>1
  <2>5. StopPace * d > u - t
    BY <2>1, <2>2, <2>3, <2>4
  <2>6. QED
    BY <2>5 DEF d
<1>6. QED
  BY <1>5 DEF Outruns, x

\* What the two halves of a mean's tolerance say of two samples.
LEMMA NearTheMean ==
  ASSUME NEW n \in Nat, n >= 1, NEW a \in Int, NEW b \in Int, NEW sum \in Int, NEW r \in Nat,
         n * a - sum <= n * r, sum - n * b <= n * r
  PROVE  a - b <= 2 * r
<1> DEFINE d == a - b - 2 * r
<1>1. d \in Int /\ n * d <= 0
  <2>1. n * d = (n * a - sum) + (sum - n * b) - n * r - n * r
    OBVIOUS
  <2>2. n * a \in Int /\ n * b \in Int /\ n * r \in Int /\ n * d \in Int
    OBVIOUS
  <2> HIDE DEF d
  <2>3. n * d <= 0
    BY <2>1, <2>2
  <2>4. QED
    BY <2>3 DEF d
<1>2. ~(d >= 1)
  <2> HIDE DEF d
  <2>1. d >= 1 => n * d >= n /\ n * d \in Int
    BY <1>1
  <2>2. QED
    BY <1>1, <2>1
<1>3. QED
  BY <1>1, <1>2

(* For any period, margin, tolerance, pace and age: when the detector says  *)
(* that the setpoint has stopped, its samples of the period lie no further  *)
(* apart than twice the tolerance, and they are not, one after the other,   *)
(* faster than the threshold, forwards or backwards.                       *)
THEOREM StopsAreSlow ==
  StopSafety => [](setpoint_stopped =>
                     /\ \A t, u \in Recent : PlaceAt(t) - PlaceAt(u) <= 2 * StopTolerance
                     /\ ~Outruns(StopPace, Recent, setpoint_history)
                     /\ ~Outruns(-StopPace, Recent, setpoint_history))
<1>1. ASSUME StopInv, setpoint_stopped
      PROVE  /\ \A t, u \in Recent : PlaceAt(t) - PlaceAt(u) <= 2 * StopTolerance
             /\ ~Outruns(StopPace, Recent, setpoint_history)
             /\ ~Outruns(-StopPace, Recent, setpoint_history)
  <2>1. ASSUME NEW t \in Recent, NEW u \in Recent
        PROVE  PlaceAt(t) - PlaceAt(u) <= 2 * StopTolerance
    <3>1. Count \in Nat /\ PlaceSum \in Int /\ PlaceAt(t) \in Int /\ PlaceAt(u) \in Int
      BY <1>1, PeriodIsSampled DEF Samples, PlaceAt
    <3>2. StopTolerance \in Nat /\ Count >= 1
      BY <1>1, <3>1, StopAssumption DEF setpoint_stopped
    <3>3. /\ Count * PlaceAt(t) - PlaceSum <= Count * StopTolerance
          /\ PlaceSum - Count * PlaceAt(u) <= Count * StopTolerance
      BY <1>1 DEF setpoint_stopped, StaysNear
    <3>4. QED
      BY <3>1, <3>2, <3>3, NearTheMean
  <2>2. IsSlow
    BY <1>1 DEF setpoint_stopped
  <2>3. QED
    BY <1>1, <2>1, <2>2, FastIsNotSlow
<1>2. StopInv => (setpoint_stopped =>
                    /\ \A t, u \in Recent : PlaceAt(t) - PlaceAt(u) <= 2 * StopTolerance
                    /\ ~Outruns(StopPace, Recent, setpoint_history)
                    /\ ~Outruns(-StopPace, Recent, setpoint_history))
  BY <1>1
<1>3. QED
  BY <1>2, StopInvHolds, PTL

(* A stop is genuine: with a threshold below one unit of place in the age   *)
(* at which a setpoint is stale, for any period, margin and tolerance.      *)
THEOREM StopsAreGenuine ==
  ASSUME StopPace > EstimateMaxAge
  PROVE  StopSafety => []StopIsGenuine
<1>1. StopInv /\ setpoint_stopped => ~MovesOn
  <2>1. StopInv /\ setpoint_stopped => IsSlow /\ NoGaps
    BY DEF setpoint_stopped
  <2>2. QED
    BY <2>1, FastIsNotSlow, MovingOnIsFast
<1>2. StopInv /\ (setpoint_stopped => NoDropout) => StopIsGenuine
  BY <1>1 DEF StopIsGenuine
<1>3. QED
  BY <1>2, StopInvHolds, StopsAreHeard, PTL
=============================================================================
