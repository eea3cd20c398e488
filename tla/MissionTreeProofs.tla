-------------------------- MODULE MissionTreeProofs --------------------------
(***************************************************************************)
(* Proofs about the two mission trees, that of Evolo's proximity           *)
(* operations and that of ALARS: for any number of goals, retries and      *)
(* ranges, whatever the servers answer and whenever a mission is           *)
(* cancelled.                                                              *)
(*                                                                         *)
(* A visit to a subtree, Comes, is what the trees share: it keeps every    *)
(* client in order (LinkInv of ActionLinkProofs), and what it does to the  *)
(* leaves is all that the invariants of the trees need of it.              *)
(***************************************************************************)
EXTENDS MCMissionTrees, ActionLinkProofs

TreeClients == {Inspect, Intercept, Patrol,
                RecoverBuoy, RecoverNoBuoy, Vulture, SearchLocal, SearchGlobal}

USE DEF Inspect, Intercept, Patrol, RecoverBuoy, RecoverNoBuoy, Vulture, SearchLocal, SearchGlobal
USE DEF running_states, failure_states, success_states

LEMMA ClientsAreServers == TreeClients \subseteq Servers
  BY ProxClients, AlarsClients DEF TreeClients

LEMMA Orders ==
  ASSUME NEW order \in {ProxOrder, AlarsOrder}
  PROVE  /\ Head(order) \in TreeClients
         /\ \A j \in 2..Len(order) : order[j] \in TreeClients
<1>1. CASE order = ProxOrder
  BY <1>1 DEF ProxOrder, TreeClients
<1>2. CASE order = AlarsOrder
  <2>1. Len(AlarsOrder) = 5 /\ Head(AlarsOrder) = RecoverBuoy
    BY DEF AlarsOrder
  <2>2. \A j \in 1..5 : AlarsOrder[j] \in TreeClients
    <3>1. /\ AlarsOrder[1] = RecoverBuoy /\ AlarsOrder[2] = RecoverNoBuoy
          /\ AlarsOrder[3] = Vulture /\ AlarsOrder[4] = SearchLocal /\ AlarsOrder[5] = SearchGlobal
      BY DEF AlarsOrder
    <3>2. \A j \in 1..5 : j = 1 \/ j = 2 \/ j = 3 \/ j = 4 \/ j = 5
      OBVIOUS
    <3>3. QED
      BY <3>1, <3>2 DEF TreeClients
  <2>3. QED
    BY <1>2, <2>1, <2>2 DEF TreeClients
<1>3. QED
  BY <1>1, <1>2

\* The intercepting subtree stops the patrol when it does not fail.
LEMMA PatrolIsBelow == Patrol \in Below(ProxOrder, Intercept)
<1>1. ProxOrder[2] = Intercept /\ ProxOrder[3] = Patrol /\ DOMAIN ProxOrder = 1..3
  BY DEF ProxOrder
<1>2. 3 \in {k \in DOMAIN ProxOrder : \E i \in 1..(k - 1) : ProxOrder[i] = Intercept}
  <2>1. 2 \in 1..(3 - 1)
    OBVIOUS
  <2>2. QED
    BY <1>1, <2>1
<1>3. QED
  BY <1>1, <1>2 DEF Below
-----------------------------------------------------------------------------
(* The clients.  Here an answer reaches the client as it is given: nothing but *)
(* a request to cancel is ever under way.                                  *)

ClientOK(k) == LinkOK(k) /\ \A g \in Slots : k.goals[g].transit \subseteq {"cancel"}

ClientsInv ==
  /\ LinkInv
  /\ \A s \in Servers : ClientOK(link[s])

LEMMA CancelKeepsClient ==
  ASSUME NEW k, ClientOK(k)
  PROVE  ClientOK(cancel_if_running(k))
<1>1. LinkOK(cancel_if_running(k))
  BY CancelIfRunningOK DEF ClientOK
<1>2. CASE k.state \in running_states /\ k.handle # NoSlot
  <2> DEFINE h == k.handle
             c == cancel_if_running(k)
  <2>1. h \in Slots /\ k.goals \in [Slots -> Goal] /\ k \in Link
    BY <1>2 DEF ClientOK, LinkOK, Link
  <2>2. c = [k EXCEPT !.state = "CANCELLING",
                      !.goals = [k.goals EXCEPT ![h] =
                        [k.goals[h] EXCEPT !.transit = k.goals[h].transit \cup {"cancel"}]]]
    BY <1>2, <2>1 DEF cancel_if_running, cancel_goal, Link, Goal
  <2>3. \A g \in Slots : c.goals[g].transit \subseteq k.goals[g].transit \cup {"cancel"}
    BY <2>1, <2>2 DEF Link, Goal
  <2>4. QED
    BY <1>1, <2>3 DEF ClientOK
<1>3. CASE ~(k.state \in running_states /\ k.handle # NoSlot)
  BY <1>3 DEF cancel_if_running, cancel_goal
<1>4. QED
  BY <1>2, <1>3

LEMMA ReadyKeepsClient ==
  ASSUME NEW k, ClientOK(k)
  PROVE  ClientOK(get_ready(k)) /\ get_ready(k).state = "READY"
  BY GetReadyOK DEF ClientOK, get_ready, LinkOK, Link

LEMMA TerminateKeepsClient ==
  ASSUME NEW k, ClientOK(k), NEW st
  PROVE  ClientOK(terminate(k, st))
  BY CancelKeepsClient, ReadyKeepsClient DEF terminate

LEMMA UpdateKeepsClient ==
  ASSUME NEW k, ClientOK(k), NEW g \in Slots,
         NEW o \in {"recover", "send", "wait", "fail", "succeed"}, o = "send" => Unused(k, g)
  PROVE  ClientOK(AfterUpdate(k, o, g))
<1>1. CASE o = "recover"
  BY <1>1, ReadyKeepsClient DEF AfterUpdate
<1>2. CASE o = "send"
  <2> DEFINE c == send_goal(k, g)
             new == [stage |-> "requested", transit |-> {}]
  <2>1. LinkOK(c)
    BY <1>2, SendGoalOK DEF ClientOK
  <2>2. k.goals \in [Slots -> Goal] /\ k \in Link
    BY DEF ClientOK, LinkOK, Link
  <2>3. c = [k EXCEPT !.state = "SENT", !.goals = [k.goals EXCEPT ![g] = new]]
    BY <2>2 DEF send_goal, Link
  <2>4. \A i \in Slots : c.goals[i].transit \subseteq k.goals[i].transit
    BY <2>2, <2>3 DEF Link
  <2>5. ClientOK(c)
    BY <2>1, <2>4 DEF ClientOK
  <2>6. QED
    BY <1>2, <2>5 DEF AfterUpdate
<1>3. CASE o = "wait"
  BY <1>3 DEF AfterUpdate
<1>4. CASE o \in {"fail", "succeed"}
  BY <1>4, TerminateKeepsClient DEF AfterUpdate
<1>5. QED
  BY <1>1, <1>2, <1>3, <1>4

\* Between two missions no tick is under way, and a leaf still RUNNING is one
\* that the last mission has left.
BetweenMissions == {"none", "accepted"} \cup Over

MissionInv ==
  /\ ClientsInv
  /\ mission \in Stages
  /\ visiting \in TreeClients \cup {"between", "after"}
  /\ root_failed \in BOOLEAN
  /\ left_over \subseteq Servers
  /\ mission \in BetweenMissions => visiting = "between" /\ RunningLeaves \subseteq left_over

LEMMA StoppedOK ==
  ASSUME ClientsInv, NEW s \in Servers
  PROVE  ClientOK(Stopped(s))
  BY TerminateKeepsClient DEF ClientsInv, Stopped

\* What update comes to, in each state a client can be in.
LEMMA UpdateCases ==
  ASSUME NEW k, LinkOK(k)
  PROVE  /\ LeafUpdate(k) \in {"recover", "send", "wait", "fail", "succeed"}
         /\ OutcomeStatus(LeafUpdate(k)) \in LeafStatus
         /\ k.state = "READY" => LeafUpdate(k) = "send"
         /\ k.state \in running_states => LeafUpdate(k) = "wait"
<1>1. k.state \in ActionClientState
  BY DEF LinkOK, Link
<1>2. /\ LeafUpdate(k) \in {"recover", "send", "wait", "fail", "succeed"}
      /\ k.state = "READY" => LeafUpdate(k) = "send"
      /\ k.state \in running_states => LeafUpdate(k) = "wait"
  <2>1. CASE k.state = "CANCELLED"
    BY <2>1 DEF LeafUpdate
  <2>2. CASE k.state = "READY"
    BY <2>2 DEF LeafUpdate
  <2>3. CASE k.state \in running_states
    BY <2>3 DEF LeafUpdate
  <2>4. CASE k.state \in failure_states \ {"CANCELLED"}
    BY <2>4 DEF LeafUpdate
  <2>5. CASE k.state \in success_states
    BY <2>5 DEF LeafUpdate
  <2>6. QED
    BY <1>1, <2>1, <2>2, <2>3, <2>4, <2>5 DEF ActionClientState
<1>3. OutcomeStatus(LeafUpdate(k)) \in LeafStatus
  <2> DEFINE o == LeafUpdate(k)
  <2>1. o \in {"recover", "send", "wait", "fail", "succeed"}
    BY <1>2
  <2> HIDE DEF o
  <2>2. OutcomeStatus(o) \in LeafStatus
    BY <2>1 DEF OutcomeStatus, LeafStatus
  <2>3. QED
    BY <2>2 DEF o
<1>4. QED
  BY <1>2, <1>3

\* A client that was set up is READY or busy: its action comes to RUNNING.
LEMMA SetUpRuns ==
  ASSUME NEW k, LinkOK(k), k.state = "READY" \/ k.state \in running_states
  PROVE  OutcomeStatus(LeafUpdate(cancel_if_running(k))) = "RUNNING"
<1> DEFINE c == cancel_if_running(k)
<1>1. LinkOK(c)
  BY CancelIfRunningOK
<1>2. c.state = "READY" \/ c.state \in running_states
  <2>1. k \in Link
    BY DEF LinkOK
  <2>2. QED
    BY <2>1 DEF cancel_if_running, cancel_goal, Link
<1>3. LeafUpdate(c) \in {"send", "wait"}
  <2> HIDE DEF c
  <2> QED
    BY <1>1, <1>2, UpdateCases
<1>4. QED
  BY <1>3 DEF OutcomeStatus

\* Links in order, leaves typed: the invariant of all clients.
LEMMA LinksInOrder ==
  ASSUME link' \in [Servers -> Link], \A x \in Servers : ClientOK(link'[x]),
         leaf' \in [Servers -> [status : LeafStatus, timed : BOOLEAN]]
  PROVE  ClientsInv'
<1>1. \A x \in Servers : ClientOK(link[x])'
  BY DEF ClientOK, LinkOK, Expects, LateMessages
<1>2. QED
  BY <1>1 DEF ClientsInv, LinkInv, ClientOK, LinkOK, Expects, LateMessages

LEMMA SameLinks ==
  ASSUME ClientsInv, UNCHANGED <<link, leaf>> PROVE ClientsInv'
  BY DEF ClientsInv, LinkInv, ClientOK, LinkOK, Expects, LateMessages

LEMMA ResetKeepsLinks ==
  ASSUME ClientsInv, ClientsReset, UNCHANGED leaf
  PROVE  ClientsInv'
<1>1. \A s \in Servers : ClientOK(terminate(link[s], "INVALID"))
  BY TerminateKeepsClient DEF ClientsInv
<1>2. \A s \in Servers : terminate(link[s], "INVALID") \in Link
  BY <1>1 DEF ClientOK, LinkOK
<1>3. /\ link' \in [Servers -> Link]
      /\ \A s \in Servers : link'[s] = terminate(link[s], "INVALID")
  BY <1>2 DEF ClientsReset
<1>4. QED
  BY <1>1, <1>3, LinksInOrder DEF ClientsInv, LinkInv

\* A visit to the subtree of s keeps the links in order, and ...
LEMMA ComesKeepsLinks ==
  ASSUME ClientsInv, NEW order, NEW s \in Servers, NEW k, ClientOK(k), NEW f \in LeafStatus,
         NEW status, Comes(order, s, k, f, status)
  PROVE  ClientsInv'
<1> DEFINE stopped == IF status = "FAILURE" THEN {}
                      ELSE {x \in Below(order, s) : leaf[x].status # "INVALID"}
           K(x) == IF x = s THEN k
                   ELSE IF x \in stopped THEN terminate(link[x], "INVALID") ELSE link[x]
           F(x) == IF x = s THEN [leaf[x] EXCEPT !.status = f]
                   ELSE IF x \in stopped THEN [leaf[x] EXCEPT !.status = "INVALID"] ELSE leaf[x]
<1>1. link' = [x \in Servers |-> K(x)] /\ leaf' = [x \in Servers |-> F(x)]
  BY DEF Comes
<1>2. \A x \in Servers : ClientOK(K(x))
  <2> HIDE DEF stopped
  <2> QED
    BY TerminateKeepsClient DEF ClientsInv
<1>3. \A x \in Servers : F(x) \in [status : LeafStatus, timed : BOOLEAN]
  <2> HIDE DEF stopped
  <2> QED
    BY DEF ClientsInv, LinkInv, LeafStatus
<1> HIDE DEF K, F
<1>4. \A x \in Servers : K(x) \in Link
  BY <1>2 DEF ClientOK, LinkOK
<1>5. QED
  BY <1>1, <1>2, <1>3, <1>4, LinksInOrder

\* ... leaves the others' leaves as they are, or stopped.
LEMMA ComesLeaves ==
  ASSUME ClientsInv, NEW order, NEW s \in Servers, NEW k, NEW f \in LeafStatus,
         NEW status, Comes(order, s, k, f, status)
  PROVE  /\ leaf'[s].status = f
         /\ \A x \in Servers \ {s} : leaf'[x].status \in {leaf[x].status, "INVALID"}
         /\ status # "FAILURE" =>
              \A x \in Below(order, s) \cap Servers : x # s => leaf'[x].status = "INVALID"
         /\ left_over' = {x \in left_over : leaf'[x].status = "RUNNING"}
<1> DEFINE stopped == IF status = "FAILURE" THEN {}
                      ELSE {x \in Below(order, s) : leaf[x].status # "INVALID"}
           F(x) == IF x = s THEN [leaf[x] EXCEPT !.status = f]
                   ELSE IF x \in stopped THEN [leaf[x] EXCEPT !.status = "INVALID"] ELSE leaf[x]
<1>1. /\ leaf' = [x \in Servers |-> F(x)]
      /\ left_over' = {x \in left_over : leaf'[x].status = "RUNNING"}
  BY DEF Comes
<1>2. \A x \in Servers : leaf[x] \in [status : LeafStatus, timed : BOOLEAN]
  BY DEF ClientsInv, LinkInv
<1>3. \A x \in Servers : leaf'[x] = F(x)
  <2> HIDE DEF F
  <2> QED
    BY <1>1
<1>4. leaf'[s].status = f
  BY <1>2, <1>3
<1>5. \A x \in Servers \ {s} : leaf'[x].status \in {leaf[x].status, "INVALID"}
  <2> HIDE DEF stopped
  <2> QED
    BY <1>2, <1>3
<1>6. ASSUME status # "FAILURE", NEW x \in Below(order, s) \cap Servers, x # s
      PROVE  leaf'[x].status = "INVALID"
  BY <1>2, <1>3, <1>6
<1>7. QED
  BY <1>1, <1>4, <1>5, <1>6

-----------------------------------------------------------------------------
(* The visits. *)

\* The subtree of s comes to status, its leaf to f, and its client is in order.
Visited(order, s, f, status) ==
  /\ visiting = s /\ mission' = mission
  /\ f \in LeafStatus
  /\ \E k \in Link : ClientOK(k) /\ Comes(order, s, k, f, status)

LEMMA Visits ==
  ASSUME ClientsInv, NEW order, NEW s \in Servers
  PROVE  /\ PostHolds(order, s) => Visited(order, s, "INVALID", "SUCCESS")
         /\ \A comes : Untried(order, s, comes) =>
              Visited(order, s, "INVALID", comes) /\ ~LeafRuns(s)
         /\ \A f, comes : ResumeAction(order, s, f, comes) =>
              Visited(order, s, f, comes) /\ LeafRuns(s)
         /\ \A setup \in BOOLEAN : \A f, comes : TryAction(order, s, setup, f, comes) =>
              /\ Visited(order, s, f, comes) /\ ~LeafRuns(s)
              /\ setup => f = "RUNNING"
<1>1. ClientOK(Stopped(s)) /\ Stopped(s) \in Link
  BY StoppedOK DEF ClientOK, LinkOK
<1>2. PostHolds(order, s) => Visited(order, s, "INVALID", "SUCCESS")
  BY <1>1 DEF PostHolds, Visited, LeafStatus
<1>3. \A comes : Untried(order, s, comes) =>
        Visited(order, s, "INVALID", comes) /\ ~LeafRuns(s)
  BY <1>1 DEF Untried, Visited, LeafStatus
<1>4. ASSUME NEW k, ClientOK(k), NEW f, NEW comes, visiting = s, TickAction(order, s, k, f, comes)
      PROVE  Visited(order, s, f, comes) /\ f = OutcomeStatus(LeafUpdate(k))
  <2> DEFINE o == LeafUpdate(k)
  <2>1. /\ OutcomeStatus(o) = f /\ mission' = mission
        /\ \E g \in Slots : (o = "send" => Unused(k, g)) /\ Comes(order, s, AfterUpdate(k, o, g), f, comes)
    BY <1>4 DEF TickAction
  <2>2. o \in {"recover", "send", "wait", "fail", "succeed"} /\ OutcomeStatus(o) \in LeafStatus
    BY <1>4, UpdateCases DEF ClientOK
  <2> HIDE DEF o
  <2>3. PICK g \in Slots : (o = "send" => Unused(k, g)) /\ Comes(order, s, AfterUpdate(k, o, g), f, comes)
    BY <2>1
  <2>4. ClientOK(AfterUpdate(k, o, g))
    BY <1>4, <2>2, <2>3, UpdateKeepsClient
  <2>5. QED
    BY <1>4, <2>1, <2>2, <2>3, <2>4 DEF Visited, ClientOK, LinkOK, o
<1>5. \A f, comes : ResumeAction(order, s, f, comes) => Visited(order, s, f, comes) /\ LeafRuns(s)
  BY <1>4 DEF ResumeAction, ClientsInv
<1>6. ASSUME NEW setup \in BOOLEAN, NEW f, NEW comes, TryAction(order, s, setup, f, comes)
      PROVE  Visited(order, s, f, comes) /\ ~LeafRuns(s) /\ (setup => f = "RUNNING")
  <2> DEFINE k == Stopped(s)
             r == IF setup /\ k.state \notin running_states THEN get_ready(k) ELSE k
  <2>1. ClientOK(r) /\ (setup => r.state = "READY" \/ r.state \in running_states)
    BY <1>1, ReadyKeepsClient
  <2>2. visiting = s /\ ~LeafRuns(s) /\ TickAction(order, s, cancel_if_running(r), f, comes)
    BY <1>6 DEF TryAction
  <2> HIDE DEF r
  <2>3. ClientOK(cancel_if_running(r))
    BY <2>1, CancelKeepsClient
  <2>4. setup => OutcomeStatus(LeafUpdate(cancel_if_running(r))) = "RUNNING"
    BY <2>1, SetUpRuns DEF ClientOK
  <2>5. QED
    BY <1>4, <2>2, <2>3, <2>4
<1>7. QED
  BY <1>2, <1>3, <1>5, <1>6

\* A visit keeps the invariant of the missions: no mission ends in it.
LEMMA VisitKeepsInv ==
  ASSUME MissionInv, NEW order \in {ProxOrder, AlarsOrder}, NEW s \in TreeClients,
         NEW f, NEW status, Visited(order, s, f, status)
  PROVE  MissionInv'
<1>1. PICK k \in Link : ClientOK(k) /\ Comes(order, s, k, f, status)
  BY DEF Visited
<1>2. s \in Servers /\ ClientsInv /\ f \in LeafStatus
  BY ClientsAreServers DEF MissionInv, Visited
<1>3. ClientsInv'
  BY <1>1, <1>2, ComesKeepsLinks
<1>4. left_over' \subseteq left_over
  BY <1>1, <1>2, ComesLeaves
<1>5. visiting' \in TreeClients \cup {"after"} /\ root_failed' \in BOOLEAN
  BY <1>1, Orders DEF Comes, MissionInv
<1>6. mission' = mission /\ mission \notin BetweenMissions
  BY DEF Visited, MissionInv, TreeClients
<1>7. QED
  BY <1>3, <1>4, <1>5, <1>6 DEF MissionInv
\* Whatever a visit finds of the conditions.
Visit(order, s) ==
  \/ PostHolds(order, s)
  \/ \E comes : Untried(order, s, comes)
  \/ \E f, comes : ResumeAction(order, s, f, comes)
  \/ \E setup \in BOOLEAN : \E f, comes : TryAction(order, s, setup, f, comes)

LEMMA AnyVisitKeepsInv ==
  ASSUME MissionInv, NEW order \in {ProxOrder, AlarsOrder}, NEW s \in TreeClients,
         Visit(order, s)
  PROVE  MissionInv'
<1>1. ClientsInv /\ s \in Servers
  BY ClientsAreServers DEF MissionInv
<1>2. \E f, status : Visited(order, s, f, status)
  BY <1>1, Visits DEF Visit
<1>3. QED
  BY <1>2, VisitKeepsInv
-----------------------------------------------------------------------------
(* The answers of the servers. *)

LEMMA AnswersKeepLinks ==
  ASSUME ClientsInv, NEW s \in Servers, NEW accepting \in BOOLEAN, ServerAnswers(s, accepting)
  PROVE  ClientsInv' /\ UNCHANGED <<leaf, mission>>
<1>1. \A g \in Slots : /\ link[s].goals[g] \in Goal
                       /\ link[s].state \in ActionClientState
                       /\ link[s].handle \in Slots \cup {NoSlot}
                       /\ "reject" \notin link[s].goals[g].transit
  BY GoalFacts DEF ClientsInv, ClientOK
<1>2. ASSUME NEW g \in Slots, NEW st \in ActionClientState, NEW h \in Slots \cup {NoSlot},
             NEW goal \in Goal, Answers(s, g, st, h, goal), goal.transit = {},
             st \in running_states =>
               \/ goal.stage # "free"
               \/ link[s].state \in running_states /\ link[s].goals[g].stage = "free"
      PROVE  ClientsInv' /\ UNCHANGED <<leaf, mission>>
  <2>1. /\ link' = [link EXCEPT ![s] = [link[s] EXCEPT !.state = st, !.handle = h,
                      !.goals = [link[s].goals EXCEPT ![g] = goal]]]
        /\ UNCHANGED <<leaf, mission>>
    BY <1>2 DEF Answers, ClientsInv, LinkInv, Link
  <2>2. LinkInv'
    BY <1>1, <1>2, <2>1, OneGoalChanges DEF ClientsInv
  <2>3. \A x \in Servers, i \in Slots : link'[x].goals[i].transit \subseteq link[x].goals[i].transit
    BY <1>2, <2>1 DEF ClientsInv, LinkInv, Link
  <2>4. QED
    BY <2>1, <2>2, <2>3 DEF ClientsInv, ClientOK, LinkInv, LinkOK, Expects, LateMessages
<1>3. FreeGoal \in Goal /\ FreeGoal.transit = {}
  BY DEF FreeGoal, Goal, GoalStages
<1>4. PICK g \in Slots :
        \/ AnswersGoal(s, g, FALSE) \/ AnswersGoal(s, g, TRUE)
        \/ \E granted \in BOOLEAN : AnswersCancel(s, g, granted)
        \/ \E stage \in Ended : AnswersResult(s, g, stage)
  BY DEF ServerAnswers
<1>5. CASE AnswersGoal(s, g, FALSE)
  BY <1>2, <1>3, <1>5 DEF AnswersGoal, ActionClientState
<1>6. CASE AnswersGoal(s, g, TRUE)
  <2>1. Answers(s, g, "ACCEPTED", g, [stage |-> "EXECUTING", transit |-> {}])
    BY <1>6 DEF AnswersGoal
  <2>2. [stage |-> "EXECUTING", transit |-> {}] \in Goal
    BY DEF Goal, GoalStages, Underway
  <2>3. QED
    BY <1>2, <2>1, <2>2 DEF ActionClientState
<1>7. CASE AnswersCancel(s, g, TRUE)
  <2>1. Answers(s, g, "CANCELLED", link[s].handle, [stage |-> "CANCELING", transit |-> {}])
    BY <1>7 DEF AnswersCancel
  <2>2. [stage |-> "CANCELING", transit |-> {}] \in Goal
    BY DEF Goal, GoalStages, Underway
  <2>3. QED
    BY <1>1, <1>2, <2>1, <2>2 DEF ActionClientState
<1>8. CASE AnswersCancel(s, g, FALSE)
  <2> DEFINE goal == link[s].goals[g]
             left == [goal EXCEPT !.transit = {}]
  <2>1. Answers(s, g, link[s].state, link[s].handle, left) /\ "cancel" \in goal.transit
    BY <1>8 DEF AnswersCancel
  <2>2. left \in Goal /\ left.transit = {} /\ left.stage = goal.stage
    BY <1>1 DEF Goal
  <2> HIDE DEF left
  <2>3. QED
    BY <1>1, <1>2, <2>1, <2>2
<1>9. ASSUME NEW stage \in Ended, AnswersResult(s, g, stage)
      PROVE  ClientsInv' /\ UNCHANGED <<leaf, mission>>
  <2>1. PICK h \in Slots \cup {NoSlot} : Answers(s, g, ResultState(stage), h, FreeGoal)
    BY <1>1, <1>9 DEF AnswersResult
  <2>2. ResultState(stage) \in ActionClientState \ running_states
    BY DEF ResultState, Ended, ActionClientState
  <2>3. QED
    BY <1>2, <1>3, <2>1, <2>2
<1>10. QED
  BY <1>4, <1>5, <1>6, <1>7, <1>8, <1>9

-----------------------------------------------------------------------------
(* The steps of the missions, between the visits. *)

\* A mission that ends leaves what runs, and no tick under way.
LEMMA EndKeepsInv ==
  ASSUME MissionInv, ClientsInv', UNCHANGED <<leaf, root_failed>>,
         NEW stage \in Over, MissionEnds(stage)
  PROVE  MissionInv'
<1>1. RunningLeaves' = RunningLeaves
  BY DEF RunningLeaves
<1>2. RunningLeaves \subseteq Servers
  BY DEF RunningLeaves
<1>3. QED
  BY <1>1, <1>2 DEF MissionInv, MissionEnds, Stages, Pending

LEMMA GoalKeepsInv ==
  ASSUME MissionInv,
         \/ \E valid \in BOOLEAN : ReceiveMission(valid)
         \/ PrepareMission \/ ReceiveCancel \/ CancelAccepted
  PROVE  MissionInv'
<1>1. UNCHANGED <<leaf, visiting, root_failed, left_over>>
  BY DEF ReceiveMission, PrepareMission, ReceiveCancel, CancelAccepted, linkVars
<1>2. ClientsReset \/ UNCHANGED link
  BY DEF ReceiveMission, PrepareMission, ReceiveCancel, CancelAccepted, linkVars
<1>3. ClientsInv'
  <2>1. CASE ClientsReset
    BY <1>1, <2>1, ResetKeepsLinks DEF MissionInv
  <2>2. CASE UNCHANGED link
    BY <1>1, <2>2, SameLinks DEF MissionInv
  <2>3. QED
    BY <1>2, <2>1, <2>2
<1>4. /\ mission' \in Stages
      /\ mission' \in BetweenMissions => mission \in BetweenMissions
  BY DEF ReceiveMission, PrepareMission, ReceiveCancel, CancelAccepted, MissionRequested,
         MissionStarts, MissionReset, MissionCanceling, BetweenMissions, Stages, Pending, Over, InLoop,
         MissionInv
<1>5. RunningLeaves' = RunningLeaves
  BY <1>1 DEF RunningLeaves
<1>6. QED
  BY <1>1, <1>3, <1>4, <1>5 DEF MissionInv

LEMMA LoopKeepsInv ==
  ASSUME MissionInv, NEW order \in {ProxOrder, AlarsOrder},
         \/ StartTick(order) \/ LoopCanceled \/ LoopGoesOn
         \/ \E succeeds \in BOOLEAN : LoopEnds(succeeds)
  PROVE  MissionInv'
<1>1. CASE StartTick(order)
  <2>1. /\ UNCHANGED <<link, leaf, mission, left_over>> /\ root_failed' = FALSE
        /\ mission \in InLoop /\ visiting' \in TreeClients
    BY <1>1, Orders DEF StartTick, linkVars
  <2>2. ClientsInv'
    BY <2>1, SameLinks DEF MissionInv
  <2>3. QED
    BY <2>1, <2>2 DEF MissionInv, BetweenMissions, InLoop, Over
<1>2. CASE LoopCanceled
  <2>1. UNCHANGED <<link, leaf, root_failed>> /\ MissionEnds("canceled")
    BY <1>2 DEF LoopCanceled, linkVars
  <2>2. ClientsInv'
    BY <2>1, SameLinks DEF MissionInv
  <2>3. QED
    BY <2>1, <2>2, EndKeepsInv DEF Over
<1>3. CASE LoopGoesOn
  <2>1. /\ UNCHANGED <<link, leaf, mission, root_failed, left_over>>
        /\ visiting = "after" /\ visiting' = "between"
    BY <1>3 DEF LoopGoesOn, linkVars
  <2>2. ClientsInv'
    BY <2>1, SameLinks DEF MissionInv
  <2>3. QED
    BY <2>1, <2>2 DEF MissionInv
<1>4. ASSUME NEW succeeds \in BOOLEAN, LoopEnds(succeeds) PROVE MissionInv'
  <2>1. /\ ClientsReset /\ UNCHANGED <<leaf, root_failed>>
        /\ MissionEnds("succeeded") \/ MissionEnds("aborted")
    BY <1>4 DEF LoopEnds
  <2>2. ClientsInv'
    BY <2>1, ResetKeepsLinks DEF MissionInv
  <2>3. QED
    BY <2>1, <2>2, EndKeepsInv DEF Over
<1>5. QED
  BY <1>1, <1>2, <1>3, <1>4

LEMMA AnswersKeepInv ==
  ASSUME MissionInv, NEW s \in Servers, NEW accepting \in BOOLEAN, ServersAnswer(s, accepting)
  PROVE  MissionInv' /\ UNCHANGED <<leaf, mission, visiting, root_failed, left_over>>
<1>1. ClientsInv' /\ UNCHANGED <<leaf, mission>>
  BY AnswersKeepLinks DEF ServersAnswer, MissionInv
<1>2. RunningLeaves' = RunningLeaves
  BY <1>1 DEF RunningLeaves
<1>3. QED
  BY <1>1, <1>2 DEF ServersAnswer, MissionInv

LEMMA ProxKeepsInv ==
  ASSUME MissionInv, ProxNext PROVE MissionInv'
<1> USE ClientsAreServers
<1>1. MissionInv => ClientsInv
  BY DEF MissionInv
<1>2. CASE ProxGoal
  BY <1>2, GoalKeepsInv DEF ProxGoal
<1>3. CASE ProxTick
  <2>1. CASE StartTick(ProxOrder) \/ LoopCanceled
    BY <2>1, LoopKeepsInv
  <2>2. CASE VisitInspect
    <3>1. Visit(ProxOrder, Inspect)
      BY <2>2 DEF VisitInspect, Visit
    <3>2. QED
      BY <3>1, AnyVisitKeepsInv DEF TreeClients
  <2>3. CASE VisitIntercept
    <3>1. Visit(ProxOrder, Intercept)
      BY <2>3 DEF VisitIntercept, Visit
    <3>2. QED
      BY <3>1, AnyVisitKeepsInv DEF TreeClients
  <2>4. CASE VisitPatrol
    <3>1. Visit(ProxOrder, Patrol)
      BY <2>4 DEF VisitPatrol, Visit
    <3>2. QED
      BY <3>1, AnyVisitKeepsInv DEF TreeClients
  <2>5. CASE AfterProxTick
    BY <2>5, LoopKeepsInv DEF AfterProxTick
  <2>6. QED
    BY <1>3, <2>1, <2>2, <2>3, <2>4, <2>5 DEF ProxTick
<1>4. CASE ProxServers
  BY <1>4, AnswersKeepInv DEF ProxServers, TreeClients, Executes
<1>5. CASE Elapse
  <2>1. UNCHANGED <<link, leaf, mission, visiting, root_failed, left_over>>
    BY <1>5 DEF Elapse, linkVars, missionVars
  <2>2. QED
    BY <2>1, SameLinks DEF MissionInv, RunningLeaves
<1>6. ASSUME NEW stage \in {"raised", "broken"}, CancelDuringTest(stage) PROVE MissionInv'
  <2>1. ClientsReset /\ UNCHANGED <<leaf, root_failed>> /\ MissionEnds(stage)
    BY <1>6 DEF CancelDuringTest
  <2>2. ClientsInv'
    BY <2>1, ResetKeepsLinks DEF MissionInv
  <2>3. QED
    BY <2>1, <2>2, EndKeepsInv DEF Over
<1>7. QED
  BY <1>2, <1>3, <1>4, <1>5, <1>6 DEF ProxNext

LEMMA AlarsKeepsInv ==
  ASSUME MissionInv, AlarsNext PROVE MissionInv'
<1> USE ClientsAreServers
<1>1. CASE AlarsGoal
  BY <1>1, GoalKeepsInv DEF AlarsGoal
<1>2. CASE AlarsTick
  <2>1. CASE StartTick(AlarsOrder) \/ LoopCanceled
    BY <2>1, LoopKeepsInv
  <2>2. ASSUME NEW s \in {RecoverBuoy, RecoverNoBuoy}, NEW enabled, VisitRecover(s, enabled)
        PROVE  MissionInv'
    <3>1. Visit(AlarsOrder, s)
      BY <2>2 DEF VisitRecover, Visit
    <3>2. QED
      BY <3>1, AnyVisitKeepsInv DEF TreeClients
  <2>3. CASE VisitVulture
    <3>1. Visit(AlarsOrder, Vulture)
      BY <2>3 DEF VisitVulture, Visit
    <3>2. QED
      BY <3>1, AnyVisitKeepsInv DEF TreeClients
  <2>4. ASSUME NEW s \in {SearchLocal, SearchGlobal}, NEW enabled, VisitSearch(s, enabled)
        PROVE  MissionInv'
    <3>1. Visit(AlarsOrder, s)
      BY <2>4 DEF VisitSearch, Visit
    <3>2. QED
      BY <3>1, AnyVisitKeepsInv DEF TreeClients
  <2>5. CASE AfterAlarsTick
    BY <2>5, LoopKeepsInv DEF AfterAlarsTick
  <2>6. QED
    BY <1>2, <2>1, <2>2, <2>3, <2>4, <2>5 DEF AlarsTick
<1>3. CASE AlarsServers
  <2>1. PICK i \in DOMAIN AlarsOrder :
          ServersAnswer(AlarsOrder[i], \A x \in SameServer(AlarsOrder[i]) : ~Executes(x))
    BY <1>3 DEF AlarsServers
  <2>2. AlarsOrder[i] \in TreeClients
    BY <2>1 DEF AlarsOrder, TreeClients
  <2> DEFINE accepting == \A x \in SameServer(AlarsOrder[i]) : ~Executes(x)
  <2>3. accepting \in BOOLEAN
    OBVIOUS
  <2> HIDE DEF accepting
  <2>4. ServersAnswer(AlarsOrder[i], accepting)
    BY <2>1 DEF accepting
  <2>5. QED
    BY <2>2, <2>3, <2>4, AnswersKeepInv
<1>4. QED
  BY <1>1, <1>2, <1>3 DEF AlarsNext
-----------------------------------------------------------------------------
(* The theorems. *)

LEMMA MissionInitInv == MissionInit => MissionInv
<1> SUFFICES ASSUME MissionInit PROVE MissionInv
  OBVIOUS
<1>1. LinkInv
  BY InitInv DEF MissionInit
<1>2. \A s \in Servers : ClientOK(link[s])
  BY <1>1 DEF MissionInit, LinkInit, FreshLink, FreeGoal, ClientOK, LinkInv
<1>3. RunningLeaves = {}
  BY DEF MissionInit, LinkInit, RunningLeaves
<1>4. QED
  BY <1>1, <1>2, <1>3 DEF MissionInit, MissionInv, ClientsInv, Stages

LEMMA MissionStepInv == MissionInv /\ [Next]_missionTreeVars => MissionInv'
<1> SUFFICES ASSUME MissionInv, [Next]_missionTreeVars PROVE MissionInv'
  OBVIOUS
<1>1. CASE Next
  BY <1>1, ProxKeepsInv, AlarsKeepsInv DEF Next
<1>2. CASE UNCHANGED missionTreeVars
  <2>1. UNCHANGED <<link, leaf, mission, visiting, root_failed, left_over>>
    BY <1>2 DEF missionTreeVars, linkVars, missionVars
  <2>2. QED
    BY <2>1, SameLinks DEF MissionInv, RunningLeaves
<1>3. QED
  BY <1>1, <1>2

\* What the two trees share: every client in order, and a leaf that still runs
\* between two missions counted among what the last one has left.
THEOREM MissionInvHolds == Spec => []MissionInv
  BY MissionInitInv, MissionStepInv, PTL DEF Spec, Init

\* Every variable that the trees share keeps its type.
THEOREM MissionTypeCorrect == Spec => []MissionTypeOK
<1>1. MissionInv => MissionTypeOK
  BY ClientsAreServers DEF MissionInv, ClientsInv, LinkInv, LinkTypeOK, MissionTypeOK
<1>2. QED
  BY <1>1, MissionInvHolds, PTL

\* In the mission trees, too, a client that waits has something to come.
THEOREM MissionClientsWaitForSomething == Spec => []WaitsForSomething
<1>1. MissionInv => WaitsForSomething
  BY DEF MissionInv, ClientsInv, LinkInv, LinkOK, Expects, WaitsForSomething
<1>2. QED
  BY <1>1, MissionInvHolds, PTL
-----------------------------------------------------------------------------
(* A success of ALARS was measured: what says that the recovery succeeded is *)
(* set by a tick in which the load hung on the cell, and reset, like the    *)
(* history, when a mission starts.                                         *)

MeasuredInv ==
  /\ recovery_success => hung
  /\ node = "alars_bt" => SuccessIsMeasured

LEMMA MeasuredStep == MeasuredInv /\ [Next]_missionTreeVars => MeasuredInv'
<1> SUFFICES ASSUME MeasuredInv, [Next]_missionTreeVars PROVE MeasuredInv'
  OBVIOUS
<1> USE DEF MeasuredInv, SuccessIsMeasured
<1>1. CASE UNCHANGED missionTreeVars
  BY <1>1 DEF missionTreeVars, missionVars, alarsVars
<1>2. CASE node = "prox_ops_bt" /\ ProxNext /\ UNCHANGED alarsVars /\ UNCHANGED node
  BY <1>2 DEF alarsVars
<1>3. CASE node = "alars_bt" /\ AlarsGoal /\ UNCHANGED node
  BY <1>3 DEF AlarsGoal, AlarsReset, ReceiveMission, MissionRequested, PrepareMission, MissionStarts,
              ReceiveCancel, MissionReset, CancelAccepted, MissionCanceling, alarsVars
<1>4. CASE node = "alars_bt" /\ AlarsServers /\ UNCHANGED node
  <2>1. PICK s, accepting : ServerAnswers(s, accepting)
    BY <1>4 DEF AlarsServers, ServersAnswer
  <2>2. mission' = mission
    BY <2>1 DEF ServerAnswers, AnswersGoal, AnswersCancel, AnswersResult, Answers
  <2>3. QED
    BY <1>4, <2>2 DEF AlarsServers, alarsVars
<1>5. CASE node = "alars_bt" /\ AfterAlarsTick /\ UNCHANGED node
  BY <1>5 DEF AfterAlarsTick, AlarsReset, LoopEnds, LoopGoesOn, MissionEnds, alarsVars
<1>6. CASE node = "alars_bt" /\ (StartTick(AlarsOrder) \/ LoopCanceled) /\ UNCHANGED <<node, alarsVars>>
  BY <1>6 DEF StartTick, LoopCanceled, MissionEnds, alarsVars
<1>7. ASSUME NEW s, NEW enabled, VisitRecover(s, enabled), UNCHANGED node PROVE MeasuredInv'
  <2>1. mission' = mission
    BY <1>7 DEF VisitRecover, Untried, TryAction, ResumeAction, TickAction
  <2>2. (recovery_success' => hung') /\ (hung => hung')
    <3>1. CASE UNCHANGED <<recovery_success, hung>>
      BY <3>1
    <3>2. CASE \E hanging \in BOOLEAN : recovery_success' = hanging /\ hung' = (hung \/ hanging)
      <4>1. CASE recovery_success' = TRUE /\ hung' = (hung \/ TRUE)
        BY <4>1
      <4>2. CASE recovery_success' = FALSE /\ hung' = (hung \/ FALSE)
        BY <4>2
      <4>3. QED
        BY <3>2, <4>1, <4>2
    <3>3. (\E act : RecoverStatus(s, act)) \/ UNCHANGED <<recovery_success, hung>>
      BY <1>7 DEF VisitRecover
    <3>4. QED
      BY <3>1, <3>2, <3>3 DEF RecoverStatus
  <2>3. QED
    BY <1>7, <2>1, <2>2
<1>8. CASE UNCHANGED node /\ (VisitVulture \/ \E s, enabled : VisitSearch(s, enabled))
  BY <1>8 DEF VisitVulture, VisitSearch, PostHolds, Untried, TryAction, ResumeAction, TickAction
<1>9. QED
  BY <1>1, <1>2, <1>3, <1>4, <1>5, <1>6, <1>7, <1>8 DEF Next, AlarsNext, AlarsTick

\* No mission of ALARS is reported as a success unless the load hung on the cell
\* during that mission: for any number of retries, and any cancellation.
THEOREM RecoveriesAreMeasured == Spec => []RecoveryIsMeasured
<1>1. Init => MeasuredInv
  BY DEF Init, MissionInit, AlarsInit, MeasuredInv, SuccessIsMeasured
<1>2. MeasuredInv => RecoveryIsMeasured
  BY DEF MeasuredInv, RecoveryIsMeasured
<1>3. QED
  BY <1>1, <1>2, MeasuredStep, PTL DEF Spec

-----------------------------------------------------------------------------
(* The backend and the timeouts of the proximity operations. *)

\* The answers of the servers leave the missions alone.
LEMMA AnswersLeaveMissions ==
  ASSUME ProxServers \/ AlarsServers PROVE UNCHANGED <<leaf, mission, visiting, left_over>>
<1>1. PICK s, accepting : ServersAnswer(s, accepting)
  BY DEF ProxServers, AlarsServers
<1>2. QED
  BY <1>1 DEF ServersAnswer, ServerAnswers, AnswersGoal, AnswersCancel, AnswersResult, Answers

LEMMA VisitLeavesMission ==
  ASSUME NEW order, NEW s, Visit(order, s) PROVE mission' = mission
  BY DEF Visit, PostHolds, Untried, TryAction, ResumeAction, TickAction

LEMMA ProxVisits ==
  /\ VisitInspect => Visit(ProxOrder, Inspect)
  /\ VisitIntercept => Visit(ProxOrder, Intercept)
  /\ VisitPatrol => Visit(ProxOrder, Patrol)
<1>1. VisitInspect => Visit(ProxOrder, Inspect)
  BY DEF VisitInspect, Visit
<1>2. VisitIntercept => Visit(ProxOrder, Intercept)
  BY DEF VisitIntercept, Visit
<1>3. VisitPatrol => Visit(ProxOrder, Patrol)
  BY DEF VisitPatrol, Visit
<1>4. QED
  BY <1>1, <1>2, <1>3

\* A flag that a STOP was sent says so of this mission: the backend has had no
\* START since.
StopIsSent ==
  /\ stop_sent # {} => backend = "STOP"
  /\ node = "alars_bt" => inspection = "off" /\ patrol = "off"

LEMMA StopStep == StopIsSent /\ [Next]_missionTreeVars => StopIsSent'
<1> SUFFICES ASSUME StopIsSent, [Next]_missionTreeVars PROVE StopIsSent'
  OBVIOUS
<1> USE DEF StopIsSent, proxVars, timerVars
<1>1. CASE UNCHANGED <<proxVars, node>>
  BY <1>1
<1>2. CASE node = "prox_ops_bt" /\ UNCHANGED node /\ stop_sent' = {}
  BY <1>2
<1>3. CASE node = "prox_ops_bt" /\ UNCHANGED node /\ UNCHANGED <<stop_sent, backend>>
  BY <1>3
<1>4. CASE node = "prox_ops_bt" /\ UNCHANGED node /\ \E S : S # {} /\ StopBackend(S)
  BY <1>4 DEF StopBackend
<1>5. CASE node = "prox_ops_bt" /\ ProxNext /\ UNCHANGED <<alarsVars, node>>
  <2>1. ProxGoal => stop_sent' = {} \/ UNCHANGED proxVars
    BY DEF ProxGoal, ProxReset
  <2>2. \A stage : CancelDuringTest(stage) => stop_sent' = {}
    BY DEF CancelDuringTest, ProxReset
  <2>3. VisitInspect => UNCHANGED <<stop_sent, backend>> \/ StopBackend({"inspection"})
    BY DEF VisitInspect
  <2>4. VisitIntercept \/ Elapse => UNCHANGED <<stop_sent, backend>>
    BY DEF VisitIntercept, Elapse
  <2>5. VisitPatrol => UNCHANGED <<stop_sent, backend>> \/ StopBackend({"patrol"})
    BY DEF VisitPatrol
  <2>6. AfterProxTick => stop_sent' = {} \/ UNCHANGED proxVars
    BY DEF AfterProxTick, ProxReset
  <2>7. ProxServers => UNCHANGED proxVars
    BY DEF ProxServers
  <2>8. \A x : {x} # {}
    OBVIOUS
  <2>9. QED
    BY <1>1, <1>2, <1>3, <1>4, <1>5, <2>1, <2>2, <2>3, <2>4, <2>5, <2>6, <2>7, <2>8
       DEF ProxNext, ProxTick
<1>6. QED
  BY <1>1, <1>5 DEF Next, missionTreeVars

\* A mission of the proximity operations ends by a timeout only once the backend
\* has been told to STOP, whatever was sent for earlier missions.
THEOREM TimeoutsStopTheBackend == Spec => TimeoutStopsBackend
<1>1. Init => StopIsSent
  BY DEF Init, ProxInit, StopIsSent
<1> DEFINE ends == mission' \in {"succeeded", "aborted"} /\ mission' # mission
                     /\ "over" \in {inspection, patrol}
<1>2. ASSUME StopIsSent, [Next]_missionTreeVars, ends PROVE backend' = "STOP"
  <2>1. Next
    BY <1>2 DEF missionTreeVars, missionVars
  <2>2. ProxNext
    BY <1>2, <2>1 DEF Next, StopIsSent
  <2>3. ~ProxGoal
    BY <1>2 DEF ProxGoal, ReceiveMission, MissionRequested, PrepareMission, MissionStarts,
                ReceiveCancel, MissionReset, CancelAccepted, MissionCanceling
  <2>4. ~(StartTick(ProxOrder) \/ LoopCanceled)
    BY <1>2 DEF StartTick, LoopCanceled, MissionEnds
  <2>5. ~(VisitInspect \/ VisitIntercept \/ VisitPatrol)
    BY <1>2, ProxVisits, VisitLeavesMission
  <2>6. ~ProxServers /\ ~Elapse
    BY <1>2, AnswersLeaveMissions DEF Elapse, missionVars
  <2>7. \A stage \in {"raised", "broken"} : ~CancelDuringTest(stage)
    BY <1>2 DEF CancelDuringTest, MissionEnds
  <2>8. AfterProxTick
    BY <2>2, <2>3, <2>4, <2>5, <2>6, <2>7 DEF ProxNext, ProxTick
  <2>9. CASE inspection = "over"
    BY <1>2, <2>8, <2>9 DEF AfterProxTick, StopIsSent
  <2>10. CASE inspection # "over" /\ patrol = "over"
    BY <1>2, <2>8, <2>10 DEF AfterProxTick, StopIsSent
  <2>11. QED
    BY <1>2, <2>9, <2>10
<1>3. StopIsSent /\ [Next]_missionTreeVars
        => [ends => backend' = "STOP"]_<<linkVars, missionVars, proxVars>>
  BY <1>2
<1>4. QED
  BY <1>1, <1>3, StopStep, PTL DEF Spec, TimeoutStopsBackend

-----------------------------------------------------------------------------
(* The timer of the patrol. *)

\* A patrol that this mission has started is timed, or the mission is being
\* cancelled: the cancellation resets the timer and lets the leaf run.
PatrolTimed ==
  /\ LeafRuns(Patrol) /\ Patrol \notin left_over
       => mission \in {"reset", "canceling"} \/ patrol # "off"
  /\ node = "alars_bt" => ~LeafRuns(Patrol)

\* What a visit to another subtree does to the patrol, and one that does not
\* fail to what is below it.
LEMMA PatrolElsewhere ==
  ASSUME MissionInv, NEW order, NEW s \in TreeClients \ {Patrol}, Visit(order, s)
  PROVE  /\ LeafRuns(Patrol)' => LeafRuns(Patrol)
         /\ LeafRuns(Patrol)' /\ Patrol \in left_over => Patrol \in left_over'
<1>1. ClientsInv /\ s \in Servers /\ Patrol \in Servers
  BY ClientsAreServers DEF MissionInv, TreeClients
<1>2. PICK f, status : Visited(order, s, f, status)
  BY <1>1, Visits DEF Visit
<1>3. PICK k \in Link : Comes(order, s, k, f, status) /\ f \in LeafStatus
  BY <1>2 DEF Visited
<1>4. /\ leaf'[Patrol].status \in {leaf[Patrol].status, "INVALID"}
      /\ left_over' = {x \in left_over : leaf'[x].status = "RUNNING"}
  BY <1>1, <1>3, ComesLeaves
<1>5. QED
  BY <1>4 DEF LeafRuns

LEMMA PatrolVisited ==
  ASSUME MissionInv, NEW f, NEW status, Visited(ProxOrder, Patrol, f, status)
  PROVE  /\ LeafRuns(Patrol)' => f = "RUNNING"
         /\ LeafRuns(Patrol)' /\ Patrol \in left_over => Patrol \in left_over'
<1>1. ClientsInv /\ Patrol \in Servers
  BY ClientsAreServers DEF MissionInv, TreeClients
<1>2. PICK k \in Link : Comes(ProxOrder, Patrol, k, f, status) /\ f \in LeafStatus
  BY DEF Visited
<1>3. /\ leaf'[Patrol].status = f
      /\ left_over' = {x \in left_over : leaf'[x].status = "RUNNING"}
  BY <1>1, <1>2, ComesLeaves
<1>4. QED
  BY <1>3 DEF LeafRuns

\* An intercept that is tried runs, and stops the patrol.
LEMMA InterceptStopsPatrol ==
  ASSUME MissionInv, NEW f, TryAction(ProxOrder, Intercept, TRUE, f, f)
  PROVE  ~LeafRuns(Patrol)'
<1>1. ClientsInv /\ Intercept \in Servers /\ Patrol \in Servers
  BY ClientsAreServers DEF MissionInv, TreeClients
<1>2. Visited(ProxOrder, Intercept, f, f) /\ f = "RUNNING"
  <2>1. \A setup \in BOOLEAN : \A g, comes : TryAction(ProxOrder, Intercept, setup, g, comes) =>
          Visited(ProxOrder, Intercept, g, comes) /\ (setup => g = "RUNNING")
    BY <1>1, Visits
  <2>2. QED
    BY <2>1
<1>3. PICK k \in Link : Comes(ProxOrder, Intercept, k, f, f) /\ f \in LeafStatus
  BY <1>2 DEF Visited
<1>4. leaf'[Patrol].status = "INVALID"
  <2>1. f # "FAILURE" =>
          \A x \in Below(ProxOrder, Intercept) \cap Servers : x # Intercept => leaf'[x].status = "INVALID"
    BY <1>1, <1>3, ComesLeaves
  <2>2. f # "FAILURE" /\ Patrol # Intercept
    BY <1>2
  <2>3. QED
    BY <1>1, <2>1, <2>2, PatrolIsBelow
<1>5. QED
  BY <1>4 DEF LeafRuns

\* What keeps PatrolTimed, in the steps that leave the leaves alone: ...
LEMMA SameLeavesTimed ==
  ASSUME PatrolTimed, UNCHANGED <<leaf, node, mission, left_over>>, patrol # "off" => patrol' # "off"
  PROVE  PatrolTimed'
  BY DEF PatrolTimed, LeafRuns

\* ... a mission that ends leaves the patrol, if it runs, to the next; ...
LEMMA EndIsTimed ==
  ASSUME PatrolTimed, UNCHANGED <<leaf, node>>, NEW stage, MissionEnds(stage)
  PROVE  PatrolTimed'
<1>1. Patrol \in Servers
  BY ClientsAreServers DEF TreeClients
<1>2. QED
  BY <1>1 DEF PatrolTimed, LeafRuns, MissionEnds, RunningLeaves

\* ... a mission that is requested or starts finds it there, and one that is
\* cancelled has reset the timer.
LEMMA GoalIsTimed ==
  ASSUME MissionInv, PatrolTimed, ProxGoal, UNCHANGED node
  PROVE  PatrolTimed'
<1>1. UNCHANGED <<leaf, left_over>>
  BY DEF ProxGoal, ReceiveMission, PrepareMission, ReceiveCancel, CancelAccepted, linkVars
<1>2. mission \in BetweenMissions \/ mission' \in {"reset", "canceling"}
  BY DEF ProxGoal, ReceiveMission, MissionRequested, PrepareMission, MissionStarts, ReceiveCancel,
         MissionReset, CancelAccepted, MissionCanceling, BetweenMissions
<1>3. CASE mission \in BetweenMissions
  <2>1. LeafRuns(Patrol) => Patrol \in left_over
    BY <1>3, ClientsAreServers DEF MissionInv, TreeClients, RunningLeaves, LeafRuns
  <2>2. QED
    BY <1>1, <2>1 DEF PatrolTimed, LeafRuns
<1>4. CASE mission' \in {"reset", "canceling"}
  BY <1>1, <1>4 DEF PatrolTimed, LeafRuns
<1>5. QED
  BY <1>2, <1>3, <1>4

LEMMA VisitIsTimed ==
  ASSUME MissionInv, PatrolTimed, node = "prox_ops_bt", UNCHANGED node,
         VisitInspect \/ VisitIntercept \/ VisitPatrol
  PROVE  PatrolTimed'
<1>1. mission' = mission
  BY ProxVisits, VisitLeavesMission
<1>2. ASSUME ~LeafRuns(Patrol)' PROVE PatrolTimed'
  BY <1>2 DEF PatrolTimed, LeafRuns
<1>3. ASSUME LeafRuns(Patrol)' => LeafRuns(Patrol),
             LeafRuns(Patrol)' /\ Patrol \in left_over => Patrol \in left_over', UNCHANGED patrol
      PROVE  PatrolTimed'
  BY <1>1, <1>3 DEF PatrolTimed, LeafRuns
<1>4. CASE VisitInspect
  <2>1. UNCHANGED patrol /\ Visit(ProxOrder, Inspect)
    BY <1>4, ProxVisits DEF VisitInspect, timerVars
  <2>2. QED
    BY <1>3, <2>1, PatrolElsewhere DEF TreeClients
<1>5. CASE VisitIntercept
  <2>1. Visit(ProxOrder, Intercept)
    BY <1>5, ProxVisits
  <2>2. CASE UNCHANGED patrol
    BY <1>3, <2>1, <2>2, PatrolElsewhere DEF TreeClients
  <2>3. CASE \E status \in LeafStatus : TryAction(ProxOrder, Intercept, TRUE, status, status)
    BY <1>2, <2>3, InterceptStopsPatrol
  <2>4. QED
    BY <1>5, <2>2, <2>3 DEF VisitIntercept, timerVars
<1>6. CASE VisitPatrol
  <2>1. ClientsInv /\ Patrol \in Servers
    BY ClientsAreServers DEF MissionInv, TreeClients
  <2>2. CASE PostHolds(ProxOrder, Patrol) \/ Untried(ProxOrder, Patrol, "FAILURE")
    <3>1. \E comes : Visited(ProxOrder, Patrol, "INVALID", comes)
      BY <2>1, <2>2, Visits
    <3>2. QED
      BY <1>2, <3>1, PatrolVisited
  <2>3. CASE UNCHANGED proxVars /\ \E status : ResumeAction(ProxOrder, Patrol, status, status)
    <3>1. LeafRuns(Patrol) /\ \E status : Visited(ProxOrder, Patrol, status, status)
      BY <2>1, <2>3, Visits
    <3>2. QED
      BY <1>3, <2>3, <3>1, PatrolVisited DEF proxVars, timerVars
  <2>4. CASE patrol' # "off"
    BY <2>4 DEF PatrolTimed
  <2>5. Running(patrol) # "off"
    BY DEF Running
  <2>6. QED
    BY <1>6, <2>2, <2>3, <2>4, <2>5 DEF VisitPatrol
<1>7. QED
  BY <1>4, <1>5, <1>6

\* The nodes do not meet: the tree of ALARS leaves the patrol as it is.
LEMMA AlarsIsTimed ==
  ASSUME MissionInv, PatrolTimed, AlarsNext, UNCHANGED <<proxVars, node>>, node = "alars_bt"
  PROVE  PatrolTimed'
<1>1. LeafRuns(Patrol)' => LeafRuns(Patrol)
  <2>1. CASE UNCHANGED leaf
    BY <2>1 DEF LeafRuns
  <2>2. ASSUME NEW s \in TreeClients \ {Patrol}, Visit(AlarsOrder, s)
        PROVE  LeafRuns(Patrol)' => LeafRuns(Patrol)
    BY <2>2, PatrolElsewhere
  <2>3. AlarsGoal \/ StartTick(AlarsOrder) \/ LoopCanceled \/ AfterAlarsTick => UNCHANGED leaf
    BY DEF AlarsGoal, ReceiveMission, PrepareMission, ReceiveCancel, CancelAccepted, StartTick,
           LoopCanceled, AfterAlarsTick, LoopEnds, LoopGoesOn, linkVars
  <2>4. \A s, enabled : VisitRecover(s, enabled) => Visit(AlarsOrder, s)
    BY DEF VisitRecover, Visit
  <2>5. VisitVulture => Visit(AlarsOrder, Vulture)
    BY DEF VisitVulture, Visit
  <2>6. \A s, enabled : VisitSearch(s, enabled) => Visit(AlarsOrder, s)
    BY DEF VisitSearch, Visit
  <2>7. AlarsServers => UNCHANGED leaf
    BY AnswersLeaveMissions
  <2>8. {RecoverBuoy, RecoverNoBuoy, Vulture, SearchLocal, SearchGlobal} \subseteq TreeClients \ {Patrol}
    BY DEF TreeClients
  <2>9. (\E s \in TreeClients \ {Patrol} : Visit(AlarsOrder, s)) \/ UNCHANGED leaf
    BY <2>3, <2>4, <2>5, <2>6, <2>7, <2>8 DEF AlarsNext, AlarsTick
  <2>10. QED
    BY <2>1, <2>2, <2>9
<1>2. QED
  BY <1>1 DEF PatrolTimed

LEMMA TimedStep == MissionInv /\ PatrolTimed /\ [Next]_missionTreeVars => PatrolTimed'
<1> SUFFICES ASSUME MissionInv, PatrolTimed, [Next]_missionTreeVars PROVE PatrolTimed'
  OBVIOUS
<1>1. CASE UNCHANGED missionTreeVars
  BY <1>1, SameLeavesTimed DEF missionTreeVars, linkVars, missionVars, proxVars, timerVars
<1>2. CASE node = "prox_ops_bt" /\ ProxNext /\ UNCHANGED node
  <2>1. CASE ProxGoal
    BY <1>2, <2>1, GoalIsTimed
  <2>2. CASE StartTick(ProxOrder) /\ UNCHANGED proxVars
    BY <1>2, <2>2, SameLeavesTimed DEF StartTick, linkVars, proxVars, timerVars
  <2>3. CASE LoopCanceled
    BY <1>2, <2>3, EndIsTimed DEF LoopCanceled, linkVars
  <2>4. CASE VisitInspect \/ VisitIntercept \/ VisitPatrol
    BY <1>2, <2>4, VisitIsTimed
  <2>5. CASE AfterProxTick
    <3>1. CASE \E succeeds \in BOOLEAN : LoopEnds(succeeds)
      BY <1>2, <3>1, EndIsTimed DEF LoopEnds
    <3>2. CASE LoopGoesOn /\ UNCHANGED proxVars
      BY <1>2, <3>2, SameLeavesTimed DEF LoopGoesOn, linkVars, proxVars, timerVars
    <3>3. QED
      BY <2>5, <3>1, <3>2 DEF AfterProxTick
  <2>6. CASE ProxServers
    <3>1. UNCHANGED proxVars
      BY <2>6 DEF ProxServers
    <3>2. QED
      BY <1>2, <2>6, <3>1, AnswersLeaveMissions, SameLeavesTimed DEF proxVars, timerVars
  <2>7. CASE Elapse
    <3>1. patrol' # "off" \/ patrol' = patrol
      BY <2>7 DEF Elapse
    <3>2. QED
      BY <1>2, <2>7, <3>1, SameLeavesTimed DEF Elapse, linkVars, missionVars
  <2>8. CASE \E stage : CancelDuringTest(stage)
    BY <1>2, <2>8, EndIsTimed DEF CancelDuringTest
  <2>9. QED
    BY <1>2, <2>1, <2>2, <2>3, <2>4, <2>5, <2>6, <2>7, <2>8 DEF ProxNext, ProxTick
<1>3. CASE node = "alars_bt" /\ AlarsNext /\ UNCHANGED <<proxVars, node>>
  BY <1>3, AlarsIsTimed
<1>4. QED
  BY <1>1, <1>2, <1>3 DEF Next

\* While the tree runs a patrol, its timer does, unless the tree has run that
\* patrol since an earlier mission.
THEOREM FreshPatrolsAreTimed == Spec => []FreshPatrolIsTimed
<1>1. Init => PatrolTimed
  BY ClientsAreServers DEF Init, MissionInit, LinkInit, PatrolTimed, LeafRuns, TreeClients
<1>2. PatrolTimed => FreshPatrolIsTimed
  BY DEF PatrolTimed, FreshPatrolIsTimed, PatrolIsTimed
<1>3. QED
  BY <1>1, <1>2, TimedStep, MissionInvHolds, PTL DEF Spec

-----------------------------------------------------------------------------
(* One action at a time.  A tick visits the subtrees in their order: while   *)
(* it is at one, nothing runs above it, and a subtree that comes to RUNNING *)
(* stops what is below.                                                    *)

Tree == IF node = "prox_ops_bt" THEN ProxOrder ELSE AlarsOrder

Members(order) == {order[i] : i \in DOMAIN order}

\* A mission tree never has two actions on its hands.
OneActionRuns == \A s, r \in Servers : LeafRuns(s) /\ LeafRuns(r) => s = r

OneActionInv ==
  /\ node \in {"prox_ops_bt", "alars_bt"}
  /\ RunningLeaves \subseteq Members(Tree)
  /\ \A s, r \in RunningLeaves : s = r
  /\ visiting \in Members(Tree) => RunningLeaves \subseteq {visiting} \cup Below(Tree, visiting)

LEMMA TreeFacts ==
  ASSUME NEW order \in {ProxOrder, AlarsOrder}
  PROVE  /\ Len(order) \in Nat /\ DOMAIN order = 1..Len(order) /\ Len(order) > 0
         /\ \A i, j \in DOMAIN order : order[i] = order[j] => i = j
         /\ Members(order) \subseteq TreeClients
<1>1. CASE order = ProxOrder
  BY <1>1 DEF ProxOrder, Members, TreeClients
<1>2. CASE order = AlarsOrder
  <2>1. Len(order) = 5 /\ DOMAIN order = 1..5
    BY <1>2 DEF AlarsOrder
  <2>2. /\ order[1] = RecoverBuoy /\ order[2] = RecoverNoBuoy
        /\ order[3] = Vulture /\ order[4] = SearchLocal /\ order[5] = SearchGlobal
    BY <1>2 DEF AlarsOrder
  <2>3. \A i \in 1..5 : i = 1 \/ i = 2 \/ i = 3 \/ i = 4 \/ i = 5
    OBVIOUS
  <2>4. \A i, j \in 1..5 : order[i] = order[j] => i = j
    BY <2>2, <2>3
  <2>5. \A i \in 1..5 : order[i] \in TreeClients
    BY <2>2, <2>3 DEF TreeClients
  <2>6. QED
    BY <2>1, <2>4, <2>5 DEF Members
<1>3. QED
  BY <1>1, <1>2

\* The first subtree has all others below it, and what is below one is the next
\* or below the next.
LEMMA BelowFacts ==
  ASSUME NEW order \in {ProxOrder, AlarsOrder}
  PROVE  /\ Members(order) \subseteq {Head(order)} \cup Below(order, Head(order))
         /\ \A j \in 2..Len(order) :
              Below(order, order[j - 1]) \subseteq {order[j]} \cup Below(order, order[j])
<1>1. /\ Len(order) \in Nat /\ DOMAIN order = 1..Len(order) /\ Len(order) > 0
      /\ \A i, j \in DOMAIN order : order[i] = order[j] => i = j
  BY TreeFacts
<1>2. Head(order) = order[1]
  BY DEF ProxOrder, AlarsOrder
<1>3. ASSUME NEW x \in Members(order), x # order[1] PROVE x \in Below(order, order[1])
  <2>1. PICK k \in DOMAIN order : x = order[k]
    BY DEF Members
  <2>2. k # 1 /\ k \in Nat /\ k >= 1
    BY <1>1, <1>3, <2>1
  <2>3. 1 \in 1..(k - 1)
    BY <2>2
  <2>4. QED
    BY <2>1, <2>3 DEF Below
<1>4. ASSUME NEW j \in 2..Len(order), NEW x \in Below(order, order[j - 1]), x # order[j]
      PROVE  x \in Below(order, order[j])
  <2>1. PICK k \in DOMAIN order : x = order[k] /\ \E i \in 1..(k - 1) : order[i] = order[j - 1]
    BY DEF Below
  <2>2. PICK i \in 1..(k - 1) : order[i] = order[j - 1]
    BY <2>1
  <2>3. i \in DOMAIN order /\ j - 1 \in DOMAIN order /\ j \in DOMAIN order /\ k \in Nat
    BY <1>1
  <2>4. i = j - 1
    BY <1>1, <2>2, <2>3
  <2>5. k # j
    BY <1>4, <2>1
  <2>6. j \in 1..(k - 1)
    BY <2>3, <2>4, <2>5
  <2>7. QED
    BY <2>1, <2>6 DEF Below
<1>5. QED
  BY <1>2, <1>3, <1>4

LEMMA ComesStops ==
  ASSUME ClientsInv, NEW order, NEW s \in Servers, NEW k, NEW f \in LeafStatus,
         NEW status, status # "FAILURE", Comes(order, s, k, f, status),
         NEW x \in Servers, x \in Below(order, s), x # s
  PROVE  leaf'[x].status = "INVALID"
<1>1. /\ leaf'[s].status = f
      /\ \A y \in Servers \ {s} : leaf'[y].status \in {leaf[y].status, "INVALID"}
      /\ status # "FAILURE" =>
           \A y \in Below(order, s) \cap Servers : y # s => leaf'[y].status = "INVALID"
      /\ left_over' = {y \in left_over : leaf'[y].status = "RUNNING"}
  BY ComesLeaves, Zenon
<1>2. x \in Below(order, s) \cap Servers
  OBVIOUS
<1>3. QED
  BY <1>1, <1>2

\* What runs after a visit.
LEMMA VisitedRuns ==
  ASSUME MissionInv, OneActionInv, NEW s \in Members(Tree), NEW f, NEW status,
         Visited(Tree, s, f, status)
  PROVE  /\ s \in RunningLeaves' <=> f = "RUNNING"
         /\ RunningLeaves' \subseteq RunningLeaves \cup {s}
         /\ status # "FAILURE" => RunningLeaves' \subseteq {s}
<1>1. ClientsInv /\ s \in Servers /\ visiting = s
  BY ClientsAreServers, TreeFacts DEF MissionInv, Visited, Tree
<1>2. PICK k \in Link : Comes(Tree, s, k, f, status) /\ f \in LeafStatus
  BY DEF Visited
<1>3. /\ leaf'[s].status = f
      /\ \A x \in Servers \ {s} : leaf'[x].status \in {leaf[x].status, "INVALID"}
      /\ status # "FAILURE" =>
           \A x \in Below(Tree, s) \cap Servers : x # s => leaf'[x].status = "INVALID"
  <2>1. ClientsInv /\ s \in Servers /\ f \in LeafStatus /\ Comes(Tree, s, k, f, status)
    BY <1>1, <1>2
  <2>2. leaf'[s].status = f
    BY <2>1, ComesLeaves
  <2>3. \A x \in Servers \ {s} : leaf'[x].status \in {leaf[x].status, "INVALID"}
    BY <2>1, ComesLeaves
  <2>4. ASSUME status # "FAILURE", NEW x \in Below(Tree, s) \cap Servers, x # s
        PROVE  leaf'[x].status = "INVALID"
    BY <2>1, <2>4, ComesStops
  <2>5. QED
    BY <2>2, <2>3, <2>4
<1>4. RunningLeaves \subseteq {s} \cup Below(Tree, s)
  BY <1>1 DEF OneActionInv
<1>5. /\ s \in RunningLeaves' <=> f = "RUNNING"
      /\ RunningLeaves' \subseteq RunningLeaves \cup {s}
  BY <1>1, <1>3 DEF RunningLeaves
<1>6. ASSUME status # "FAILURE", NEW x \in RunningLeaves', x # s PROVE FALSE
  <2>1. x \in Servers /\ leaf'[x].status = "RUNNING"
    BY <1>6 DEF RunningLeaves
  <2>2. x \in Below(Tree, s)
    BY <1>4, <1>5, <1>6
  <2>3. QED
    BY <1>3, <1>6, <2>1, <2>2
<1>7. QED
  BY <1>5, <1>6

\* A visit in which an action that runs does not fail its subtree.
LEMMA VisitKeepsOneAction ==
  ASSUME MissionInv, OneActionInv, UNCHANGED node, NEW s \in Members(Tree), NEW f, NEW status,
         Visited(Tree, s, f, status), f = "RUNNING" => status # "FAILURE"
  PROVE  OneActionInv'
<1>1. Tree \in {ProxOrder, AlarsOrder} /\ Tree' = Tree
  BY DEF Tree
<1>2. /\ s \in RunningLeaves' <=> f = "RUNNING"
      /\ RunningLeaves' \subseteq RunningLeaves \cup {s}
      /\ status # "FAILURE" => RunningLeaves' \subseteq {s}
  BY VisitedRuns
<1>3. PICK k \in Link : Comes(Tree, s, k, f, status) /\ visiting = s
  BY DEF Visited
<1>4. Members(Tree)' = Members(Tree) /\ "after" \notin Members(Tree)
  <2>1. Members(Tree)' = Members(Tree')
    BY DEF Members
  <2>2. "after" \notin Members(Tree)
    BY <1>1, TreeFacts DEF TreeClients
  <2>3. QED
    BY <1>1, <2>1, <2>2
<1>5. Below(Tree, visiting)' = Below(Tree', visiting')
  BY DEF Below
<1>6. CASE status # "FAILURE"
  <2>1. visiting' = "after"
    BY <1>3, <1>6 DEF Comes
  <2>2. QED
    BY <1>2, <1>4, <1>6, <2>1 DEF OneActionInv
<1>7. CASE status = "FAILURE"
  <2>1. RunningLeaves' \subseteq RunningLeaves \ {s}
    BY <1>2, <1>7
  <2>2. RunningLeaves' \subseteq Below(Tree, s)
    BY <1>3, <2>1 DEF OneActionInv
  <2>3. visiting' = "after" \/ \E j \in 2..Len(Tree) : Tree[j - 1] = s /\ visiting' = Tree[j]
    BY <1>3, <1>7 DEF Comes
  <2>4. CASE visiting' = "after"
    BY <1>4, <2>1, <2>4 DEF OneActionInv
  <2>5. CASE \E j \in 2..Len(Tree) : Tree[j - 1] = s /\ visiting' = Tree[j]
    <3>1. PICK j \in 2..Len(Tree) : Tree[j - 1] = s /\ visiting' = Tree[j]
      BY <2>5
    <3>2. Below(Tree, s) \subseteq {visiting'} \cup Below(Tree, visiting')
      BY <1>1, <3>1, BelowFacts
    <3>3. RunningLeaves' \subseteq {visiting'} \cup Below(Tree', visiting')
      BY <1>1, <2>2, <3>2
    <3>4. QED
      BY <1>4, <1>5, <2>1, <3>3 DEF OneActionInv
  <2>6. QED
    BY <2>3, <2>4, <2>5
<1>8. QED
  BY <1>6, <1>7

\* Between the visits the leaves stay as they are.
LEMMA OthersKeepOneAction ==
  ASSUME OneActionInv, UNCHANGED <<leaf, node>>,
         visiting' = visiting \/ visiting' \in {"between", "after"} \/ visiting' = Head(Tree)
  PROVE  OneActionInv'
<1>1. Tree \in {ProxOrder, AlarsOrder} /\ Tree' = Tree
  BY DEF Tree
<1>2. RunningLeaves' = RunningLeaves
  BY DEF RunningLeaves
<1>3. Members(Tree)' = Members(Tree) /\ {"between", "after"} \cap Members(Tree) = {}
  BY <1>1, TreeFacts DEF Members, TreeClients
<1>4. Below(Tree, visiting)' = Below(Tree, visiting')
  BY <1>1 DEF Below
<1>5. CASE visiting' = Head(Tree)
  <2>1. Members(Tree) \subseteq {visiting'} \cup Below(Tree, visiting')
    BY <1>1, <1>5, BelowFacts
  <2>2. QED
    BY <1>2, <1>3, <1>4, <2>1 DEF OneActionInv
<1>6. CASE visiting' = visiting \/ visiting' \in {"between", "after"}
  BY <1>2, <1>3, <1>4, <1>6 DEF OneActionInv
<1>7. QED
  BY <1>5, <1>6

\* The subtrees of both trees are visited as VisitKeepsOneAction asks.
LEMMA ProxVisited ==
  ASSUME MissionInv, VisitInspect \/ VisitIntercept \/ VisitPatrol
  PROVE  \E s \in Members(ProxOrder) : \E f, status :
           Visited(ProxOrder, s, f, status) /\ (f = "RUNNING" => status # "FAILURE")
<1>1. ClientsInv /\ {Inspect, Intercept, Patrol} \subseteq Servers
  BY ClientsAreServers DEF MissionInv, TreeClients
<1>2. {Inspect, Intercept, Patrol} \subseteq Members(ProxOrder)
  <2>1. DOMAIN ProxOrder = 1..3 /\ ProxOrder[1] = Inspect /\ ProxOrder[2] = Intercept
        /\ ProxOrder[3] = Patrol
    BY DEF ProxOrder
  <2>2. QED
    BY <2>1 DEF Members
<1>3. PICK s \in {Inspect, Intercept, Patrol} :
        \/ PostHolds(ProxOrder, s) \/ Untried(ProxOrder, s, "FAILURE")
        \/ \E act : TryAction(ProxOrder, s, TRUE, act, act) \/ ResumeAction(ProxOrder, s, act, act)
  BY DEF VisitInspect, VisitIntercept, VisitPatrol
<1>4. \E f, status : Visited(ProxOrder, s, f, status) /\ (f = "RUNNING" => status # "FAILURE")
  <2>1. s \in Servers
    BY <1>1
  <2>2. CASE PostHolds(ProxOrder, s)
    BY <1>1, <2>1, <2>2, Visits
  <2>3. CASE Untried(ProxOrder, s, "FAILURE")
    <3>1. Visited(ProxOrder, s, "INVALID", "FAILURE")
      BY <1>1, <2>1, <2>3, Visits
    <3>2. QED
      BY <3>1
  <2>4. ASSUME NEW act, ResumeAction(ProxOrder, s, act, act)
        PROVE  Visited(ProxOrder, s, act, act)
    BY <1>1, <2>1, <2>4, Visits
  <2>5. ASSUME NEW act, TryAction(ProxOrder, s, TRUE, act, act)
        PROVE  Visited(ProxOrder, s, act, act)
    <3>1. \A setup \in BOOLEAN : \A f, comes : TryAction(ProxOrder, s, setup, f, comes) =>
            Visited(ProxOrder, s, f, comes)
      BY <1>1, <2>1, Visits
    <3>2. QED
      BY <2>5, <3>1
  <2>6. QED
    BY <1>3, <2>2, <2>3, <2>4, <2>5
<1>5. QED
  BY <1>2, <1>4

\* A visit to a recovery: the counters before and after.
LEMMA RecoverVisited ==
  ASSUME MissionInv, recover_fail_count \in Nat, NEW s \in Servers, NEW enabled,
         VisitRecover(s, enabled)
  PROVE  \E f, status :
           /\ Visited(AlarsOrder, s, f, status) /\ (f = "RUNNING" => status # "FAILURE")
           /\ UNCHANGED <<search_fail_count, vulture_timeout_count>>
           /\ \/ UNCHANGED recover_fail_count /\ f # "RUNNING"
              \/ /\ enabled \/ LeafRuns(s)
                 /\ status # "FAILURE"
                 /\ f = "RUNNING" => UNCHANGED recover_fail_count
                 /\ recover_fail_count' \in {recover_fail_count, recover_fail_count + 1}
<1>1. ClientsInv
  BY DEF MissionInv
<1>2. CASE Untried(AlarsOrder, s, "FAILURE") /\ UNCHANGED recover_fail_count
  <2>1. Visited(AlarsOrder, s, "INVALID", "FAILURE")
    BY <1>1, <1>2, Visits
  <2>2. QED
    BY <1>2, <2>1 DEF VisitRecover
<1>3. ASSUME NEW act \in LeafStatus, RecoverStatus(s, act),
             \/ enabled /\ TryAction(AlarsOrder, s, FALSE, act, Counted(act))
             \/ ResumeAction(AlarsOrder, s, act, Counted(act))
      PROVE  /\ Visited(AlarsOrder, s, act, Counted(act))
             /\ enabled \/ LeafRuns(s)
             /\ Counted(act) # "FAILURE"
             /\ act = "RUNNING" => UNCHANGED recover_fail_count
             /\ recover_fail_count' \in {recover_fail_count, recover_fail_count + 1}
  <2>1. \A setup \in BOOLEAN : \A f, comes : TryAction(AlarsOrder, s, setup, f, comes) =>
          Visited(AlarsOrder, s, f, comes)
    BY <1>1, Visits
  <2>2. \A f, comes : ResumeAction(AlarsOrder, s, f, comes) =>
          Visited(AlarsOrder, s, f, comes) /\ LeafRuns(s)
    BY <1>1, Visits
  <2>3. Visited(AlarsOrder, s, act, Counted(act)) /\ (enabled \/ LeafRuns(s))
    BY <1>3, <2>1, <2>2
  <2>4. Counted(act) # "FAILURE"
    BY DEF Counted
  <2>5. /\ act = "RUNNING" => UNCHANGED recover_fail_count
        /\ \/ recover_fail_count' = recover_fail_count
           \/ recover_fail_count' = recover_fail_count + 1
           \/ recover_fail_count' = recover_fail_count + 0
    BY <1>3 DEF RecoverStatus
  <2>6. QED
    BY <2>3, <2>4, <2>5
<1>4. UNCHANGED <<search_fail_count, vulture_timeout_count>>
  BY DEF VisitRecover
<1>5. QED
  BY <1>2, <1>3, <1>4 DEF VisitRecover

LEMMA SearchVisited ==
  ASSUME MissionInv, search_fail_count \in Nat, NEW s \in Servers, NEW enabled,
         VisitSearch(s, enabled)
  PROVE  \E f, status :
           /\ Visited(AlarsOrder, s, f, status) /\ (f = "RUNNING" => status # "FAILURE")
           /\ UNCHANGED <<recover_fail_count, vulture_timeout_count>>
           /\ \/ UNCHANGED search_fail_count /\ f # "RUNNING"
              \/ /\ enabled \/ LeafRuns(s)
                 /\ status # "FAILURE"
                 /\ f = "RUNNING" => UNCHANGED search_fail_count
                 /\ search_fail_count' \in {search_fail_count, search_fail_count + 1}
<1>1. ClientsInv
  BY DEF MissionInv
<1>2. UNCHANGED <<recover_fail_count, vulture_timeout_count>>
  BY DEF VisitSearch
<1>3. CASE PostHolds(AlarsOrder, s) /\ UNCHANGED search_fail_count
  <2>1. Visited(AlarsOrder, s, "INVALID", "SUCCESS")
    BY <1>1, <1>3, Visits
  <2>2. QED
    BY <1>2, <1>3, <2>1
<1>4. CASE Untried(AlarsOrder, s, "FAILURE") /\ UNCHANGED search_fail_count
  <2>1. Visited(AlarsOrder, s, "INVALID", "FAILURE")
    BY <1>1, <1>4, Visits
  <2>2. QED
    BY <1>2, <1>4, <2>1
<1>5. CASE enabled /\ Untried(AlarsOrder, s, "SUCCESS") /\ search_fail_count' = search_fail_count + 1
  <2>1. Visited(AlarsOrder, s, "INVALID", "SUCCESS")
    BY <1>1, <1>5, Visits
  <2>2. QED
    BY <1>2, <1>5, <2>1
<1>6. ASSUME NEW act \in LeafStatus,
             search_fail_count' = search_fail_count + (IF act = "FAILURE" THEN 1 ELSE 0),
             \/ enabled /\ TryAction(AlarsOrder, s, FALSE, act, Counted(act))
             \/ ResumeAction(AlarsOrder, s, act, Counted(act))
      PROVE  /\ Visited(AlarsOrder, s, act, Counted(act))
             /\ enabled \/ LeafRuns(s)
             /\ Counted(act) # "FAILURE"
             /\ act = "RUNNING" => UNCHANGED search_fail_count
             /\ search_fail_count' \in {search_fail_count, search_fail_count + 1}
  <2>1. \A setup \in BOOLEAN : \A f, comes : TryAction(AlarsOrder, s, setup, f, comes) =>
          Visited(AlarsOrder, s, f, comes)
    BY <1>1, Visits
  <2>2. \A f, comes : ResumeAction(AlarsOrder, s, f, comes) =>
          Visited(AlarsOrder, s, f, comes) /\ LeafRuns(s)
    BY <1>1, Visits
  <2>3. Visited(AlarsOrder, s, act, Counted(act)) /\ (enabled \/ LeafRuns(s))
    BY <1>6, <2>1, <2>2
  <2>4. Counted(act) # "FAILURE"
    BY DEF Counted
  <2>5. /\ act = "RUNNING" => UNCHANGED search_fail_count
        /\ search_fail_count' \in {search_fail_count, search_fail_count + 1}
    BY <1>6
  <2>6. QED
    BY <2>3, <2>4, <2>5
<1>7. QED
  BY <1>2, <1>3, <1>4, <1>5, <1>6 DEF VisitSearch

LEMMA VultureVisited ==
  ASSUME MissionInv, vulture_timeout_count \in Nat, VisitVulture
  PROVE  \E f, status :
           /\ Visited(AlarsOrder, Vulture, f, status) /\ (f = "RUNNING" => status # "FAILURE")
           /\ UNCHANGED <<search_fail_count, recover_fail_count>>
           /\ \/ UNCHANGED vulture_timeout_count /\ f # "RUNNING"
              \/ /\ vulture_timeout_count < VultureRanges \/ LeafRuns(Vulture)
                 /\ f = "RUNNING" => UNCHANGED vulture_timeout_count
                 /\ vulture_timeout_count' \in {vulture_timeout_count, vulture_timeout_count + 1}
<1>1. ClientsInv /\ Vulture \in Servers
  BY ClientsAreServers DEF MissionInv, TreeClients
<1>2. UNCHANGED <<search_fail_count, recover_fail_count>>
  BY DEF VisitVulture
<1>3. CASE PostHolds(AlarsOrder, Vulture) /\ UNCHANGED vulture_timeout_count
  <2>1. Visited(AlarsOrder, Vulture, "INVALID", "SUCCESS")
    BY <1>1, <1>3, Visits
  <2>2. QED
    BY <1>2, <1>3, <2>1
<1>4. CASE Untried(AlarsOrder, Vulture, "FAILURE") /\ UNCHANGED vulture_timeout_count
  <2>1. Visited(AlarsOrder, Vulture, "INVALID", "FAILURE")
    BY <1>1, <1>4, Visits
  <2>2. QED
    BY <1>2, <1>4, <2>1
<1>5. ASSUME NEW act \in LeafStatus,
             vulture_timeout_count' = vulture_timeout_count + (IF act = "SUCCESS" THEN 1 ELSE 0),
             \/ /\ vulture_timeout_count < VultureRanges
                /\ TryAction(AlarsOrder, Vulture, FALSE, act, act)
             \/ ResumeAction(AlarsOrder, Vulture, act, act)
      PROVE  /\ Visited(AlarsOrder, Vulture, act, act)
             /\ vulture_timeout_count < VultureRanges \/ LeafRuns(Vulture)
             /\ act = "RUNNING" => UNCHANGED vulture_timeout_count
             /\ vulture_timeout_count' \in {vulture_timeout_count, vulture_timeout_count + 1}
  <2>1. \A setup \in BOOLEAN : \A f, comes : TryAction(AlarsOrder, Vulture, setup, f, comes) =>
          Visited(AlarsOrder, Vulture, f, comes)
    BY <1>1, Visits
  <2>2. \A f, comes : ResumeAction(AlarsOrder, Vulture, f, comes) =>
          Visited(AlarsOrder, Vulture, f, comes) /\ LeafRuns(Vulture)
    BY <1>1, Visits
  <2>3. Visited(AlarsOrder, Vulture, act, act)
        /\ (vulture_timeout_count < VultureRanges \/ LeafRuns(Vulture))
    BY <1>5, <2>1, <2>2
  <2>4. /\ act = "RUNNING" => UNCHANGED vulture_timeout_count
        /\ vulture_timeout_count' \in {vulture_timeout_count, vulture_timeout_count + 1}
    BY <1>5
  <2>5. QED
    BY <2>3, <2>4
<1>6. QED
  BY <1>2, <1>3, <1>4, <1>5 DEF VisitVulture

LEMMA AlarsMembers ==
  /\ Members(AlarsOrder) = {RecoverBuoy, RecoverNoBuoy, Vulture, SearchLocal, SearchGlobal}
  /\ RecoverBuoy \notin Below(AlarsOrder, RecoverNoBuoy)
<1>1. /\ DOMAIN AlarsOrder = 1..5
      /\ AlarsOrder[1] = RecoverBuoy /\ AlarsOrder[2] = RecoverNoBuoy
      /\ AlarsOrder[3] = Vulture /\ AlarsOrder[4] = SearchLocal /\ AlarsOrder[5] = SearchGlobal
  BY DEF AlarsOrder
<1>2. \A i \in 1..5 : i = 1 \/ i = 2 \/ i = 3 \/ i = 4 \/ i = 5
  OBVIOUS
<1>3. Members(AlarsOrder) = {RecoverBuoy, RecoverNoBuoy, Vulture, SearchLocal, SearchGlobal}
  <2>1. Members(AlarsOrder) \subseteq {RecoverBuoy, RecoverNoBuoy, Vulture, SearchLocal, SearchGlobal}
    BY <1>1, <1>2 DEF Members
  <2>2. \A i \in 1..5 : AlarsOrder[i] \in Members(AlarsOrder)
    BY <1>1 DEF Members
  <2>3. QED
    BY <1>1, <2>1, <2>2
<1>4. RecoverBuoy \notin Below(AlarsOrder, RecoverNoBuoy)
  <2> SUFFICES ASSUME NEW k \in DOMAIN AlarsOrder, NEW i \in 1..(k - 1),
                      AlarsOrder[i] = RecoverNoBuoy, AlarsOrder[k] = RecoverBuoy
               PROVE  FALSE
    BY DEF Below
  <2>1. k = 1
    BY <1>1, <1>2
  <2>2. QED
    BY <2>1
<1>5. QED
  BY <1>3, <1>4

\* A visit of ALARS, with what its pre-condition says of the counters.
AlarsVisits ==
  \/ VisitVulture
  \/ \E s \in {RecoverBuoy, RecoverNoBuoy}, enabled \in BOOLEAN :
       (enabled => MayRetry(recover_fail_count)) /\ VisitRecover(s, enabled)
  \/ \E s \in {SearchLocal, SearchGlobal} : VisitSearch(s, MayRetry(search_fail_count))

LEMMA TickVisits ==
  AlarsTick => \/ (StartTick(AlarsOrder) \/ LoopCanceled) /\ UNCHANGED alarsVars
               \/ AlarsVisits \/ AfterAlarsTick
<1>1. VisitRecover(RecoverBuoy, MayRetry(recover_fail_count)) => AlarsVisits
  <2>1. MayRetry(recover_fail_count) \in BOOLEAN
    BY DEF MayRetry
  <2>2. QED
    BY <2>1 DEF AlarsVisits
<1>2. VisitRecover(RecoverNoBuoy, /\ MayRetry(recover_fail_count)
                                  /\ vulture_timeout_count >= VultureRanges) => AlarsVisits
  <2> DEFINE enabled == MayRetry(recover_fail_count) /\ vulture_timeout_count >= VultureRanges
  <2>1. enabled \in BOOLEAN /\ (enabled => MayRetry(recover_fail_count))
    OBVIOUS
  <2> HIDE DEF enabled
  <2>2. VisitRecover(RecoverNoBuoy, enabled) => AlarsVisits
    BY <2>1 DEF AlarsVisits
  <2>3. QED
    BY <2>2 DEF enabled
<1>3. /\ VisitSearch(SearchLocal, MayRetry(search_fail_count)) => AlarsVisits
      /\ VisitSearch(SearchGlobal, MayRetry(search_fail_count)) => AlarsVisits
  BY DEF AlarsVisits
<1>4. VisitVulture => AlarsVisits
  BY DEF AlarsVisits
<1>5. QED
  BY <1>1, <1>2, <1>3, <1>4 DEF AlarsTick

\* What a tree does between the visits leaves its leaves alone.
LEMMA NextCases ==
  ASSUME MissionInv, OneActionInv, Next
  PROVE  /\ UNCHANGED node
         /\ \/ UNCHANGED leaf /\ (visiting' = visiting \/ visiting' \in {"between", "after"}
                                    \/ visiting' = Head(Tree))
            \/ node = "prox_ops_bt" /\ (VisitInspect \/ VisitIntercept \/ VisitPatrol)
            \/ node = "alars_bt" /\ AlarsVisits
<1> DEFINE quiet == UNCHANGED leaf /\ (visiting' = visiting \/ visiting' \in {"between", "after"}
                                         \/ visiting' = Head(Tree))
<1>1. UNCHANGED node
  BY DEF Next
<1>2. \A order : StartTick(order) /\ order = Tree => quiet
  BY DEF StartTick, linkVars
<1>3. LoopCanceled \/ LoopGoesOn \/ (\E succeeds : LoopEnds(succeeds)) => quiet
  BY DEF LoopCanceled, LoopGoesOn, LoopEnds, MissionEnds, linkVars
<1>4. (\E valid : ReceiveMission(valid)) \/ PrepareMission \/ ReceiveCancel \/ CancelAccepted => quiet
  BY DEF ReceiveMission, PrepareMission, ReceiveCancel, CancelAccepted, linkVars
<1>5. ProxServers \/ AlarsServers => quiet
  BY AnswersLeaveMissions
<1>6. Elapse \/ (\E stage : CancelDuringTest(stage)) => quiet
  BY DEF Elapse, CancelDuringTest, MissionEnds, linkVars, missionVars
<1>7. CASE node = "prox_ops_bt" /\ ProxNext
  <2>1. Tree = ProxOrder
    BY <1>7 DEF Tree
  <2>2. quiet \/ VisitInspect \/ VisitIntercept \/ VisitPatrol
    <3> HIDE DEF quiet
    <3>1. QED
      BY <1>2, <1>3, <1>4, <1>5, <1>6, <1>7, <2>1 DEF ProxNext, ProxGoal, ProxTick, AfterProxTick
  <2>3. QED
    BY <1>1, <1>7, <2>2
<1>8. CASE node = "alars_bt" /\ AlarsNext
  <2>1. Tree = AlarsOrder
    BY <1>8 DEF Tree
  <2>2. AlarsTick => quiet \/ AlarsVisits
    BY <1>2, <1>3, <2>1, TickVisits DEF AfterAlarsTick
  <2>3. quiet \/ AlarsVisits
    <3> HIDE DEF quiet
    <3>1. QED
      BY <1>4, <1>5, <1>8, <2>2 DEF AlarsNext, AlarsGoal
  <2>4. QED
    BY <1>1, <1>8, <2>3
<1>9. QED
  BY <1>7, <1>8 DEF Next

\* The counters are numbers.
CountsTyped == {recover_fail_count, search_fail_count, vulture_timeout_count} \subseteq Nat

\* A visit of ALARS is one as VisitKeepsOneAction asks.
LEMMA AlarsVisited ==
  ASSUME MissionInv, AlarsVisits, CountsTyped
  PROVE  \E s \in Members(AlarsOrder) : \E f, status :
           Visited(AlarsOrder, s, f, status) /\ (f = "RUNNING" => status # "FAILURE")
<1> USE DEF CountsTyped
<1>1. Members(AlarsOrder) \subseteq Servers
  BY AlarsMembers, ClientsAreServers DEF TreeClients
<1>2. CASE VisitVulture
  BY <1>2, AlarsMembers, VultureVisited
<1>3. ASSUME NEW s \in {RecoverBuoy, RecoverNoBuoy}, NEW enabled, VisitRecover(s, enabled)
      PROVE  \E f, status : Visited(AlarsOrder, s, f, status) /\ (f = "RUNNING" => status # "FAILURE")
  <2>1. s \in Servers
    BY <1>1, AlarsMembers
  <2>2. QED
    BY <1>3, <2>1, RecoverVisited
<1>4. ASSUME NEW s \in {SearchLocal, SearchGlobal}, NEW enabled, VisitSearch(s, enabled)
      PROVE  \E f, status : Visited(AlarsOrder, s, f, status) /\ (f = "RUNNING" => status # "FAILURE")
  <2>1. s \in Servers
    BY <1>1, AlarsMembers
  <2>2. QED
    BY <1>4, <2>1, SearchVisited
<1>5. QED
  BY <1>2, <1>3, <1>4, AlarsMembers DEF AlarsVisits

LEMMA OneActionStep ==
  MissionInv /\ OneActionInv /\ CountsTyped /\ [Next]_missionTreeVars => OneActionInv'
<1> SUFFICES ASSUME MissionInv, OneActionInv, CountsTyped, [Next]_missionTreeVars PROVE OneActionInv'
  OBVIOUS
<1>1. CASE UNCHANGED missionTreeVars
  BY <1>1, OthersKeepOneAction DEF missionTreeVars, linkVars, missionVars
<1>2. CASE Next
  <2>1. UNCHANGED node
    BY <1>2, NextCases
  <2>2. CASE UNCHANGED leaf /\ (visiting' = visiting \/ visiting' \in {"between", "after"}
                                  \/ visiting' = Head(Tree))
    BY <2>1, <2>2, OthersKeepOneAction
  <2>3. CASE node = "prox_ops_bt" /\ (VisitInspect \/ VisitIntercept \/ VisitPatrol)
    <3>1. PICK s \in Members(ProxOrder) : \E f, status :
            Visited(ProxOrder, s, f, status) /\ (f = "RUNNING" => status # "FAILURE")
      BY <2>3, ProxVisited
    <3>2. Tree = ProxOrder
      BY <2>3 DEF Tree
    <3>3. QED
      BY <2>1, <3>1, <3>2, VisitKeepsOneAction
  <2>4. CASE node = "alars_bt" /\ AlarsVisits
    <3>1. PICK s \in Members(AlarsOrder) : \E f, status :
            Visited(AlarsOrder, s, f, status) /\ (f = "RUNNING" => status # "FAILURE")
      BY <2>4, AlarsVisited
    <3>2. Tree = AlarsOrder
      BY <2>4 DEF Tree
    <3>3. QED
      BY <2>1, <3>1, <3>2, VisitKeepsOneAction
  <2>5. QED
    BY <1>2, <2>2, <2>3, <2>4, NextCases
<1>3. QED
  BY <1>1, <1>2

-----------------------------------------------------------------------------
(* The retries of ALARS.  A leaf runs only while its failure may be counted, *)
(* also one that a cancellation, which resets the counters, lets run.      *)

\* Failures are counted, and no more of them than the mission allows.
RetriesAreBounded ==
  /\ recover_fail_count <= NumRetries /\ search_fail_count <= NumRetries
  /\ vulture_timeout_count <= VultureRanges

RetriesInv ==
  /\ CountsTyped /\ RetriesAreBounded
  /\ RecoverBuoy \in RunningLeaves \/ RecoverNoBuoy \in RunningLeaves => recover_fail_count < NumRetries
  /\ SearchLocal \in RunningLeaves \/ SearchGlobal \in RunningLeaves => search_fail_count < NumRetries
  /\ Vulture \in RunningLeaves => vulture_timeout_count < VultureRanges

LEMMA RecoverKeepsRetries ==
  ASSUME MissionInv, OneActionInv, RetriesInv, node = "alars_bt",
         NEW s \in {RecoverBuoy, RecoverNoBuoy}, NEW enabled \in BOOLEAN,
         enabled => MayRetry(recover_fail_count), VisitRecover(s, enabled)
  PROVE  RetriesInv'
<1> USE AlarsAssumption DEF RetriesInv, CountsTyped, RetriesAreBounded
<1>1. s \in Members(Tree) /\ s \in Servers /\ Tree = AlarsOrder
  BY AlarsMembers, ClientsAreServers DEF Tree, TreeClients
<1>2. PICK f, status :
        /\ Visited(AlarsOrder, s, f, status)
        /\ UNCHANGED <<search_fail_count, vulture_timeout_count>>
        /\ \/ UNCHANGED recover_fail_count /\ f # "RUNNING"
           \/ /\ enabled \/ LeafRuns(s)
              /\ status # "FAILURE"
              /\ f = "RUNNING" => UNCHANGED recover_fail_count
              /\ recover_fail_count' \in {recover_fail_count, recover_fail_count + 1}
  BY <1>1, RecoverVisited
<1>3. /\ s \in RunningLeaves' <=> f = "RUNNING"
      /\ RunningLeaves' \subseteq RunningLeaves \cup {s}
      /\ status # "FAILURE" => RunningLeaves' \subseteq {s}
  BY <1>1, <1>2, VisitedRuns
<1>4. CASE UNCHANGED recover_fail_count /\ f # "RUNNING"
  BY <1>2, <1>3, <1>4
<1>5. CASE /\ enabled \/ LeafRuns(s)
           /\ status # "FAILURE"
           /\ f = "RUNNING" => UNCHANGED recover_fail_count
           /\ recover_fail_count' \in {recover_fail_count, recover_fail_count + 1}
  <2>1. recover_fail_count < NumRetries
    BY <1>1, <1>5 DEF MayRetry, LeafRuns, RunningLeaves
  <2>2. RunningLeaves' \subseteq {s} /\ (RunningLeaves' # {} => UNCHANGED recover_fail_count)
    BY <1>3, <1>5
  <2>3. QED
    BY <1>2, <1>5, <2>1, <2>2
<1>6. QED
  BY <1>2, <1>4, <1>5

LEMMA SearchKeepsRetries ==
  ASSUME MissionInv, OneActionInv, RetriesInv, node = "alars_bt",
         NEW s \in {SearchLocal, SearchGlobal}, VisitSearch(s, MayRetry(search_fail_count))
  PROVE  RetriesInv'
<1> USE AlarsAssumption DEF RetriesInv, CountsTyped, RetriesAreBounded
<1>1. s \in Members(Tree) /\ s \in Servers /\ Tree = AlarsOrder
  BY AlarsMembers, ClientsAreServers DEF Tree, TreeClients
<1>2. PICK f, status :
        /\ Visited(AlarsOrder, s, f, status)
        /\ UNCHANGED <<recover_fail_count, vulture_timeout_count>>
        /\ \/ UNCHANGED search_fail_count /\ f # "RUNNING"
           \/ /\ MayRetry(search_fail_count) \/ LeafRuns(s)
              /\ status # "FAILURE"
              /\ f = "RUNNING" => UNCHANGED search_fail_count
              /\ search_fail_count' \in {search_fail_count, search_fail_count + 1}
  <2> DEFINE enabled == MayRetry(search_fail_count)
  <2>1. VisitSearch(s, enabled)
    OBVIOUS
  <2> HIDE DEF enabled
  <2>2. \E f, status :
          /\ Visited(AlarsOrder, s, f, status) /\ (f = "RUNNING" => status # "FAILURE")
          /\ UNCHANGED <<recover_fail_count, vulture_timeout_count>>
          /\ \/ UNCHANGED search_fail_count /\ f # "RUNNING"
             \/ /\ enabled \/ LeafRuns(s)
                /\ status # "FAILURE"
                /\ f = "RUNNING" => UNCHANGED search_fail_count
                /\ search_fail_count' \in {search_fail_count, search_fail_count + 1}
    BY <1>1, <2>1, SearchVisited
  <2>3. QED
    BY <2>2 DEF enabled
<1>3. /\ s \in RunningLeaves' <=> f = "RUNNING"
      /\ RunningLeaves' \subseteq RunningLeaves \cup {s}
      /\ status # "FAILURE" => RunningLeaves' \subseteq {s}
  BY <1>1, <1>2, VisitedRuns
<1>4. CASE UNCHANGED search_fail_count /\ f # "RUNNING"
  BY <1>2, <1>3, <1>4
<1>5. CASE /\ MayRetry(search_fail_count) \/ LeafRuns(s)
           /\ status # "FAILURE"
           /\ f = "RUNNING" => UNCHANGED search_fail_count
           /\ search_fail_count' \in {search_fail_count, search_fail_count + 1}
  <2>1. search_fail_count < NumRetries
    BY <1>1, <1>5 DEF MayRetry, LeafRuns, RunningLeaves
  <2>2. RunningLeaves' \subseteq {s} /\ (RunningLeaves' # {} => UNCHANGED search_fail_count)
    BY <1>3, <1>5
  <2>3. QED
    BY <1>2, <1>5, <2>1, <2>2
<1>6. QED
  BY <1>2, <1>4, <1>5

LEMMA VultureKeepsRetries ==
  ASSUME MissionInv, OneActionInv, RetriesInv, node = "alars_bt", VisitVulture
  PROVE  RetriesInv'
<1> USE AlarsAssumption DEF RetriesInv, CountsTyped, RetriesAreBounded
<1>1. Vulture \in Members(Tree) /\ Vulture \in Servers /\ Tree = AlarsOrder
  BY AlarsMembers, ClientsAreServers DEF Tree, TreeClients
<1>2. PICK f, status :
        /\ Visited(AlarsOrder, Vulture, f, status)
        /\ UNCHANGED <<search_fail_count, recover_fail_count>>
        /\ \/ UNCHANGED vulture_timeout_count /\ f # "RUNNING"
           \/ /\ vulture_timeout_count < VultureRanges \/ LeafRuns(Vulture)
              /\ f = "RUNNING" => UNCHANGED vulture_timeout_count
              /\ vulture_timeout_count' \in {vulture_timeout_count, vulture_timeout_count + 1}
  BY VultureVisited
<1>3. /\ Vulture \in RunningLeaves' <=> f = "RUNNING"
      /\ RunningLeaves' \subseteq RunningLeaves \cup {Vulture}
  BY <1>1, <1>2, VisitedRuns
<1>4. CASE UNCHANGED vulture_timeout_count /\ f # "RUNNING"
  BY <1>2, <1>3, <1>4
<1>5. CASE /\ vulture_timeout_count < VultureRanges \/ LeafRuns(Vulture)
           /\ f = "RUNNING" => UNCHANGED vulture_timeout_count
           /\ vulture_timeout_count' \in {vulture_timeout_count, vulture_timeout_count + 1}
  <2>1. vulture_timeout_count < VultureRanges
    BY <1>1, <1>5 DEF LeafRuns, RunningLeaves
  <2>2. Vulture \in RunningLeaves' => UNCHANGED vulture_timeout_count
    BY <1>3, <1>5
  <2>3. QED
    BY <1>2, <1>3, <1>5, <2>1, <2>2
<1>6. QED
  BY <1>2, <1>4, <1>5

\* Between the visits the counters stay, or start again.
LEMMA OthersKeepRetries ==
  ASSUME RetriesInv, UNCHANGED leaf,
         \/ UNCHANGED countVars
         \/ /\ recover_fail_count' = 0 /\ search_fail_count' = 0 /\ vulture_timeout_count' = 0
  PROVE  RetriesInv'
<1> USE AlarsAssumption DEF RetriesInv, CountsTyped, RetriesAreBounded
<1>1. RunningLeaves' = RunningLeaves
  BY DEF RunningLeaves
<1>2. CASE UNCHANGED countVars
  BY <1>1, <1>2 DEF countVars
<1>3. CASE recover_fail_count' = 0 /\ search_fail_count' = 0 /\ vulture_timeout_count' = 0
  BY <1>1, <1>3
<1>4. QED
  BY <1>2, <1>3

LEMMA RetriesStep ==
  MissionInv /\ OneActionInv /\ RetriesInv /\ [Next]_missionTreeVars => RetriesInv'
<1> SUFFICES ASSUME MissionInv, OneActionInv, RetriesInv, [Next]_missionTreeVars PROVE RetriesInv'
  OBVIOUS
<1>1. CASE UNCHANGED missionTreeVars
  BY <1>1, OthersKeepRetries DEF missionTreeVars, linkVars, alarsVars
<1>2. CASE Next /\ node = "prox_ops_bt"
  <2>1. UNCHANGED countVars /\ UNCHANGED node
    BY <1>2 DEF Next, alarsVars
  <2>2. OneActionInv'
    BY <1>2, OneActionStep DEF RetriesInv
  <2>3. RunningLeaves' \subseteq Members(ProxOrder)
    <3>1. Tree' = ProxOrder /\ Members(Tree)' = Members(Tree')
      BY <1>2, <2>1 DEF Tree, Members
    <3>2. QED
      BY <2>2, <3>1 DEF OneActionInv
  <2>4. {RecoverBuoy, RecoverNoBuoy, Vulture, SearchLocal, SearchGlobal} \cap Members(ProxOrder) = {}
    BY DEF Members, ProxOrder
  <2>5. QED
    BY <2>1, <2>3, <2>4 DEF RetriesInv, CountsTyped, RetriesAreBounded, countVars
<1>3. CASE AlarsNext /\ node = "alars_bt" /\ UNCHANGED node
  <2>1. CASE AlarsVisits
    <3>1. CASE VisitVulture
      BY <1>3, <3>1, VultureKeepsRetries
    <3>2. CASE \E s \in {RecoverBuoy, RecoverNoBuoy}, enabled \in BOOLEAN :
                 (enabled => MayRetry(recover_fail_count)) /\ VisitRecover(s, enabled)
      BY <1>3, <3>2, RecoverKeepsRetries
    <3>3. CASE \E s \in {SearchLocal, SearchGlobal} : VisitSearch(s, MayRetry(search_fail_count))
      BY <1>3, <3>3, SearchKeepsRetries
    <3>4. QED
      BY <2>1, <3>1, <3>2, <3>3 DEF AlarsVisits
  <2> DEFINE resets == recover_fail_count' = 0 /\ search_fail_count' = 0 /\ vulture_timeout_count' = 0
  <2>2. AlarsGoal => UNCHANGED leaf /\ (UNCHANGED countVars \/ resets)
    BY DEF AlarsGoal, AlarsReset, ReceiveMission, PrepareMission, ReceiveCancel, CancelAccepted,
           linkVars, alarsVars
  <2>3. AlarsServers => UNCHANGED leaf /\ UNCHANGED countVars
    BY AnswersLeaveMissions DEF AlarsServers, alarsVars
  <2>4. AlarsTick => AlarsVisits \/ (UNCHANGED leaf /\ (UNCHANGED countVars \/ resets))
    <3>1. AfterAlarsTick => UNCHANGED leaf /\ (UNCHANGED countVars \/ resets)
      BY DEF AfterAlarsTick, AlarsReset, LoopEnds, LoopGoesOn, linkVars, alarsVars
    <3>2. (StartTick(AlarsOrder) \/ LoopCanceled) /\ UNCHANGED alarsVars
            => UNCHANGED leaf /\ UNCHANGED countVars
      BY DEF StartTick, LoopCanceled, linkVars, alarsVars
    <3> HIDE DEF resets
    <3>3. AlarsTick => \/ (StartTick(AlarsOrder) \/ LoopCanceled) /\ UNCHANGED alarsVars
                       \/ AlarsVisits \/ AfterAlarsTick
      BY TickVisits
    <3>4. QED
      BY <3>1, <3>2, <3>3
  <2>5. UNCHANGED leaf /\ (UNCHANGED countVars \/ resets) => RetriesInv'
    BY OthersKeepRetries
  <2> HIDE DEF resets
  <2>6. QED
    BY <1>3, <2>1, <2>2, <2>3, <2>4, <2>5 DEF AlarsNext
<1>4. QED
  BY <1>1, <1>2, <1>3 DEF Next, OneActionInv
-----------------------------------------------------------------------------
(* The theorems about what runs. *)

LEMMA ActionsInit == Init => OneActionInv /\ RetriesInv
<1> SUFFICES ASSUME Init PROVE OneActionInv /\ RetriesInv
  OBVIOUS
<1>1. RunningLeaves = {}
  BY DEF Init, MissionInit, LinkInit, RunningLeaves
<1>2. QED
  BY <1>1, AlarsAssumption DEF Init, MissionInit, AlarsInit, OneActionInv, RetriesInv, CountsTyped,
                               RetriesAreBounded

LEMMA ActionsInvHolds == Spec => [](OneActionInv /\ RetriesInv)
<1>1. /\ MissionInv /\ (OneActionInv /\ RetriesInv) /\ [Next]_missionTreeVars
      => (OneActionInv /\ RetriesInv)'
  BY OneActionStep, RetriesStep DEF RetriesInv
<1>2. QED
  BY <1>1, ActionsInit, MissionInvHolds, PTL DEF Spec

\* Neither mission tree ever has two actions on its hands, whatever a cancellation
\* or an earlier mission has left running.
THEOREM OneActionAtATime == Spec => []OneActionRuns
<1>1. OneActionInv => OneActionRuns
  BY DEF OneActionInv, OneActionRuns, RunningLeaves, LeafRuns
<1>2. QED
  BY <1>1, ActionsInvHolds, PTL

\* A mission of ALARS tries a recovery, a search and the vulture no more often
\* than it allows, whatever a cancellation or an earlier mission has left running.
THEOREM RetriesEnd == Spec => []RetriesAreBounded
<1>1. RetriesInv => RetriesAreBounded
  BY DEF RetriesInv
<1>2. QED
  BY <1>1, ActionsInvHolds, PTL
=============================================================================
