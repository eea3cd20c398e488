-------------------------- MODULE ActionLinkProofs --------------------------
(* Proofs about ActionLink, for any servers, slots and interrupts.         *)
(*                                                                         *)
(* WaitsForSomething is proved from what the messages say about the goal   *)
(* they belong to: an acceptance or a feedback under way means a goal whose *)
(* result is still to come (LateMessages).  The invariant is a property of *)
(* each link by itself, LinkOK, so the lemmas are about one record.        *)
EXTENDS ActionLink, TLAPS

ToCome == Underway \cup Ended

Expects(k) ==
  \E g \in Slots : k.goals[g].stage # "free" \/ "reject" \in k.goals[g].transit

\* An acceptance or a feedback in transit belongs to a goal that was accepted
\* and whose result has not been delivered; a rejection to one the server has
\* forgotten.
LateMessages(k) ==
  \A g \in Slots :
    /\ "accept" \in k.goals[g].transit \/ "feedback" \in k.goals[g].transit
         => k.goals[g].stage \in ToCome
    /\ "reject" \in k.goals[g].transit => k.goals[g].stage = "free"

LinkOK(k) ==
  /\ k \in Link
  /\ k.state \in running_states => Expects(k)
  /\ LateMessages(k)

LinkInv ==
  /\ link \in [Servers -> Link]
  /\ leaf \in [Servers -> [status : LeafStatus, timed : BOOLEAN]]
  /\ \A s \in Servers : LinkOK(link[s])

USE DEF running_states, failure_states, success_states
-----------------------------------------------------------------------------
(* The client's operations. *)

\* Replacing one goal of a link leaves a link.
LEMMA GoalsTyped ==
  ASSUME NEW k \in Link, NEW g \in Slots, NEW goal \in Goal,
         NEW st \in ActionClientState, NEW h \in Slots \cup {NoSlot}
  PROVE  [k EXCEPT !.state = st, !.handle = h, !.goals[g] = goal] \in Link
  BY DEF Link

LEMMA GetReadyOK ==
  ASSUME NEW k, LinkOK(k)
  PROVE  LinkOK(get_ready(k)) /\ get_ready(k).state = "READY"
  BY DEF LinkOK, get_ready, Link, ActionClientState, LateMessages

LEMMA CancelGoalOK ==
  ASSUME NEW k, LinkOK(k), k.state \in running_states
  PROVE  LinkOK(cancel_goal(k))
<1>1. CASE k.handle = NoSlot
  BY <1>1 DEF cancel_goal
<1>2. CASE k.handle # NoSlot
  <2> DEFINE h == k.handle
             c == cancel_goal(k)
  <2>1. h \in Slots /\ k.goals \in [Slots -> Goal]
    BY <1>2 DEF LinkOK, Link
  <2>2. c = [k EXCEPT !.state = "CANCELLING",
                      !.goals = [k.goals EXCEPT ![h] =
                        [k.goals[h] EXCEPT !.transit = k.goals[h].transit \cup {"cancel"}]]]
    BY <1>2, <2>1 DEF cancel_goal, LinkOK, Link, Goal
  <2>3. [k.goals[h] EXCEPT !.transit = k.goals[h].transit \cup {"cancel"}] \in Goal
    BY <2>1 DEF Goal, Messages
  <2>4. c \in Link
    BY <2>1, <2>2, <2>3 DEF LinkOK, Link, ActionClientState
  <2>5. \A g \in Slots : /\ c.goals[g].stage = k.goals[g].stage
                         /\ \A m \in {"accept", "feedback", "reject"} :
                              m \in c.goals[g].transit <=> m \in k.goals[g].transit
    BY <2>1, <2>2 DEF LinkOK, Link, Goal
  <2>6. Expects(c)
    BY <2>5 DEF LinkOK, Expects
  <2>7. LateMessages(c)
    BY <2>5 DEF LinkOK, LateMessages
  <2> QED
    BY <2>4, <2>6, <2>7 DEF LinkOK
<1> QED
  BY <1>1, <1>2

LEMMA CancelIfRunningOK ==
  ASSUME NEW k, LinkOK(k)
  PROVE  LinkOK(cancel_if_running(k))
  BY CancelGoalOK DEF cancel_if_running

LEMMA TerminateOK ==
  ASSUME NEW k, LinkOK(k), NEW st
  PROVE  LinkOK(terminate(k, st))
  BY CancelIfRunningOK, GetReadyOK DEF terminate

LEMMA SendGoalOK ==
  ASSUME NEW k, LinkOK(k), NEW g \in Slots, Unused(k, g)
  PROVE  LinkOK(send_goal(k, g))
<1> DEFINE c == send_goal(k, g)
           new == [stage |-> "requested", transit |-> {}]
<1>1. k.goals \in [Slots -> Goal]
  BY DEF LinkOK, Link
<1>2. c = [k EXCEPT !.state = "SENT", !.goals = [k.goals EXCEPT ![g] = new]]
  BY <1>1 DEF send_goal, LinkOK, Link
<1>3. new \in Goal
  BY DEF Goal, GoalStages, Messages
<1>4. c \in Link
  <2> HIDE DEF c, new
  <2> DEFINE goals == [k.goals EXCEPT ![g] = new]
  <2>1. goals \in [Slots -> Goal] /\ "SENT" \in ActionClientState /\ k \in Link
    BY <1>1, <1>3 DEF ActionClientState, LinkOK
  <2> HIDE DEF goals
  <2>2. QED
    BY <1>2, <2>1 DEF Link, goals
<1>5. c.goals[g] = new
  BY <1>1, <1>2 DEF LinkOK, Link
<1>6. Expects(c)
  BY <1>5 DEF Expects
<1>7. LateMessages(c)
  BY <1>1, <1>2, <1>5 DEF LateMessages, LinkOK, Link
<1> QED
  BY <1>4, <1>6, <1>7 DEF LinkOK

\* What update comes to, in each state a client can be in.
LEMMA OutcomeCases ==
  ASSUME NEW k, k.state \in ActionClientState, NEW f, NEW e \in BOOLEAN,
         NEW t \in BOOLEAN, NEW l \in BOOLEAN, f.timed \in BOOLEAN
  PROVE  LET o == UpdateOutcome(k, f, e, t, l) IN
           /\ o \in {"recover", "send", "no_task", "time_out", "wait", "fail", "succeed"}
           /\ o = "recover" => k.state = "CANCELLED"
           /\ o = "send" => k.state = "READY" /\ (e \/ t)
           /\ o \in {"time_out", "wait"} => k.state \in running_states
<1>1. CASE k.state = "CANCELLED"
  BY <1>1 DEF UpdateOutcome
<1>2. CASE k.state = "READY"
  BY <1>2 DEF UpdateOutcome
<1>3. CASE k.state \in running_states
  BY <1>3 DEF UpdateOutcome
<1>4. CASE k.state \in failure_states \ {"CANCELLED"}
  BY <1>4 DEF UpdateOutcome
<1>5. CASE k.state \in success_states
  BY <1>5 DEF UpdateOutcome
<1> QED
  BY <1>1, <1>2, <1>3, <1>4, <1>5 DEF ActionClientState

LEMMA AfterUpdateOK ==
  ASSUME NEW k, LinkOK(k), NEW g \in Slots,
         NEW o \in {"recover", "send", "no_task", "time_out", "wait", "fail", "succeed"},
         o = "send" => Unused(k, g),
         o = "time_out" => k.state \in running_states
  PROVE  LinkOK(AfterUpdate(k, o, g))
<1>1. CASE o = "recover"
  BY <1>1, GetReadyOK DEF AfterUpdate
<1>2. CASE o = "send"
  BY <1>2, SendGoalOK DEF AfterUpdate
<1>3. CASE o = "time_out"
  BY <1>3, CancelGoalOK, TerminateOK DEF AfterUpdate
<1>4. CASE o = "wait"
  BY <1>4 DEF AfterUpdate
<1>5. CASE o \in {"no_task", "fail", "succeed"}
  BY <1>5, TerminateOK DEF AfterUpdate
<1> QED
  BY <1>1, <1>2, <1>3, <1>4, <1>5
-----------------------------------------------------------------------------
(* The steps. *)

\* It is enough that the link a step changes is in order afterwards.
LEMMA OneLinkChanges ==
  ASSUME LinkInv, NEW s \in Servers, NEW k, LinkOK(k),
         link' = [link EXCEPT ![s] = k],
         leaf' \in [Servers -> [status : LeafStatus, timed : BOOLEAN]]
  PROVE  LinkInv'
<1>1. k \in Link
  BY DEF LinkOK
<1>2. link' \in [Servers -> Link]
  BY <1>1 DEF LinkInv
<1>3. \A r \in Servers : LinkOK(link'[r])
  BY DEF LinkInv
<1>4. \A r \in Servers : LinkOK(link[r])'
  BY <1>3 DEF LinkOK, Expects, LateMessages
<1> QED
  BY <1>2, <1>4 DEF LinkInv

LEMMA TickInv ==
  ASSUME LinkInv, NEW s \in Servers, NEW timeout \in BOOLEAN, NEW late \in BOOLEAN,
         Tick(s, timeout, late)
  PROVE  LinkInv'
<1> DEFINE f == EnterLeaf(leaf[s])
           k == EnterClient(link[s], leaf[s])
           o == UpdateOutcome(k, f, FALSE, TRUE, late)
<1>1. LinkOK(k)
  BY CancelIfRunningOK DEF EnterClient, LinkInv
<1>2. f.timed \in BOOLEAN /\ leaf[s] \in [status : LeafStatus, timed : BOOLEAN]
  BY DEF EnterLeaf, LinkInv
<1>3. /\ o \in {"recover", "send", "no_task", "time_out", "wait", "fail", "succeed"}
      /\ o = "time_out" => k.state \in running_states
  <2>1. k.state \in ActionClientState
    BY <1>1 DEF LinkOK, Link
  <2> HIDE DEF k, f
  <2> QED
    BY <1>2, <2>1, OutcomeCases
<1>4. PICK g \in Slots :
        /\ o = "send" => Unused(k, g)
        /\ link' = [link EXCEPT ![s] = AfterUpdate(k, o, g)]
        /\ leaf' = [leaf EXCEPT ![s] =
                       [status |-> OutcomeStatus(o),
                        timed  |-> IF o = "send" THEN timeout ELSE f.timed]]
  BY DEF Tick
<1>5. LinkOK(AfterUpdate(k, o, g))
  <2> HIDE DEF k, o
  <2> QED
    BY <1>1, <1>3, <1>4, AfterUpdateOK
<1>6. OutcomeStatus(o) \in LeafStatus
  <2> HIDE DEF o
  <2> QED
    BY <1>3 DEF OutcomeStatus, LeafStatus
<1>7. leaf' \in [Servers -> [status : LeafStatus, timed : BOOLEAN]]
  <2> HIDE DEF o, f
  <2> QED
    BY <1>2, <1>4, <1>6 DEF LinkInv
<1> QED
  <2> HIDE DEF k, o, f
  <2> QED
    BY <1>4, <1>5, <1>7, OneLinkChanges

LEMMA InterruptInv ==
  ASSUME LinkInv, NEW s \in Servers, Preempt(s) \/ Rebuild(s)
  PROVE  LinkInv'
<1>1. LinkOK(link[s])
  BY DEF LinkInv
<1>2. CASE Preempt(s)
  <2>1. link' = [link EXCEPT ![s] = terminate(link[s], "INVALID")]
    BY <1>2 DEF Preempt, LinkInv
  <2>2. leaf' \in [Servers -> [status : LeafStatus, timed : BOOLEAN]]
    BY <1>2 DEF Preempt, LinkInv, LeafStatus
  <2> QED
    BY <1>1, <2>1, <2>2, TerminateOK, OneLinkChanges
<1>3. CASE Rebuild(s)
  <2> DEFINE k == IF link[s].state \in running_states THEN link[s] ELSE get_ready(link[s])
  <2>1. link' = [link EXCEPT ![s] = k]
    BY <1>3 DEF Rebuild, LinkInv
  <2>2. leaf' \in [Servers -> [status : LeafStatus, timed : BOOLEAN]]
    BY <1>3 DEF Rebuild, LinkInv, LeafStatus
  <2>3. LinkOK(k)
    BY <1>1, GetReadyOK
  <2> QED
    BY <2>1, <2>2, <2>3, OneLinkChanges
<1> QED
  BY <1>2, <1>3

\* A step that replaces one goal of a link, and perhaps the client's state and
\* handle, keeps the link in order if the new goal keeps to LateMessages and,
\* for a client that is left waiting, there is still something to come.
LEMMA OneGoalChanges ==
  ASSUME LinkInv, NEW s \in Servers, NEW g \in Slots,
         NEW st \in ActionClientState, NEW h \in Slots \cup {NoSlot}, NEW goal \in Goal,
         link' = [link EXCEPT ![s] = [link[s] EXCEPT !.state = st, !.handle = h,
                                        !.goals = [link[s].goals EXCEPT ![g] = goal]]],
         UNCHANGED leaf,
         "accept" \in goal.transit \/ "feedback" \in goal.transit => goal.stage \in ToCome,
         "reject" \in goal.transit => goal.stage = "free",
         st \in running_states =>
           goal.stage # "free" \/ "reject" \in goal.transit
             \/ (/\ link[s].state \in running_states
                 /\ link[s].goals[g].stage = "free"
                 /\ "reject" \notin link[s].goals[g].transit)
  PROVE  LinkInv'
<1> DEFINE k == link[s]
           c == [k EXCEPT !.state = st, !.handle = h, !.goals = [k.goals EXCEPT ![g] = goal]]
<1>1. LinkOK(k) /\ k \in Link /\ k.goals \in [Slots -> Goal]
  BY DEF LinkInv, LinkOK, Link
<1>2. c \in Link
  BY <1>1 DEF Link
<1>3. /\ c.state = st
      /\ c.goals[g] = goal
      /\ \A i \in Slots : i # g => c.goals[i] = k.goals[i]
  BY <1>1 DEF Link
<1>4. LateMessages(c)
  BY <1>1, <1>3 DEF LinkOK, LateMessages
<1>5. ASSUME st \in running_states PROVE Expects(c)
  <2>1. CASE goal.stage # "free" \/ "reject" \in goal.transit
    BY <1>3, <2>1 DEF Expects
  <2>2. CASE /\ k.state \in running_states
             /\ k.goals[g].stage = "free" /\ "reject" \notin k.goals[g].transit
    <3>1. PICK i \in Slots : k.goals[i].stage # "free" \/ "reject" \in k.goals[i].transit
      BY <1>1, <2>2 DEF LinkOK, Expects
    <3>2. c.goals[i] = k.goals[i]
      BY <1>3, <2>2, <3>1
    <3> QED
      BY <3>1, <3>2 DEF Expects
  <2> QED
    BY <1>5, <2>1, <2>2
<1>6. LinkOK(c)
  BY <1>2, <1>3, <1>4, <1>5 DEF LinkOK
<1> QED
  <2>1. link' = [link EXCEPT ![s] = c] /\ leaf' \in [Servers -> [status : LeafStatus, timed : BOOLEAN]]
    BY DEF LinkInv
  <2> HIDE DEF c
  <2> QED
    BY <1>6, <2>1, OneLinkChanges

LEMMA ServerMovesForm ==
  ASSUME LinkInv, NEW s \in Servers, NEW g \in Slots, NEW stage, NEW transit,
         ServerMoves(s, g, stage, transit)
  PROVE  /\ link' = [link EXCEPT ![s] = [link[s] EXCEPT !.state = link[s].state,
                       !.handle = link[s].handle,
                       !.goals = [link[s].goals EXCEPT ![g] =
                         [stage |-> stage, transit |-> transit]]]]
         /\ UNCHANGED leaf
<1>1. link \in [Servers -> Link] /\ link[s].goals \in [Slots -> Goal]
  BY DEF LinkInv, Link
<1> QED
  BY <1>1 DEF ServerMoves, Link, Goal

\* What the invariant says of one goal.
LEMMA GoalFacts ==
  ASSUME LinkInv, NEW s \in Servers, NEW g \in Slots
  PROVE  LET goal == link[s].goals[g] IN
           /\ goal \in Goal /\ goal.stage \in GoalStages /\ goal.transit \in SUBSET Messages
           /\ link[s].state \in ActionClientState
           /\ link[s].handle \in Slots \cup {NoSlot}
           /\ "accept" \in goal.transit \/ "feedback" \in goal.transit => goal.stage \in ToCome
           /\ "reject" \in goal.transit => goal.stage = "free"
<1>1. link[s] \in Link /\ LinkOK(link[s])
  BY DEF LinkInv
<1> QED
  BY <1>1 DEF Link, Goal, LinkOK, LateMessages

LEMMA CallbackInv ==
  ASSUME LinkInv, NEW s \in Servers, Callback(s)
  PROVE  LinkInv'
<1>1. PICK g \in Slots :
        \/ GoalAccepted(s, g) \/ GoalRejected(s, g) \/ FeedbackArrives(s, g)
        \/ CancelConfirmed(s, g) \/ CancelFailed(s, g) \/ ResultArrives(s, g)
  BY DEF Callback
<1> DEFINE goal == link[s].goals[g]
<1>2. /\ goal \in Goal /\ goal.stage \in GoalStages /\ goal.transit \in SUBSET Messages
      /\ link[s].state \in ActionClientState
      /\ link[s].handle \in Slots \cup {NoSlot}
      /\ "accept" \in goal.transit \/ "feedback" \in goal.transit => goal.stage \in ToCome
      /\ "reject" \in goal.transit => goal.stage = "free"
  BY GoalFacts
\* A message that arrives about a goal that stays leaves the others as they were.
<1>3. ASSUME NEW m \in Messages, NEW st \in ActionClientState,
             NEW h \in Slots \cup {NoSlot}, Arrives(s, g, m, st, h, goal.stage),
             st \in running_states =>
               goal.stage # "free" \/ (st = link[s].state /\ m # "reject")
      PROVE  LinkInv'
  <2> DEFINE new == [stage |-> goal.stage, transit |-> goal.transit \ {m}]
  <2>1. new \in Goal /\ new.stage = goal.stage /\ new.transit = goal.transit \ {m}
    BY <1>2 DEF Goal
  <2>2. /\ link' = [link EXCEPT ![s] = [link[s] EXCEPT !.state = st, !.handle = h,
                      !.goals = [link[s].goals EXCEPT ![g] = new]]]
        /\ UNCHANGED leaf
    BY <1>3 DEF Arrives, LinkInv, Link, Goal
  <2> HIDE DEF new
  <2> QED
    BY <1>2, <1>3, <2>1, <2>2, OneGoalChanges
<1>4. CASE GoalAccepted(s, g)
  <2>1. Arrives(s, g, "accept", "ACCEPTED", g, goal.stage)
    BY <1>4 DEF GoalAccepted
  <2>2. goal.stage \in ToCome
    BY <1>2, <2>1 DEF Arrives
  <2> QED
    BY <1>3, <2>1, <2>2 DEF Messages, ActionClientState, ToCome, Underway, Ended
<1>5. CASE GoalRejected(s, g)
  <2>1. Arrives(s, g, "reject", "REJECTED", g, "free")
    BY <1>5 DEF GoalRejected
  <2>2. goal.stage = "free"
    BY <1>2, <2>1 DEF Arrives
  <2> QED
    BY <1>3, <2>1, <2>2 DEF Messages, ActionClientState
<1>6. CASE FeedbackArrives(s, g)
  <2>1. Arrives(s, g, "feedback", "RUNNING", link[s].handle, goal.stage)
    BY <1>6 DEF FeedbackArrives
  <2>2. goal.stage \in ToCome
    BY <1>2, <2>1 DEF Arrives
  <2> QED
    BY <1>2, <1>3, <2>1, <2>2 DEF Messages, ActionClientState, ToCome, Underway, Ended
<1>7. CASE CancelConfirmed(s, g)
  BY <1>2, <1>3, <1>7 DEF CancelConfirmed, Messages, ActionClientState
<1>8. CASE CancelFailed(s, g)
  BY <1>2, <1>3, <1>8 DEF CancelFailed, Messages
<1>9. CASE ResultArrives(s, g)
  <2> DEFINE end == [stage |-> "free", transit |-> goal.transit \ {"feedback"}]
             st  == ResultState(goal.stage)
  <2>1. end \in Goal /\ "accept" \notin goal.transit /\ goal.stage \in Ended
    BY <1>2, <1>9 DEF ResultArrives, Messages, GoalStages, Goal
  <2>2. st \in ActionClientState /\ st \notin running_states
    BY <2>1 DEF ResultState, Ended, ActionClientState
  <2>3. /\ link' = [link EXCEPT ![s] = [link[s] EXCEPT !.state = st, !.handle = link[s].handle,
                      !.goals = [link[s].goals EXCEPT ![g] = end]]]
        /\ UNCHANGED leaf
    BY <1>9, <2>1 DEF ResultArrives, LinkInv, Link, Goal
  <2> HIDE DEF st, end
  <2>4. end.stage = "free" /\ "accept" \notin end.transit /\ "feedback" \notin end.transit
    BY <2>1 DEF end
  <2> QED
    BY <1>2, <2>1, <2>2, <2>3, <2>4, OneGoalChanges
<1> QED
  BY <1>1, <1>4, <1>5, <1>6, <1>7, <1>8, <1>9

LEMMA ServerInv ==
  ASSUME LinkInv, NEW s \in Servers,
         ServerAnswer(s) \/ \E g \in Slots : ServerFeedback(s, g) \/ ServerEnds(s, g)
  PROVE  LinkInv'
<1>1. PICK g \in Slots :
        \/ ServerAccepts(s, g) \/ ServerRejects(s, g)
        \/ \E granted \in BOOLEAN : ServerCancels(s, g, granted)
        \/ ServerFeedback(s, g) \/ ServerEnds(s, g)
  BY DEF ServerAnswer
<1> DEFINE goal == link[s].goals[g]
<1>2. /\ goal \in Goal /\ goal.stage \in GoalStages /\ goal.transit \in SUBSET Messages
      /\ link[s].state \in ActionClientState
      /\ link[s].handle \in Slots \cup {NoSlot}
      /\ "accept" \in goal.transit \/ "feedback" \in goal.transit => goal.stage \in ToCome
      /\ "reject" \in goal.transit => goal.stage = "free"
  BY GoalFacts
\* A server's step only has to leave the messages about the goal in order, and
\* not to forget the goal without a word.
<1>3. ASSUME NEW stage \in GoalStages, NEW transit \in SUBSET Messages,
             ServerMoves(s, g, stage, transit),
             "accept" \in transit \/ "feedback" \in transit => stage \in ToCome,
             "reject" \in transit => stage = "free",
             goal.stage # "free" \/ "reject" \in goal.transit
               => stage # "free" \/ "reject" \in transit
      PROVE  LinkInv'
  <2> DEFINE new == [stage |-> stage, transit |-> transit]
  <2>1. new \in Goal /\ new.stage = stage /\ new.transit = transit
    BY DEF Goal
  <2>2. /\ link' = [link EXCEPT ![s] = [link[s] EXCEPT !.state = link[s].state,
                      !.handle = link[s].handle,
                      !.goals = [link[s].goals EXCEPT ![g] = new]]]
        /\ UNCHANGED leaf
    BY <1>3, ServerMovesForm
  <2> HIDE DEF new
  <2> QED
    BY <1>2, <1>3, <2>1, <2>2, OneGoalChanges
<1>4. CASE ServerAccepts(s, g)
  BY <1>3, <1>4 DEF ServerAccepts, GoalStages, Messages, ToCome, Underway
<1>5. CASE ServerRejects(s, g)
  BY <1>3, <1>5 DEF ServerRejects, GoalStages, Messages
<1>6. CASE \E granted \in BOOLEAN : ServerCancels(s, g, granted)
  <2>1. PICK granted \in BOOLEAN : ServerCancels(s, g, granted)
    BY <1>6
  <2> DEFINE stage   == IF granted THEN "CANCELING" ELSE goal.stage
             answer  == IF granted THEN "canceling" ELSE "not_canceling"
             transit == (goal.transit \ {"cancel"}) \cup {answer}
  <2>2. ServerMoves(s, g, stage, transit) /\ (granted => goal.stage = "EXECUTING")
    BY <2>1 DEF ServerCancels
  <2>3. stage \in GoalStages /\ transit \in SUBSET Messages
    BY <1>2 DEF GoalStages, Underway, Messages
  <2>4. \A m \in {"accept", "feedback", "reject"} : m \in transit <=> m \in goal.transit
    OBVIOUS
  <2>5. granted => stage \in ToCome /\ stage # "free" /\ goal.stage # "free"
    BY <2>2 DEF ToCome, Underway
  <2>6. ~granted => stage = goal.stage
    OBVIOUS
  <2> HIDE DEF stage, transit, goal
  <2> QED
    BY <1>2, <1>3, <2>2, <2>3, <2>4, <2>5, <2>6
<1>7. CASE ServerFeedback(s, g)
  <2>1. /\ goal.stage \in Underway
        /\ ServerMoves(s, g, goal.stage, goal.transit \cup {"feedback"})
    BY <1>7 DEF ServerFeedback
  <2>2. goal.transit \cup {"feedback"} \in SUBSET Messages
    BY <1>2 DEF Messages
  <2> HIDE DEF goal
  <2> QED
    BY <1>2, <1>3, <2>1, <2>2 DEF ToCome, Underway
<1>8. CASE ServerEnds(s, g)
  <2>1. PICK stage \in Ended : ServerFinishes(s, g, stage)
    BY <1>8 DEF ServerEnds
  <2>2. goal.stage \in Underway /\ ServerMoves(s, g, stage, goal.transit)
    BY <2>1 DEF ServerFinishes, Underway
  <2>3. stage \in GoalStages /\ stage \in ToCome /\ stage # "free"
    BY <2>1 DEF GoalStages, ToCome, Ended
  <2> HIDE DEF goal
  <2> QED
    BY <1>2, <1>3, <2>2, <2>3 DEF Underway
<1> QED
  BY <1>1, <1>4, <1>5, <1>6, <1>7, <1>8
-----------------------------------------------------------------------------
(* The theorems. *)

LEMMA InitInv == LinkInit => LinkInv
<1> SUFFICES ASSUME LinkInit PROVE LinkInv
  OBVIOUS
<1>1. FreeGoal \in Goal
  BY DEF FreeGoal, Goal, GoalStages
<1>2. FreshLink \in Link
  BY <1>1 DEF FreshLink, Link, ActionClientState
<1>3. LinkOK(FreshLink)
  BY <1>2 DEF LinkOK, FreshLink, FreeGoal, LateMessages
<1> QED
  BY <1>2, <1>3 DEF LinkInit, LinkInv, LeafStatus

\* The inductive invariant holds: every link is in order at every moment.
THEOREM LinkInvHolds == LinkSafety => []LinkInv
<1>1. LinkInit => LinkInv
  BY InitInv
<1>2. LinkInv /\ [LinkNext]_linkVars => LinkInv'
  <2> SUFFICES ASSUME LinkInv, [LinkNext]_linkVars PROVE LinkInv'
    OBVIOUS
  <2>1. CASE LinkNext
    <3>1. PICK s \in Servers :
            \/ AnyTick(s) \/ Preempt(s) \/ Rebuild(s)
            \/ Callback(s) \/ ServerAnswer(s)
            \/ \E g \in Slots : ServerFeedback(s, g) \/ ServerEnds(s, g)
      BY <2>1 DEF LinkNext
    <3>2. CASE AnyTick(s)
      BY <3>2, TickInv DEF AnyTick
    <3>3. CASE Preempt(s) \/ Rebuild(s)
      BY <3>3, InterruptInv
    <3>4. CASE Callback(s)
      BY <3>4, CallbackInv
    <3>5. CASE ServerAnswer(s) \/ \E g \in Slots : ServerFeedback(s, g) \/ ServerEnds(s, g)
      BY <3>5, ServerInv
    <3> QED
      BY <3>1, <3>2, <3>3, <3>4, <3>5
  <2>2. CASE UNCHANGED linkVars
    BY <2>2 DEF linkVars, LinkInv, LinkOK, Expects, LateMessages
  <2> QED
    BY <2>1, <2>2
<1> QED
  BY <1>1, <1>2, PTL DEF LinkSafety

\* The client's state, its handle, its goals and the leaf that drives it always
\* have the values the code gives them.
THEOREM LinkTypeCorrect == LinkSafety => []LinkTypeOK
<1>1. LinkInv => LinkTypeOK
  BY DEF LinkInv, LinkTypeOK
<1> QED
  BY <1>1, LinkInvHolds, PTL

\* A client left in a running state always has a request, an answer, a goal or a
\* result to come: with any number of goals, and under every interruption.
THEOREM ClientsWaitForSomething == LinkSafety => []WaitsForSomething
<1>1. LinkInv => WaitsForSomething
  BY DEF LinkInv, LinkOK, Expects, WaitsForSomething
<1> QED
  BY <1>1, LinkInvHolds, PTL
=============================================================================
