---------------------------- MODULE WaspBTProofs ----------------------------
(* Proofs about WaspBT, for any number of servers, tasks and goals.        *)
(*                                                                         *)
(* A tick is a function of a record, from one subtree to the next, and so  *)
(* are the proofs: one lemma per subtree says what it may do to the record *)
(* (TickLeafFacts, ChillFacts, ...), TickIs puts them together, and each   *)
(* property of a tick is read off there.  Between the ticks the handler    *)
(* and the links move by the steps of their own modules, whose invariants  *)
(* HandlerInv and LinkInv the tree is shown to keep.                       *)
EXTENDS WaspBT, TaskHandlerProofs, ActionLinkProofs

LeafRecord == [status : LeafStatus, timed : BOOLEAN]

\* The values a tick works on.
TickState ==
  [link : [Servers -> Link], leaf : [Servers -> LeafRecord],
   payload : [Servers -> Payload], tree : SUBSET Names, known : SUBSET Names,
   queue : Seq(LiveTask), available : [Names -> Ages \cup {None}],
   mission : MissionStates, emergency : BOOLEAN, aborted : BOOLEAN,
   alive : BOOLEAN, status : LeafStatus, fits : BOOLEAN]

\* While the tick fits the bound, its links are in order, and tasks stay queued
\* in an emergency only by the mission's timeout.
TickOK(t) ==
  /\ t \in TickState
  /\ t.fits => \A s \in Servers : LinkOK(t.link[s])
  /\ t.emergency /\ t.queue # <<>> => MissionExpired
-----------------------------------------------------------------------------
(* The client's operations keep the type of a link, whatever its messages. *)

LEMMA CancelGoalTyped ==
  ASSUME NEW k \in Link
  PROVE  /\ cancel_goal(k) \in Link
         /\ cancel_if_running(k) \in Link
         /\ cancel_if_running(k).state = "CANCELLED" => k.state = "CANCELLED"
<1> USE DEF running_states
<1>1. CASE k.handle = NoSlot
  BY <1>1 DEF cancel_goal, cancel_if_running
<1>2. CASE k.handle # NoSlot
  <2> DEFINE h == k.handle
             c == cancel_goal(k)
             asked == [k.goals[h] EXCEPT !.transit = k.goals[h].transit \cup {"cancel"}]
  <2>1. h \in Slots /\ k.goals \in [Slots -> Goal]
    BY <1>2 DEF Link
  <2>2. c = [k EXCEPT !.state = "CANCELLING", !.goals = [k.goals EXCEPT ![h] = asked]]
    BY <1>2, <2>1 DEF cancel_goal, Link, Goal
  <2>3. asked \in Goal
    BY <2>1 DEF Goal, Messages
  <2> HIDE DEF asked, c
  <2>4. c \in Link /\ c.state = "CANCELLING"
    BY <2>1, <2>2, <2>3 DEF Link, ActionClientState
  <2> QED
    BY <2>4 DEF c, cancel_if_running
<1> QED
  BY <1>1, <1>2

\* Stopping a client that waits with a handle asks the goal to be cancelled.
LEMMA StopCancels ==
  ASSUME NEW k \in Link, NEW g \in Slots, k.handle = g, k.state \in running_states
  PROVE  "cancel" \in terminate(k, "INVALID").goals[g].transit
<1>1. g # NoSlot
  BY LinkAssumption
<1>2. k.goals \in [Slots -> Goal]
  BY DEF Link
<1>3. "cancel" \in cancel_goal(k).goals[g].transit
  BY <1>1, <1>2 DEF cancel_goal, Link, Goal
<1>4. cancel_goal(k) \in Link
  BY CancelGoalTyped
<1> QED
  BY <1>3, <1>4 DEF terminate, get_ready, cancel_if_running, Link

LEMMA GetReadyTyped ==
  ASSUME NEW k \in Link
  PROVE  get_ready(k) \in Link /\ get_ready(k).goals = k.goals /\ get_ready(k).state = "READY"
  BY DEF get_ready, Link, ActionClientState

LEMMA TerminateTyped ==
  ASSUME NEW k \in Link, NEW st
  PROVE  terminate(k, st) \in Link
  BY CancelGoalTyped, GetReadyTyped DEF terminate

LEMMA SendGoalTyped ==
  ASSUME NEW k \in Link, NEW g
  PROVE  send_goal(k, g) \in Link /\ send_goal(k, g).state = "SENT"
<1> DEFINE new == [stage |-> "requested", transit |-> {}]
<1>1. new \in Goal
  BY DEF Goal, GoalStages
<1>2. [k.goals EXCEPT ![g] = new] \in [Slots -> Goal]
  BY <1>1 DEF Link
<1>3. send_goal(k, g) = [k EXCEPT !.state = "SENT", !.goals = [k.goals EXCEPT ![g] = new]]
  BY DEF send_goal, Link
<1> QED
  BY <1>2, <1>3 DEF Link, ActionClientState, running_states

\* Only sending makes a goal requested.
LEMMA OnlySendRequests ==
  ASSUME NEW k \in Link, NEW g \in Slots, k.goals[g].stage # "requested"
  PROVE  /\ get_ready(k).goals[g].stage # "requested"
         /\ cancel_goal(k).goals[g].stage # "requested"
         /\ cancel_if_running(k).goals[g].stage # "requested"
         /\ \A st : terminate(k, st).goals[g].stage # "requested"
<1>1. \A l \in Link : get_ready(l).goals = l.goals
  BY GetReadyTyped
<1>2. k.goals \in [Slots -> Goal]
  BY DEF Link
<1>3. cancel_goal(k).goals[g].stage # "requested"
  BY <1>2 DEF cancel_goal, Link, Goal
<1>4. cancel_if_running(k).goals[g].stage # "requested"
  BY <1>3 DEF cancel_if_running
<1> QED
  BY <1>1, <1>3, <1>4, CancelGoalTyped DEF terminate

Outcomes == {"recover", "send", "no_task", "time_out", "wait", "fail", "succeed"}

LEMMA AfterUpdateFacts ==
  ASSUME NEW k \in Link, NEW o \in Outcomes, NEW g,
         o = "recover" => k.state = "CANCELLED",
         o \in {"time_out", "wait"} => k.state \in running_states
  PROVE  LET c == AfterUpdate(k, o, g) IN
           /\ c \in Link
           /\ c.state \in running_states \/ o \notin {"send", "wait"}
           /\ o # "send" => \A h \in Slots :
                c.goals[h].stage = "requested" => k.goals[h].stage = "requested"
<1> USE DEF running_states
<1>1. CASE o = "recover"
  BY <1>1, GetReadyTyped DEF AfterUpdate
<1>2. CASE o = "send"
  BY <1>2, SendGoalTyped DEF AfterUpdate
<1>3. CASE o = "time_out"
  <2>1. AfterUpdate(k, o, g) = terminate(cancel_goal(k), "FAILURE")
    BY <1>3 DEF AfterUpdate
  <2>2. cancel_goal(k) \in Link
    BY CancelGoalTyped
  <2> QED
    BY <1>3, <2>1, <2>2, TerminateTyped, OnlySendRequests
<1>4. CASE o = "wait"
  BY <1>4 DEF AfterUpdate
<1>5. CASE o \in {"no_task", "fail", "succeed"}
  BY <1>5, TerminateTyped, OnlySendRequests DEF AfterUpdate
<1> QED
  BY <1>1, <1>2, <1>3, <1>4, <1>5 DEF Outcomes

-----------------------------------------------------------------------------
(* The parts of a tick.  Kept is what none of the subtrees changes.        *)

Kept(t, u) == u.tree = t.tree /\ u.known = t.known /\ u.available = t.available

\* The leaf is left to itself: neither it nor its client is touched.
Untouched(t, u, s) ==
  u.leaf[s] = t.leaf[s] /\ u.link[s] = t.link[s] /\ u.payload[s] = t.payload[s]

\* A goal is asked for of s.
Asks(t, u, s) ==
  \E g \in Slots : t.link[s].goals[g].stage # "requested"
                     /\ u.link[s].goals[g].stage = "requested"

\* A queue of live tasks keeps its length when its head is marked.
LEMMA SetCurrentFacts ==
  ASSUME NEW q \in Seq(LiveTask), NEW st \in LiveStates
  PROVE  /\ SetCurrent(q, st) \in Seq(LiveTask)
         /\ Len(SetCurrent(q, st)) = Len(q)
         /\ q = <<>> <=> SetCurrent(q, st) = <<>>
         /\ q # <<>> => /\ Head(SetCurrent(q, st)) = [Head(q) EXCEPT !.status = st]
                        /\ Head(q) \in LiveTask
<1>1. SetCurrent(q, st) \in Seq(LiveTask)
  BY SetCurrentLive
<1>2. CASE q = <<>>
  BY <1>1, <1>2 DEF SetCurrent
<1>3. CASE q # <<>>
  <2>1. SetCurrent(q, st) = [q EXCEPT ![1] = [q[1] EXCEPT !.status = st]]
    BY <1>3 DEF SetCurrent, WithStatus
  <2>2. 1 \in DOMAIN q /\ q[1] \in LiveTask /\ Head(q) = q[1]
    BY <1>3
  <2>3. [q[1] EXCEPT !.status = st] \in LiveTask
    BY <2>2 DEF LiveTask
  <2> HIDE DEF LiveTask
  <2> QED
    BY <1>1, <1>3, <2>1, <2>2, <2>3, ExceptSeq
<1> QED
  BY <1>2, <1>3

LEMMA ClearCurrentFacts ==
  ASSUME NEW q \in Seq(LiveTask)
  PROVE  /\ ClearCurrent(q) \in Seq(LiveTask)
         /\ q = <<>> => ClearCurrent(q) = <<>>
         /\ Len(ClearCurrent(q)) <= Len(q)
  BY ClearCurrentLive, HeadTailProperties DEF ClearCurrent

\* What the leaf, its client and the queue have come to after a leaf's tick.
LEMMA TickLeafFacts ==
  ASSUME NEW t \in TickState, NEW s \in Servers, NEW late \in BOOLEAN
  PROVE  LET u == TickLeaf(t, s, late) IN
           /\ u \in TickState
           /\ \A r \in Servers \ {s} : Untouched(t, u, r)
           /\ Kept(t, u)
           /\ u.emergency = t.emergency /\ u.aborted = t.aborted
           /\ u.alive = t.alive /\ u.status = t.status
           /\ u.fits => t.fits
           /\ u.fits /\ LinkOK(t.link[s]) => LinkOK(u.link[s])
           /\ t.queue = <<>> => u.queue = <<>>
           /\ Len(u.queue) < Len(t.queue) => u.leaf[s].status = "FAILURE"
           /\ u.leaf[s].status \in {"RUNNING", "SUCCESS", "FAILURE"}
           /\ u.mission = IF u.leaf[s].status = "FAILURE" THEN "error" ELSE t.mission
           /\ Asks(t, u, s) =>
                /\ u.leaf[s].status = "RUNNING"
                /\ ~t.emergency =>
                     /\ t.queue # <<>> /\ u.queue # <<>>
                     /\ Head(u.queue) = [Head(t.queue) EXCEPT !.status = "running"]
                     /\ u.payload[s] = Head(t.queue).uuid
           /\ \/ u.leaf[s].status \in {"SUCCESS", "FAILURE"}
              \/ u.link[s].state \in running_states
              \/ t.link[s].state = "CANCELLED"
<1> DEFINE f     == EnterLeaf(t.leaf[s])
           k     == EnterClient(t.link[s], t.leaf[s])
           q     == IF t.leaf[s].status = "RUNNING" THEN t.queue
                    ELSE SetCurrent(t.queue, "started")
           o     == UpdateOutcome(k, f, t.emergency, q # <<>>, late)
           works == o = "send" /\ ~t.emergency
           fails == o \in {"time_out", "fail"}
           u     == TickLeaf(t, s, late)
<1>1. /\ u.fits = (t.fits /\ (o = "send" => HasSlot(k)))
      /\ u.link = [t.link EXCEPT ![s] = AfterUpdate(k, o, FreeSlot(k))]
      /\ u.leaf = [t.leaf EXCEPT ![s] =
                     [status |-> OutcomeStatus(o),
                      timed  |-> IF works THEN Head(q).timeout # None ELSE f.timed]]
      /\ u.queue = IF works THEN SetCurrent(q, "running")
                   ELSE IF fails THEN ClearCurrent(q) ELSE q
      /\ u.mission = IF OutcomeStatus(o) = "FAILURE" THEN "error" ELSE t.mission
      /\ u.payload = [t.payload EXCEPT ![s] =
                        IF o # "send" THEN t.payload[s]
                        ELSE IF works THEN Head(q).uuid ELSE LevelOne]
      /\ Kept(t, u)
      /\ u.emergency = t.emergency /\ u.aborted = t.aborted
      /\ u.alive = t.alive /\ u.status = t.status
      /\ u = [link |-> u.link, leaf |-> u.leaf, payload |-> u.payload,
              tree |-> u.tree, known |-> u.known, queue |-> u.queue,
              available |-> u.available, mission |-> u.mission,
              emergency |-> u.emergency, aborted |-> u.aborted,
              alive |-> u.alive, status |-> u.status, fits |-> u.fits]
<2>1. u = [t EXCEPT
               !.fits       = @ /\ (o = "send" => HasSlot(k)),
               !.link[s]    = AfterUpdate(k, o, FreeSlot(k)),
               !.leaf[s]    = [status |-> OutcomeStatus(o),
                             timed  |-> IF works THEN Head(q).timeout # None ELSE f.timed],
               !.queue      = IF works THEN SetCurrent(q, "running")
                            ELSE IF fails THEN ClearCurrent(q) ELSE q,
               !.mission    = IF OutcomeStatus(o) = "FAILURE" THEN "error" ELSE @,
               !.payload[s] = IF o # "send" THEN @
                            ELSE IF works THEN Head(q).uuid ELSE LevelOne]
    BY DEF TickLeaf
  <2> HIDE DEF f, k, q, o, works, fails, u
  <2>2. /\ u.queue = IF works THEN SetCurrent(q, "running")
                    ELSE IF fails THEN ClearCurrent(q) ELSE q
        /\ u.mission = IF OutcomeStatus(o) = "FAILURE" THEN "error" ELSE t.mission
        /\ u.fits = (t.fits /\ (o = "send" => HasSlot(k)))
    BY <2>1 DEF TickState
  <2>3. /\ u.link = [t.link EXCEPT ![s] = AfterUpdate(k, o, FreeSlot(k))]
        /\ u.leaf = [t.leaf EXCEPT ![s] =
                       [status |-> OutcomeStatus(o),
                        timed  |-> IF works THEN Head(q).timeout # None ELSE f.timed]]
        /\ u.payload = [t.payload EXCEPT ![s] =
                          IF o # "send" THEN t.payload[s]
                          ELSE IF works THEN Head(q).uuid ELSE LevelOne]
    BY <2>1 DEF TickState
  <2>4. /\ Kept(t, u)
        /\ u.emergency = t.emergency /\ u.aborted = t.aborted
        /\ u.alive = t.alive /\ u.status = t.status
    BY <2>1 DEF TickState, Kept
  <2>5. u = [link |-> u.link, leaf |-> u.leaf, payload |-> u.payload,
             tree |-> u.tree, known |-> u.known, queue |-> u.queue,
             available |-> u.available, mission |-> u.mission,
             emergency |-> u.emergency, aborted |-> u.aborted,
             alive |-> u.alive, status |-> u.status, fits |-> u.fits]
    BY <2>1 DEF TickState
  <2> QED
    BY <2>2, <2>3, <2>4, <2>5 DEF works, fails
<1>3. /\ t.link \in [Servers -> Link] /\ t.leaf \in [Servers -> LeafRecord]
      /\ t.payload \in [Servers -> Payload] /\ t.queue \in Seq(LiveTask)
      /\ t.mission \in MissionStates /\ t.emergency \in BOOLEAN /\ t.fits \in BOOLEAN
  BY DEF TickState
<1>4. /\ k \in Link /\ f \in LeafRecord
      /\ k.state = "CANCELLED" => t.link[s].state = "CANCELLED"
      /\ LinkOK(t.link[s]) => LinkOK(k)
      /\ \A g \in Slots : k.goals[g].stage = "requested" => t.link[s].goals[g].stage = "requested"
  <2>1. t.link[s] \in Link /\ t.leaf[s] \in LeafRecord
    BY <1>3
  <2> QED
    BY <2>1, CancelGoalTyped, CancelIfRunningOK, OnlySendRequests
    DEF EnterClient, EnterLeaf, LeafRecord
<1>5. /\ q \in Seq(LiveTask) /\ Len(q) = Len(t.queue) /\ (q = <<>> <=> t.queue = <<>>)
      /\ q # <<>> => /\ [Head(q) EXCEPT !.status = "running"]
                          = [Head(t.queue) EXCEPT !.status = "running"]
                     /\ Head(q).uuid = Head(t.queue).uuid
                     /\ Head(q) \in LiveTask
  <2>1. "started" \in LiveStates
    BY DEF LiveStates
  <2>2. t.queue # <<>> => Head(t.queue) \in LiveTask
    BY <1>3
  <2>3. CASE t.leaf[s].status = "RUNNING"
    BY <1>3, <2>2, <2>3
  <2>4. CASE t.leaf[s].status # "RUNNING"
    <3>1. q = SetCurrent(t.queue, "started")
      BY <2>4
    <3>2. /\ q \in Seq(LiveTask) /\ Len(q) = Len(t.queue) /\ (q = <<>> <=> t.queue = <<>>)
          /\ t.queue # <<>> => Head(q) = [Head(t.queue) EXCEPT !.status = "started"]
      BY <1>3, <2>1, <3>1, SetCurrentFacts
    <3> HIDE DEF q
    <3>3. \A x \in LiveTask : /\ [x EXCEPT !.status = "started"].uuid = x.uuid
                             /\ [[x EXCEPT !.status = "started"] EXCEPT !.status = "running"]
                                  = [x EXCEPT !.status = "running"]
                             /\ [x EXCEPT !.status = "started"] \in LiveTask
      BY <2>1 DEF LiveTask
    <3> QED
      BY <2>2, <3>2, <3>3
  <2> QED
    BY <2>3, <2>4
<1>6. /\ o \in Outcomes
      /\ o = "recover" => k.state = "CANCELLED"
      /\ o = "send" => t.emergency \/ q # <<>>
      /\ o \in {"time_out", "wait"} => k.state \in running_states
  <2>1. k.state \in ActionClientState /\ f.timed \in BOOLEAN
    BY <1>4 DEF Link, LeafRecord
  <2> HIDE DEF k, f, q
  <2> QED
    BY <1>3, <2>1, OutcomeCases DEF Outcomes
<1> DEFINE c == AfterUpdate(k, o, FreeSlot(k))
<1>7. /\ c \in Link
      /\ c.state \in running_states \/ o \notin {"send", "wait"}
      /\ o # "send" => \A h \in Slots :
           c.goals[h].stage = "requested" => k.goals[h].stage = "requested"
  <2> HIDE DEF k, o
  <2> QED
    BY <1>4, <1>6, AfterUpdateFacts
<1>8. ASSUME u.fits, LinkOK(t.link[s]) PROVE LinkOK(c)
  <2> HIDE DEF k, o
  <2>1. LinkOK(k)
    BY <1>4, <1>8
  <2>2. CASE o = "send"
    <3>1. FreeSlot(k) \in Slots /\ Unused(k, FreeSlot(k))
      BY <1>1, <1>8, <2>2 DEF HasSlot, FreeSlot
    <3> QED
      BY <2>1, <2>2, <3>1, SendGoalOK DEF AfterUpdate
  <2>3. CASE o # "send"
    BY <1>6, <2>1, <2>3, GetReadyOK, CancelGoalOK, TerminateOK DEF AfterUpdate, Outcomes
  <2> QED
    BY <2>2, <2>3
<1> HIDE DEF f, k, q, o, u, c
<1>9. /\ OutcomeStatus(o) \in {"RUNNING", "SUCCESS", "FAILURE"}
      /\ OutcomeStatus(o) = "RUNNING" <=> o \in {"recover", "send", "wait"}
      /\ OutcomeStatus(o) = "FAILURE" <=> o \in {"no_task", "time_out", "fail"}
  BY <1>6 DEF OutcomeStatus, Outcomes
<1>10. /\ u.leaf[s].status = OutcomeStatus(o)
       /\ u.link[s] = c
       /\ \A r \in Servers \ {s} : Untouched(t, u, r)
  BY <1>1, <1>3 DEF Untouched, c
<1>11. /\ u.queue \in Seq(LiveTask)
       /\ t.queue = <<>> => u.queue = <<>>
       /\ Len(u.queue) < Len(t.queue) => o \in {"time_out", "fail"}
       /\ works => /\ u.queue # <<>> /\ q # <<>> /\ t.queue # <<>>
                   /\ Head(u.queue) = [Head(t.queue) EXCEPT !.status = "running"]
  <2>1. "running" \in LiveStates
    BY DEF LiveStates
  <2>2. CASE works
    BY <1>1, <1>5, <1>6, <2>1, <2>2, SetCurrentFacts
  <2>3. CASE ~works /\ fails
    BY <1>1, <1>5, <2>3, ClearCurrentFacts
  <2>4. CASE ~works /\ ~fails
    BY <1>1, <1>5, <2>4
  <2> QED
    BY <2>2, <2>3, <2>4
<1>12. u \in TickState
  <2>1. u.link \in [Servers -> Link]
    BY <1>1, <1>3, <1>7 DEF c
  <2>2. u.leaf \in [Servers -> LeafRecord]
    <3>1. OutcomeStatus(o) \in LeafStatus
      BY <1>9 DEF LeafStatus
    <3>2. (IF works THEN Head(q).timeout # None ELSE f.timed) \in BOOLEAN
      BY <1>4 DEF LeafRecord
    <3> QED
      BY <1>1, <1>3, <3>1, <3>2 DEF LeafRecord
  <2>3. u.payload \in [Servers -> Payload]
    <3>1. works => Head(q).uuid \in Uuids
      BY <1>5, <1>11 DEF LiveTask
    <3> QED
      BY <1>1, <1>3, <3>1 DEF Payload
  <2>4. u.mission \in MissionStates /\ u.fits \in BOOLEAN
    BY <1>1, <1>3 DEF MissionStates
  <2>5. /\ u.tree \in SUBSET Names /\ u.known \in SUBSET Names
        /\ u.available \in [Names -> Ages \cup {None}]
        /\ u.emergency \in BOOLEAN /\ u.aborted \in BOOLEAN /\ u.alive \in BOOLEAN
        /\ u.status \in LeafStatus
    BY <1>1 DEF Kept, TickState
  <2> QED
    BY <1>1, <1>11, <2>1, <2>2, <2>3, <2>4, <2>5 DEF TickState
<1>13. ASSUME Asks(t, u, s) PROVE o = "send"
  BY <1>4, <1>7, <1>10, <1>13 DEF Asks
<1>14. works => u.payload[s] = Head(t.queue).uuid
  BY <1>1, <1>3, <1>5, <1>11
<1>15. \/ o \notin {"recover", "send", "wait"}
       \/ c.state \in running_states
       \/ t.link[s].state = "CANCELLED"
  BY <1>4, <1>6, <1>7
<1> QED
  <2>1. u.fits => t.fits
    BY <1>1
  <2>2. u.fits /\ LinkOK(t.link[s]) => LinkOK(u.link[s])
    BY <1>8, <1>10
  <2>3. u.mission = IF u.leaf[s].status = "FAILURE" THEN "error" ELSE t.mission
    BY <1>1, <1>10
  <2>4. Len(u.queue) < Len(t.queue) => u.leaf[s].status = "FAILURE"
    BY <1>9, <1>10, <1>11
  <2>5. Asks(t, u, s) =>
          /\ u.leaf[s].status = "RUNNING"
          /\ ~t.emergency =>
               /\ t.queue # <<>> /\ u.queue # <<>>
               /\ Head(u.queue) = [Head(t.queue) EXCEPT !.status = "running"]
               /\ u.payload[s] = Head(t.queue).uuid
    BY <1>9, <1>10, <1>11, <1>13, <1>14
  <2>6. \/ u.leaf[s].status \in {"SUCCESS", "FAILURE"}
        \/ u.link[s].state \in running_states
        \/ t.link[s].state = "CANCELLED"
    BY <1>9, <1>10, <1>15
  <2>7. u.leaf[s].status \in {"RUNNING", "SUCCESS", "FAILURE"}
    BY <1>9, <1>10
  <2> QED
    BY <1>1, <1>10, <1>11, <1>12, <2>1, <2>2, <2>3, <2>4, <2>5, <2>6, <2>7 DEF u

\* What stopping the leaves of S does: only to those that were ticked, whose
\* clients cancel what they wait for.
LEMMA StopFacts ==
  ASSUME NEW t \in TickState, NEW S
  PROVE  LET u == Stop(t, S) IN
           /\ u \in TickState
           /\ Kept(t, u)
           /\ u.queue = t.queue /\ u.mission = t.mission /\ u.emergency = t.emergency
           /\ u.aborted = t.aborted /\ u.alive = t.alive /\ u.status = t.status
           /\ u.fits = t.fits
           /\ \A s \in Servers :
                /\ s \in S => u.leaf[s].status = "INVALID"
                /\ s \notin S \/ t.leaf[s].status = "INVALID" => Untouched(t, u, s)
                /\ s \in S /\ t.leaf[s].status # "INVALID"
                     => u.link[s] = terminate(t.link[s], "INVALID")
                /\ ~Asks(t, u, s)
                /\ LinkOK(t.link[s]) => LinkOK(u.link[s])
<1> DEFINE stopped == {s \in S : t.leaf[s].status # "INVALID"}
           links == [s \in Servers |-> IF s \in stopped THEN terminate(t.link[s], "INVALID")
                                                        ELSE t.link[s]]
           leaves == [s \in Servers |-> IF s \in stopped
                                          THEN [t.leaf[s] EXCEPT !.status = "INVALID"]
                                          ELSE t.leaf[s]]
           u == Stop(t, S)
<1>1. u = [t EXCEPT !.link = links, !.leaf = leaves]
  BY DEF Stop
<1>2. t.link \in [Servers -> Link] /\ t.leaf \in [Servers -> LeafRecord]
  BY DEF TickState
<1>3. links \in [Servers -> Link]
  BY <1>2, TerminateTyped
<1>4. leaves \in [Servers -> LeafRecord]
  BY <1>2 DEF LeafRecord, LeafStatus
<1> HIDE DEF links, leaves, u
<1>5. u \in TickState /\ u.link = links /\ u.leaf = leaves
  BY <1>1, <1>3, <1>4 DEF TickState
<1>6. /\ Kept(t, u)
      /\ u.queue = t.queue /\ u.mission = t.mission /\ u.emergency = t.emergency
      /\ u.aborted = t.aborted /\ u.alive = t.alive /\ u.status = t.status
      /\ u.fits = t.fits /\ u.payload = t.payload
  BY <1>1 DEF TickState, Kept
<1>7. ASSUME NEW s \in Servers
      PROVE  /\ s \in S => u.leaf[s].status = "INVALID"
             /\ s \notin S \/ t.leaf[s].status = "INVALID" => Untouched(t, u, s)
             /\ s \in S /\ t.leaf[s].status # "INVALID"
                  => u.link[s] = terminate(t.link[s], "INVALID")
             /\ ~Asks(t, u, s)
             /\ LinkOK(t.link[s]) => LinkOK(u.link[s])
  <2>1. CASE s \in stopped
    <3>1. /\ u.link[s] = terminate(t.link[s], "INVALID")
          /\ u.leaf[s] = [t.leaf[s] EXCEPT !.status = "INVALID"]
      BY <1>5, <2>1 DEF links, leaves
    <3>2. u.leaf[s].status = "INVALID"
      BY <1>2, <3>1 DEF LeafRecord
    <3>3. ~Asks(t, u, s)
      BY <1>2, <3>1, OnlySendRequests DEF Asks
    <3> QED
      BY <2>1, <3>1, <3>2, <3>3, TerminateOK
  <2>2. CASE s \notin stopped
    <3>1. u.link[s] = t.link[s] /\ u.leaf[s] = t.leaf[s]
      BY <1>5, <2>2 DEF links, leaves
    <3> QED
      BY <1>6, <2>2, <3>1 DEF Untouched, Asks
  <2> QED
    BY <2>1, <2>2
<1> QED
  BY <1>5, <1>6, <1>7 DEF u

\* Every leaf, client and payload is left as it is, and so is what none of the
\* subtrees changes.
AllUntouched(t, u) ==
  /\ u.link = t.link /\ u.leaf = t.leaf /\ u.payload = t.payload
  /\ Kept(t, u) /\ u.fits = t.fits /\ u.aborted = t.aborted

\* Chilling comes to rest: with a failed mission dropped, or with the node dead.
LEMMA ChillFacts ==
  ASSUME NEW t \in TickState
  PROVE  LET u == Chill(t) IN
           /\ u \in TickState
           /\ AllUntouched(t, u) /\ u.emergency = t.emergency
           /\ u.queue = t.queue \/ u.queue = <<>>
           /\ t.mission # "error" => u.queue = t.queue /\ u.alive = t.alive
           /\ u.alive => t.alive /\ u.mission = None
           /\ u.status = "RUNNING" \/ ~u.alive
<1> DEFINE u == Chill(t)
<1>1. t.mission \in {"error", None} /\ None # "error" /\ t.alive \in BOOLEAN
  BY HandlerAssumption DEF TickState, MissionStates
<1>2. CASE t.mission = None
  <2>1. u = [t EXCEPT !.status = "RUNNING"]
    BY <1>1, <1>2 DEF Chill
  <2> HIDE DEF u
  <2> QED
    BY <1>1, <1>2, <2>1 DEF TickState, AllUntouched, Kept, LeafStatus, u
<1>3. CASE t.mission = "error" /\ t.queue # <<>> /\ mission_command # "tst"
  <2>1. u = [t EXCEPT !.alive = FALSE]
    BY <1>1, <1>3 DEF Chill
  <2> HIDE DEF u
  <2> QED
    BY <1>1, <1>3, <2>1 DEF TickState, AllUntouched, Kept, u
<1>4. CASE t.mission = "error" /\ (t.queue = <<>> \/ mission_command = "tst")
  <2>1. u = [t EXCEPT !.queue = <<>>, !.mission = None, !.status = "RUNNING"]
    BY <1>1, <1>4 DEF Chill
  <2>2. <<>> \in Seq(LiveTask)
    BY EmptySeq
  <2> HIDE DEF u
  <2> QED
    BY <1>1, <1>4, <2>1, <2>2 DEF TickState, AllUntouched, Kept, LeafStatus, MissionStates, u
<1> QED
  BY <1>1, <1>2, <1>3, <1>4

\* An unhealthy vehicle empties the queue; tasks are gone on with only while the
\* vehicle has lately said that it is healthy.
LEMMA HealthTreeFacts ==
  ASSUME NEW t \in TickState
  PROVE  LET u == HealthTree(t) IN
           /\ u \in TickState
           /\ AllUntouched(t, u) /\ u.mission = t.mission /\ u.alive = t.alive
           /\ \/ u.queue = t.queue /\ u.emergency = t.emergency
              \/ u.queue = <<>> /\ u.emergency
           /\ u.status = "SUCCESS" /\ u.queue # <<>> => health_age # None
<1> DEFINE u == HealthTree(t)
<1>1. CASE HealthUnknown
  <2>1. u = [t EXCEPT !.status = "RUNNING"]
    BY <1>1 DEF HealthTree, HealthUnknown, Healthy, HealthFresh
  <2> HIDE DEF u
  <2> QED
    BY <2>1 DEF TickState, AllUntouched, Kept, LeafStatus, u
<1>2. CASE ~HealthUnknown /\ Healthy
  <2>1. u = [t EXCEPT !.status = "SUCCESS"]
    BY <1>2 DEF HealthTree
  <2> HIDE DEF u
  <2> QED
    BY <1>2, <2>1 DEF TickState, AllUntouched, Kept, LeafStatus, Healthy, HealthFresh, u
<1>3. CASE ~HealthUnknown /\ ~Healthy
  <2>1. u = [t EXCEPT !.emergency = TRUE, !.queue = <<>>, !.status = "SUCCESS"]
    BY <1>3 DEF HealthTree
  <2>2. <<>> \in Seq(LiveTask)
    BY EmptySeq
  <2> HIDE DEF u
  <2> QED
    BY <2>1, <2>2 DEF TickState, AllUntouched, Kept, LeafStatus, u
<1> QED
  BY <1>1, <1>2, <1>3

\* Setting the status touches nothing else.
LEMMA StatusFacts ==
  ASSUME NEW t \in TickState, NEW st \in LeafStatus
  PROVE  LET u == [t EXCEPT !.status = st] IN
           /\ u \in TickState /\ AllUntouched(t, u) /\ u.status = st
           /\ u.queue = t.queue /\ u.mission = t.mission
           /\ u.emergency = t.emergency /\ u.alive = t.alive
  BY DEF TickState, AllUntouched, Kept

\* F_HandleEmergency leaves the tasks' leaves alone, and the tick goes on behind
\* it only with the emergency leaf at rest and the mission as it was.
LEMMA EmergencyTreeFacts ==
  ASSUME NEW t \in TickState
  PROVE  LET u == EmergencyTree(t) IN
           /\ u \in TickState
           /\ Kept(t, u) /\ u.aborted = t.aborted /\ u.emergency = t.emergency
           /\ u.fits => t.fits
           /\ \A n \in Names : Untouched(t, u, n)
           /\ \A s \in Servers : u.fits /\ LinkOK(t.link[s]) => LinkOK(u.link[s])
           /\ Emergency \in Servers /\ u.leaf[Emergency].status = "RUNNING" => ~Goes(u)
           /\ t.emergency /\ Emergency \notin Servers => ~Goes(u)
           /\ Goes(u) => u.mission = t.mission
           /\ ~t.emergency => u.queue = t.queue /\ u.mission = t.mission
           /\ t.queue = <<>> => u.queue = <<>>
           /\ u.alive => t.alive
           /\ t.alive /\ ~u.alive => Emergency \notin Servers /\ t.mission = "error"
           /\ Emergency \notin Servers /\ u.alive /\ t.mission = None => u.mission = None
           /\ t.emergency /\ Emergency \in Servers =>
                \/ u.leaf[Emergency].status \in {"SUCCESS", "FAILURE"}
                \/ u.link[Emergency].state \in running_states
                \/ t.link[Emergency].state = "CANCELLED"
<1> DEFINE u == EmergencyTree(t)
<1>1. \A n \in Names : n \in Servers /\ n # Emergency
  BY TreeAssumption
<1>2. CASE ~t.emergency
  <2> DEFINE run == {s \in Servers \cap {Emergency} : t.leaf[s].status = "RUNNING"}
             v == Stop(t, run)
  <2>1. u = [v EXCEPT !.status = "SUCCESS"]
    BY <1>2 DEF EmergencyTree
  <2>2. /\ v \in TickState /\ Kept(t, v)
        /\ v.queue = t.queue /\ v.mission = t.mission /\ v.emergency = t.emergency
        /\ v.aborted = t.aborted /\ v.alive = t.alive /\ v.fits = t.fits
        /\ \A s \in Servers :
             /\ s \in run => v.leaf[s].status = "INVALID"
             /\ s \notin run => Untouched(t, v, s)
             /\ LinkOK(t.link[s]) => LinkOK(v.link[s])
    BY StopFacts
  <2> HIDE DEF v
  <2>3. /\ u \in TickState /\ AllUntouched(v, u) /\ u.status = "SUCCESS"
        /\ u.queue = v.queue /\ u.mission = v.mission
        /\ u.emergency = v.emergency /\ u.alive = v.alive
    <3>1. "SUCCESS" \in LeafStatus
      BY DEF LeafStatus
    <3> QED
      BY <2>1, <2>2, <3>1, StatusFacts
  <2> HIDE DEF u
  <2>4. Emergency \in Servers => u.leaf[Emergency].status # "RUNNING"
    BY <2>2, <2>3 DEF AllUntouched, Untouched
  <2> QED
    BY <1>1, <1>2, <2>2, <2>3, <2>4 DEF AllUntouched, Untouched, Kept, u
<1>3. CASE t.emergency /\ Emergency \notin Servers
  <2>1. u = Chill(t)
    BY <1>3 DEF EmergencyTree
  <2>2. /\ u \in TickState
        /\ AllUntouched(t, u) /\ u.emergency = t.emergency
        /\ u.queue = t.queue \/ u.queue = <<>>
        /\ t.mission # "error" => u.queue = t.queue /\ u.alive = t.alive
        /\ u.alive => t.alive /\ u.mission = None
        /\ u.status = "RUNNING" \/ ~u.alive
    BY <2>1, ChillFacts
  <2>3. ~Goes(u)
    BY <2>2 DEF Goes
  <2> HIDE DEF u
  <2> QED
    BY <1>3, <2>2, <2>3 DEF AllUntouched, Untouched, u
<1>4. CASE t.emergency /\ Emergency \in Servers
  <2> DEFINE v == TickLeaf(t, Emergency, FALSE)
  <2>1. u = [v EXCEPT !.status = v.leaf[Emergency].status]
    BY <1>4 DEF EmergencyTree
  <2>2. /\ v \in TickState
        /\ \A r \in Servers \ {Emergency} : Untouched(t, v, r)
        /\ Kept(t, v)
        /\ v.emergency = t.emergency /\ v.aborted = t.aborted
        /\ v.alive = t.alive /\ (v.fits => t.fits)
        /\ v.fits /\ LinkOK(t.link[Emergency]) => LinkOK(v.link[Emergency])
        /\ t.queue = <<>> => v.queue = <<>>
        /\ v.leaf[Emergency].status \in {"RUNNING", "SUCCESS", "FAILURE"}
        /\ v.mission = IF v.leaf[Emergency].status = "FAILURE" THEN "error" ELSE t.mission
        /\ \/ v.leaf[Emergency].status \in {"SUCCESS", "FAILURE"}
           \/ v.link[Emergency].state \in running_states
           \/ t.link[Emergency].state = "CANCELLED"
    <3>1. FALSE \in BOOLEAN
      OBVIOUS
    <3> HIDE DEF v
    <3> QED
      BY <1>4, <3>1, TickLeafFacts DEF v
  <2> HIDE DEF v
  <2>3. /\ u \in TickState /\ AllUntouched(v, u)
        /\ u.status = v.leaf[Emergency].status
        /\ u.queue = v.queue /\ u.mission = v.mission
        /\ u.emergency = v.emergency /\ u.alive = v.alive
    <3>1. v.leaf[Emergency].status \in LeafStatus
      BY <2>2 DEF LeafStatus
    <3> QED
      BY <2>1, <2>2, <3>1, StatusFacts
  <2> HIDE DEF u
  <2>4. /\ \A n \in Names : Untouched(t, u, n)
        /\ \A s \in Servers : u.fits /\ LinkOK(t.link[s]) => LinkOK(u.link[s])
    BY <1>1, <2>2, <2>3 DEF AllUntouched, Untouched
  <2>5. /\ u.leaf[Emergency].status = "RUNNING" => ~Goes(u)
        /\ Goes(u) => u.mission = t.mission
    BY <2>2, <2>3 DEF AllUntouched, Goes
  <2>6. Kept(t, u) /\ u.aborted = t.aborted /\ (u.fits => t.fits)
    BY <2>2, <2>3 DEF AllUntouched, Kept
  <2> QED
    BY <1>4, <2>2, <2>3, <2>4, <2>5, <2>6 DEF AllUntouched, u
<1>5. t.emergency \in BOOLEAN
  BY DEF TickState
<1> QED
  BY <1>2, <1>3, <1>4, <1>5

\* A leaf that is not ticked comes to this: it rests, and what it had its client
\* wait for is given up.
StoppedLeaf(t, u, s) ==
  /\ u.leaf[s].status = "INVALID"
  /\ IF t.leaf[s].status = "INVALID" THEN Untouched(t, u, s)
                                     ELSE u.link[s] = terminate(t.link[s], "INVALID")

\* What a goal that the subtrees of the tasks ask for comes from.
AsksForHead(t, u, n) ==
  /\ t.mission # "error"
  /\ health_status \in HealthFor(n)
  /\ t.queue # <<>> /\ Head(t.queue).name = n
  /\ u.leaf[n].status = "RUNNING"
  /\ ~t.emergency =>
       /\ u.queue # <<>>
       /\ Head(u.queue) = [Head(t.queue) EXCEPT !.status = "running"]
       /\ u.payload[n] = Head(t.queue).uuid

\* What follows the leaf leaves the leaves alone.
LEMMA AfterLeafFacts ==
  ASSUME NEW t \in TickState, NEW n \in Names,
         t.leaf[n].status \in {"RUNNING", "SUCCESS", "FAILURE"},
         t.leaf[n].status = "FAILURE" => t.mission = "error"
  PROVE  LET u == AfterLeaf(t, n) IN
           /\ u \in TickState
           /\ AllUntouched(t, u) /\ u.emergency = t.emergency
           /\ t.queue = <<>> => u.queue = <<>>
           /\ t.leaf[n].status = "RUNNING" => u.queue = t.queue
           /\ u.alive => t.alive
           /\ u.alive => u.mission = None \/ t.leaf[n].status # "FAILURE"
           /\ t.leaf[n].status # "FAILURE" => u.mission = t.mission
<1> DEFINE u == AfterLeaf(t, n)
<1>1. CASE t.leaf[n].status = "RUNNING"
  <2>1. u = [t EXCEPT !.status = "RUNNING"]
    BY <1>1 DEF AfterLeaf
  <2>2. "RUNNING" \in LeafStatus
    BY DEF LeafStatus
  <2> HIDE DEF u
  <2> QED
    BY <1>1, <2>1, <2>2, StatusFacts DEF u
<1>2. CASE t.leaf[n].status = "SUCCESS"
  <2> DEFINE q == ClearCurrent(t.queue)
  <2>1. u = [t EXCEPT !.queue = q, !.status = "RUNNING"]
    BY <1>2 DEF AfterLeaf, TickState
  <2>2. q \in Seq(LiveTask) /\ (t.queue = <<>> => q = <<>>)
    BY ClearCurrentFacts DEF TickState
  <2> HIDE DEF u, q
  <2> QED
    BY <1>2, <2>1, <2>2 DEF TickState, AllUntouched, Kept, LeafStatus, u
<1>3. CASE t.leaf[n].status = "FAILURE"
  <2>1. u = Chill(t)
    BY <1>3 DEF AfterLeaf
  <2> HIDE DEF u
  <2> QED
    BY <1>3, <2>1, ChillFacts DEF u
<1> QED
  BY <1>1, <1>2, <1>3

\* The subtrees of the tasks: at most the leaf of the head is not stopped.
LEMMA TasksTreeFacts ==
  ASSUME NEW t \in TickState, NEW late \in BOOLEAN
  PROVE  LET u == TasksTree(t, late) IN
           /\ u \in TickState
           /\ Kept(t, u) /\ u.aborted = t.aborted /\ u.emergency = t.emergency
           /\ u.fits => t.fits
           /\ Emergency \in Servers => Untouched(t, u, Emergency)
           /\ \A s \in Servers : u.fits /\ LinkOK(t.link[s]) => LinkOK(u.link[s])
           /\ \A n \in Names :
                \/ StoppedLeaf(t, u, n) /\ ~Asks(t, u, n)
                \/ t.queue # <<>> /\ Head(t.queue).name = n
           /\ \A n \in Names : Asks(t, u, n) => AsksForHead(t, u, n)
           /\ t.queue = <<>> => u.queue = <<>>
           /\ Len(u.queue) < Len(t.queue) =>
                \/ u.leaf[Head(t.queue).name].status \in {"SUCCESS", "FAILURE"}
                \/ t.mission = "error"
           /\ u.alive => t.alive
           /\ u.alive => u.mission = None \/ u.mission = t.mission
<1> DEFINE u == TasksTree(t, late)
           ticked == LeafToTick(t)
           rest == {n \in Names : n \notin ticked \/ t.leaf[n].status = "FAILURE"}
           v == Stop(t, rest)
<1>1. \A n \in Names : n \in Servers /\ n # Emergency
  BY TreeAssumption
<1>2. /\ v \in TickState /\ Kept(t, v)
      /\ v.queue = t.queue /\ v.mission = t.mission /\ v.emergency = t.emergency
      /\ v.aborted = t.aborted /\ v.alive = t.alive
      /\ v.fits = t.fits
      /\ \A s \in Servers :
           /\ s \in rest => v.leaf[s].status = "INVALID"
           /\ s \notin rest \/ t.leaf[s].status = "INVALID" => Untouched(t, v, s)
           /\ s \in rest /\ t.leaf[s].status # "INVALID"
                => v.link[s] = terminate(t.link[s], "INVALID")
           /\ ~Asks(t, v, s)
           /\ LinkOK(t.link[s]) => LinkOK(v.link[s])
  BY StopFacts
<1>3. /\ t.queue \in Seq(LiveTask) /\ t.tree \subseteq Names
      /\ t.emergency \in BOOLEAN /\ t.mission \in MissionStates
  BY DEF TickState
<1>4. \A n \in ticked : /\ n \in Names /\ t.mission # "error"
                        /\ health_status \in HealthFor(n)
                        /\ t.queue # <<>> /\ Head(t.queue).name = n
  BY <1>3 DEF LeafToTick
<1>5. CASE ticked = {}
  <2>1. u = Chill(v)
    BY <1>5 DEF TasksTree
  <2> HIDE DEF v, u, rest, ticked
  <2>2. /\ u \in TickState
        /\ AllUntouched(v, u) /\ u.emergency = v.emergency
        /\ u.queue = v.queue \/ u.queue = <<>>
        /\ v.mission # "error" => u.queue = v.queue /\ u.alive = v.alive
        /\ u.alive => v.alive /\ u.mission = None
    BY <1>2, <2>1, ChillFacts
  <2>3. \A n \in Names : StoppedLeaf(t, u, n) /\ ~Asks(t, u, n)
    BY <1>1, <1>2, <1>5, <2>2 DEF AllUntouched, Untouched, StoppedLeaf, Asks, rest
  <2>4. Emergency \in Servers => Untouched(t, u, Emergency)
    BY <1>1, <1>2, <2>2 DEF AllUntouched, Untouched, rest
  <2>5. \A s \in Servers : u.fits /\ LinkOK(t.link[s]) => LinkOK(u.link[s])
    BY <1>2, <2>2 DEF AllUntouched
  <2>6. Kept(t, u) /\ u.aborted = t.aborted /\ u.emergency = t.emergency /\ u.fits = t.fits
    BY <1>2, <2>2 DEF AllUntouched, Kept
  <2>7. Len(u.queue) < Len(t.queue) => t.mission = "error"
    BY <1>2, <1>3, <2>2
  <2> QED
    BY <1>2, <2>2, <2>3, <2>4, <2>5, <2>6, <2>7 DEF u
<1>6. CASE ticked # {}
  <2> DEFINE n == CHOOSE m \in ticked : TRUE
             w == TickLeaf(v, n, late)
  <2>1. u = AfterLeaf(w, n)
    BY <1>6 DEF TasksTree
  <2>2. n \in ticked
    BY <1>6
  <2>3. /\ n \in Names /\ n \in Servers /\ n # Emergency /\ t.mission # "error"
        /\ health_status \in HealthFor(n)
        /\ t.queue # <<>> /\ Head(t.queue).name = n
        /\ \A m \in Names \ {n} : m \in rest
    BY <1>1, <1>4, <2>2
  <2> HIDE DEF n, v, u, rest, ticked
  <2>4. /\ w \in TickState
        /\ \A r \in Servers \ {n} : Untouched(v, w, r)
        /\ Kept(v, w)
        /\ w.emergency = v.emergency /\ w.aborted = v.aborted
        /\ w.alive = v.alive
        /\ w.fits => v.fits
        /\ w.fits /\ LinkOK(v.link[n]) => LinkOK(w.link[n])
        /\ Len(w.queue) < Len(v.queue) => w.leaf[n].status = "FAILURE"
        /\ w.leaf[n].status \in {"RUNNING", "SUCCESS", "FAILURE"}
        /\ w.mission = IF w.leaf[n].status = "FAILURE" THEN "error" ELSE v.mission
        /\ Asks(v, w, n) =>
             /\ w.leaf[n].status = "RUNNING"
             /\ ~v.emergency =>
                  /\ v.queue # <<>> /\ w.queue # <<>>
                  /\ Head(w.queue) = [Head(v.queue) EXCEPT !.status = "running"]
                  /\ w.payload[n] = Head(v.queue).uuid
    <3> HIDE DEF w
    <3> QED
      BY <1>2, <2>3, TickLeafFacts DEF w
  <2> HIDE DEF w
  <2>5. /\ u \in TickState
        /\ AllUntouched(w, u) /\ u.emergency = w.emergency
        /\ w.leaf[n].status = "RUNNING" => u.queue = w.queue
        /\ u.alive => w.alive
        /\ u.alive => u.mission = None \/ w.leaf[n].status # "FAILURE"
        /\ w.leaf[n].status # "FAILURE" => u.mission = w.mission
    BY <2>1, <2>3, <2>4, AfterLeafFacts
  <2>6. \A m \in Names \ {n} : StoppedLeaf(t, u, m) /\ ~Asks(t, u, m)
    <3> SUFFICES ASSUME NEW m \in Names \ {n}
                 PROVE  StoppedLeaf(t, u, m) /\ ~Asks(t, u, m)
      OBVIOUS
    <3>1. m \in Servers /\ m \in rest /\ Untouched(v, w, m)
      BY <1>1, <2>3, <2>4
    <3> QED
      BY <1>2, <2>5, <3>1 DEF AllUntouched, Untouched, StoppedLeaf, Asks
  <2>7. Asks(t, u, n) => AsksForHead(t, u, n)
    <3>1. Asks(t, u, n) => Asks(v, w, n)
      BY <1>2, <2>3, <2>5 DEF AllUntouched, Asks
    <3> QED
      BY <1>2, <2>3, <2>4, <2>5, <3>1 DEF AllUntouched, AsksForHead
  <2>8. Emergency \in Servers => Untouched(t, u, Emergency)
    BY <1>1, <1>2, <2>3, <2>4, <2>5 DEF AllUntouched, Untouched, rest
  <2>9. \A s \in Servers : u.fits /\ LinkOK(t.link[s]) => LinkOK(u.link[s])
    BY <1>2, <2>3, <2>4, <2>5 DEF AllUntouched, Untouched
  <2>10. /\ Kept(t, u) /\ u.aborted = t.aborted /\ u.emergency = t.emergency
         /\ u.fits => t.fits
    BY <1>2, <2>4, <2>5 DEF AllUntouched, Kept
  <2>11. Len(u.queue) < Len(t.queue) => u.leaf[n].status \in {"SUCCESS", "FAILURE"}
    BY <1>2, <2>4, <2>5 DEF AllUntouched
  <2> QED
    BY <1>2, <2>3, <2>4, <2>5, <2>6, <2>7, <2>8, <2>9, <2>10, <2>11 DEF u
<1> QED
  BY <1>5, <1>6

-----------------------------------------------------------------------------
(* A whole tick, in two parts: down to the task handler, and from there.   *)

\* What the subtrees before the task handler may have done to the tick b began
\* with by the time they are at h.
Upper(b, h) ==
  /\ h \in TickState
  /\ h.aborted = b.aborted
  /\ h.fits => b.fits
  /\ \A s \in Servers : h.fits /\ LinkOK(b.link[s]) => LinkOK(h.link[s])
  /\ \A n \in Names : ~Asks(b, h, n)
  /\ \A n \in Names : h.leaf[n].status = "INVALID" \/ Untouched(b, h, n)
  /\ h.known = b.known => \A n \in Names : Untouched(b, h, n) \/ StoppedLeaf(b, h, n)
  /\ Emergency \in Servers /\ h.leaf[Emergency].status = "RUNNING" => ~Goes(h)
  /\ Goes(h) => h.mission = b.mission
  /\ b.emergency => h.emergency
  /\ ~b.emergency => \/ h.queue = b.queue /\ ~h.emergency
                     \/ h.queue = <<>> /\ h.emergency
  /\ b.queue = <<>> => h.queue = <<>>
  /\ Goes(h) /\ h.queue # <<>> => health_age # None
  /\ h.alive => b.alive
  /\ b.alive /\ ~h.alive => Emergency \notin Servers /\ b.mission = "error"
  /\ Emergency \notin Servers /\ h.alive /\ b.mission = None => h.mission = None
  /\ b.emergency /\ Emergency \in Servers =>
       \/ h.leaf[Emergency].status \in {"SUCCESS", "FAILURE"}
       \/ h.link[Emergency].state \in running_states
       \/ b.link[Emergency].state = "CANCELLED"

\* What the task handler's subtree, or stopping it, may do then.
Lower(h, t) ==
  /\ t \in TickState
  /\ t.known = h.known /\ t.emergency = h.emergency
  /\ t.fits => h.fits
  /\ \A s \in Servers : t.fits /\ LinkOK(h.link[s]) => LinkOK(t.link[s])
  /\ Emergency \in Servers => Untouched(h, t, Emergency)
  /\ h.alive => \A n \in Names :
       \/ StoppedLeaf(h, t, n) /\ ~Asks(h, t, n)
       \/ Goes(h) /\ ~h.aborted /\ h.queue # <<>> /\ Head(h.queue).name = n
  /\ ~h.alive => t = h
  /\ \A n \in Names : Asks(h, t, n) => Goes(h) /\ AsksForHead(h, t, n)
  /\ h.queue = <<>> => t.queue = <<>>
  /\ Len(t.queue) < Len(h.queue) =>
       /\ Goes(h)
       /\ \/ t.leaf[Head(h.queue).name].status \in {"SUCCESS", "FAILURE"}
          \/ h.mission = "error"
  /\ t.alive => t.mission = None \/ t.mission = h.mission

\* The client of a server that a rebuild looks for.
LEMMA SetupFacts ==
  ASSUME NEW k \in Link, NEW found \in BOOLEAN
  PROVE  /\ SetupClient(k, found) \in Link
         /\ SetupClient(k, found).goals = k.goals
         /\ LinkOK(k) => LinkOK(SetupClient(k, found))
<1>1. CASE k.state \in running_states
  BY <1>1 DEF SetupClient
<1>2. CASE k.state \notin running_states
  <2> DEFINE c == SetupClient(k, found)
  <2>1. PICK st \in {"READY", "DISCONNECTED"} : c = [k EXCEPT !.state = st]
    BY <1>2 DEF SetupClient
  <2> HIDE DEF c
  <2>2. c \in Link /\ c.goals = k.goals /\ c.state \notin running_states
    BY <2>1 DEF Link, ActionClientState, running_states, failure_states
  <2> QED
    BY <2>2 DEF LinkOK, LateMessages, c
<1> QED
  BY <1>1, <1>2

\* A rebuild leaves the emergency leaf alone and every other at rest; the clients
\* keep their goals.
LEMMA UpdatedFacts ==
  ASSUME NEW t \in TickState, NEW found \in SUBSET Names
  PROVE  LET u == Updated(t, found) IN
           /\ u \in TickState
           /\ u.queue = t.queue /\ u.mission = t.mission /\ u.emergency = t.emergency
           /\ u.aborted = t.aborted /\ u.alive = t.alive /\ u.fits = t.fits
           /\ u.status = t.status
           /\ u = t \/ (u.known # t.known /\ \A n \in Names : u.leaf[n].status = "INVALID")
           /\ Emergency \in Servers => Untouched(t, u, Emergency)
           /\ \A s \in Servers : ~Asks(t, u, s) /\ (LinkOK(t.link[s]) => LinkOK(u.link[s]))
<1> DEFINE u == Updated(t, found)
<1>1. CASE Watched(t) = t.known
  <2>1. u = t
    BY <1>1 DEF Updated
  <2>2. \A s \in Servers : Untouched(t, t, s) /\ ~Asks(t, t, s)
    BY DEF Untouched, Asks
  <2> HIDE DEF u
  <2> QED
    BY <2>1, <2>2 DEF u
<1>2. CASE Watched(t) # t.known
  <2> DEFINE asked == Watched(t) \cup (Names \cap {GetReady})
             links == [s \in Servers |-> IF s \in asked THEN SetupClient(t.link[s], s \in found)
                                                        ELSE t.link[s]]
             leaves == [s \in Servers |-> IF s = Emergency THEN t.leaf[s]
                                          ELSE [status |-> "INVALID", timed |-> FALSE]]
             heard == [n \in Names |-> IF n = GetReady /\ n \notin found THEN None
                                                                     ELSE t.available[n]]
  <2>1. u = [t EXCEPT !.tree = found \cap asked, !.known = Watched(t),
                      !.available = heard, !.link = links, !.leaf = leaves]
    BY <1>2 DEF Updated, Rebuilt
  <2>2. asked \subseteq Names /\ Watched(t) \subseteq Names
    BY DEF Watched
  <2>3. /\ t.link \in [Servers -> Link] /\ t.leaf \in [Servers -> LeafRecord]
        /\ t.available \in [Names -> Ages \cup {None}]
    BY DEF TickState
  <2>4. links \in [Servers -> Link]
    <3>1. \A s \in Servers : SetupClient(t.link[s], s \in found) \in Link
      <4> SUFFICES ASSUME NEW s \in Servers
                   PROVE  SetupClient(t.link[s], s \in found) \in Link
        OBVIOUS
      <4>1. t.link[s] \in Link /\ (s \in found) \in BOOLEAN
        BY <2>3
      <4> QED
        BY <4>1, SetupFacts
    <3> QED
      BY <2>3, <3>1
  <2>5. leaves \in [Servers -> LeafRecord]
    BY <2>3 DEF LeafRecord, LeafStatus
  <2>6. heard \in [Names -> Ages \cup {None}]
    BY <2>3
  <2> HIDE DEF links, leaves, heard, asked, u
  <2>7. u \in TickState
    BY <2>1, <2>2, <2>4, <2>5, <2>6 DEF TickState
  <2>8. /\ u.link = links /\ u.leaf = leaves /\ u.known = Watched(t)
        /\ u.queue = t.queue /\ u.mission = t.mission /\ u.emergency = t.emergency
        /\ u.aborted = t.aborted /\ u.alive = t.alive /\ u.fits = t.fits
        /\ u.status = t.status /\ u.payload = t.payload
    BY <2>1 DEF TickState
  <2>9. \A n \in Names : n \in Servers /\ n # Emergency
    BY TreeAssumption
  <2>10. \A n \in Names : u.leaf[n].status = "INVALID"
    BY <2>8, <2>9 DEF leaves
  <2>11. Emergency \in Servers => Untouched(t, u, Emergency)
    BY <2>2, <2>8, <2>9 DEF leaves, links, Untouched
  <2>12. ASSUME NEW s \in Servers
         PROVE  ~Asks(t, u, s) /\ (LinkOK(t.link[s]) => LinkOK(u.link[s]))
    <3>1. t.link[s] \in Link /\ (s \in found) \in BOOLEAN
      BY <2>3
    <3>2. CASE s \in asked
      <4>1. u.link[s] = SetupClient(t.link[s], s \in found)
        BY <2>8, <3>2 DEF links
      <4> QED
        BY <3>1, <4>1, SetupFacts DEF Asks
    <3>3. CASE s \notin asked
      <4>1. u.link[s] = t.link[s]
        BY <2>8, <3>3 DEF links
      <4> QED
        BY <4>1 DEF Asks
    <3> QED
      BY <3>2, <3>3
  <2> QED
    BY <1>2, <2>7, <2>8, <2>10, <2>11, <2>12 DEF u
<1> QED
  BY <1>1, <1>2

\* From the start of the tick to where the task handler would go on.
LEMMA UpperHolds ==
  ASSUME NEW b \in TickState, NEW found \in SUBSET Names
  PROVE  LET e == EmergencyTree(RootTree(Updated(b, found)))
             h == IF Goes(e) THEN HealthTree(e) ELSE e
         IN Upper(b, h)
<1> DEFINE r == Updated(b, found)
           c == RootTree(r)
           e == EmergencyTree(c)
           h == IF Goes(e) THEN HealthTree(e) ELSE e
<1>0. \A n \in Names : n \in Servers /\ n # Emergency
  BY TreeAssumption
<1>1. /\ r \in TickState
      /\ r.queue = b.queue /\ r.mission = b.mission /\ r.emergency = b.emergency
      /\ r.aborted = b.aborted /\ r.alive = b.alive /\ r.fits = b.fits
      /\ r = b \/ (r.known # b.known /\ \A n \in Names : r.leaf[n].status = "INVALID")
      /\ Emergency \in Servers => Untouched(b, r, Emergency)
      /\ \A s \in Servers : ~Asks(b, r, s) /\ (LinkOK(b.link[s]) => LinkOK(r.link[s]))
  BY UpdatedFacts
<1> HIDE DEF r
\* The root starts over, or everything is as it was.
<1>2. /\ c \in TickState
      /\ c.queue = r.queue /\ c.mission = r.mission /\ c.emergency = r.emergency
      /\ c.aborted = r.aborted /\ c.alive = r.alive /\ c.fits = r.fits
      /\ c.known = r.known
      /\ \/ c = r
         \/ /\ \A s \in Servers : StoppedLeaf(r, c, s) /\ ~Asks(r, c, s)
            /\ \A s \in Servers : LinkOK(r.link[s]) => LinkOK(c.link[s])
  <2>1. CASE r.status = "RUNNING"
    <3>1. c = r
      BY <2>1 DEF RootTree
    <3> HIDE DEF c
    <3> QED
      BY <1>1, <3>1 DEF c
  <2>2. CASE r.status # "RUNNING"
    <3>1. c = Stop(r, Servers)
      BY <2>2 DEF RootTree
    <3> HIDE DEF c
    <3>2. \A s \in Servers : StoppedLeaf(r, c, s)
      BY <1>1, <3>1, StopFacts DEF StoppedLeaf
    <3> QED
      BY <1>1, <3>1, <3>2, StopFacts DEF Kept, c
  <2> QED
    BY <2>1, <2>2
<1> HIDE DEF c
<1>3. /\ e \in TickState
      /\ Kept(c, e) /\ e.aborted = c.aborted /\ e.emergency = c.emergency
      /\ e.fits => c.fits
      /\ \A n \in Names : Untouched(c, e, n)
      /\ \A s \in Servers : e.fits /\ LinkOK(c.link[s]) => LinkOK(e.link[s])
      /\ Emergency \in Servers /\ e.leaf[Emergency].status = "RUNNING" => ~Goes(e)
      /\ c.emergency /\ Emergency \notin Servers => ~Goes(e)
      /\ Goes(e) => e.mission = c.mission
      /\ ~c.emergency => e.queue = c.queue /\ e.mission = c.mission
      /\ c.queue = <<>> => e.queue = <<>>
      /\ e.alive => c.alive
      /\ c.alive /\ ~e.alive => Emergency \notin Servers /\ c.mission = "error"
      /\ Emergency \notin Servers /\ e.alive /\ c.mission = None => e.mission = None
      /\ c.emergency /\ Emergency \in Servers =>
           \/ e.leaf[Emergency].status \in {"SUCCESS", "FAILURE"}
           \/ e.link[Emergency].state \in running_states
           \/ c.link[Emergency].state = "CANCELLED"
  BY <1>2, EmergencyTreeFacts
<1> HIDE DEF e
<1>4. /\ h \in TickState
      /\ AllUntouched(e, h) /\ h.mission = e.mission /\ h.alive = e.alive
      /\ \/ h.queue = e.queue /\ h.emergency = e.emergency
         \/ h.queue = <<>> /\ h.emergency
      /\ Goes(h) /\ h.queue # <<>> => health_age # None
      /\ Goes(h) => Goes(e)
  <2>1. CASE Goes(e)
    <3>1. h = HealthTree(e)
      BY <2>1
    <3> HIDE DEF h
    <3> QED
      BY <1>3, <2>1, <3>1, HealthTreeFacts DEF Goes
  <2>2. CASE ~Goes(e)
    <3>1. h = e
      BY <2>2
    <3> HIDE DEF h
    <3> QED
      BY <1>3, <2>2, <3>1 DEF AllUntouched, Kept
  <2> QED
    BY <2>1, <2>2
<1> HIDE DEF h
<1>5. /\ h.aborted = b.aborted /\ (h.fits => b.fits) /\ (h.known = c.known)
  BY <1>1, <1>2, <1>3, <1>4 DEF AllUntouched, Kept
<1>6. \A s \in Servers : h.fits /\ LinkOK(b.link[s]) => LinkOK(h.link[s])
  BY <1>1, <1>2, <1>3, <1>4 DEF AllUntouched
<1>7. \A n \in Names : Untouched(c, h, n)
  BY <1>3, <1>4 DEF AllUntouched, Untouched
<1>8. \A n \in Names : ~Asks(b, h, n)
  BY <1>0, <1>1, <1>2, <1>7 DEF Asks, Untouched
<1>9. /\ \A n \in Names : h.leaf[n].status = "INVALID" \/ Untouched(b, h, n)
      /\ h.known = b.known => \A n \in Names : Untouched(b, h, n) \/ StoppedLeaf(b, h, n)
  <2>1. ASSUME NEW n \in Names
        PROVE  Untouched(r, h, n) \/ StoppedLeaf(r, h, n)
    BY <1>0, <1>2, <1>7 DEF Untouched, StoppedLeaf
  <2>2. ASSUME NEW n \in Names, r.leaf[n].status = "INVALID"
        PROVE  h.leaf[n].status = "INVALID"
    BY <2>1, <2>2 DEF Untouched, StoppedLeaf
  <2>3. h.known = b.known => r = b
    BY <1>1, <1>2, <1>5
  <2> QED
    BY <1>1, <2>1, <2>2, <2>3 DEF StoppedLeaf
<1>10. Emergency \in Servers /\ h.leaf[Emergency].status = "RUNNING" => ~Goes(h)
  BY <1>3, <1>4 DEF AllUntouched
<1>11. b.emergency /\ Emergency \in Servers =>
         \/ h.leaf[Emergency].status \in {"SUCCESS", "FAILURE"}
         \/ h.link[Emergency].state \in running_states
         \/ b.link[Emergency].state = "CANCELLED"
  <2>1. ASSUME Emergency \in Servers, c.link[Emergency].state = "CANCELLED"
        PROVE  b.link[Emergency].state = "CANCELLED"
    <3>1. r.link[Emergency] \in Link
      BY <1>1, <2>1 DEF TickState
    <3>2. terminate(r.link[Emergency], "INVALID").state = "READY"
      BY <3>1, CancelGoalTyped, GetReadyTyped DEF terminate
    <3> QED
      BY <1>1, <1>2, <2>1, <3>2 DEF StoppedLeaf, Untouched
  <2> QED
    BY <1>1, <1>2, <1>3, <1>4, <2>1 DEF AllUntouched
<1>12. /\ Goes(h) => h.mission = b.mission
       /\ b.emergency => h.emergency
       /\ ~b.emergency => \/ h.queue = b.queue /\ ~h.emergency
                          \/ h.queue = <<>> /\ h.emergency
       /\ b.queue = <<>> => h.queue = <<>>
       /\ h.alive => b.alive
       /\ b.alive /\ ~h.alive => Emergency \notin Servers /\ b.mission = "error"
       /\ Emergency \notin Servers /\ h.alive /\ b.mission = None => h.mission = None
  BY <1>1, <1>2, <1>3, <1>4
<1> QED
  BY <1>4, <1>5, <1>6, <1>8, <1>9, <1>10, <1>11, <1>12 DEF Upper, h, e, c, r

\* From there to the end: the task handler's subtree, or stopping it.
LEMMA LowerHolds ==
  ASSUME NEW h \in TickState, NEW late \in BOOLEAN
  PROVE  LET t == IF Goes(h) THEN TaskHandlerTree(h, late) ELSE Held(h)
         IN Lower(h, t)
<1> DEFINE t == IF Goes(h) THEN TaskHandlerTree(h, late) ELSE Held(h)
           v == Stop(h, Names)
<1>0. \A n \in Names : n \in Servers /\ n # Emergency
  BY TreeAssumption
<1>1. /\ v \in TickState
      /\ Kept(h, v)
      /\ v.queue = h.queue /\ v.mission = h.mission /\ v.emergency = h.emergency
      /\ v.aborted = h.aborted /\ v.alive = h.alive /\ v.status = h.status
      /\ v.fits = h.fits
      /\ \A s \in Servers :
           /\ s \in Names => StoppedLeaf(h, v, s)
           /\ s \notin Names => Untouched(h, v, s)
           /\ ~Asks(h, v, s)
           /\ LinkOK(h.link[s]) => LinkOK(v.link[s])
  BY StopFacts DEF StoppedLeaf
<1> HIDE DEF v
<1>2. h.queue \in Seq(LiveTask) /\ h.alive \in BOOLEAN
  BY DEF TickState
\* Leaves that are all stopped, with the flag and the status set or not.
<1>3. ASSUME NEW u \in TickState, h.alive,
             u.link = v.link, u.leaf = v.leaf, u.payload = v.payload,
             Kept(v, u), u.fits = v.fits, u.queue = v.queue,
             u.mission = v.mission, u.emergency = v.emergency
      PROVE  Lower(h, u)
  <2>1. \A n \in Names : StoppedLeaf(h, u, n) /\ ~Asks(h, u, n)
    BY <1>0, <1>1, <1>3 DEF StoppedLeaf, Untouched, Asks
  <2>2. Emergency \in Servers => Untouched(h, u, Emergency)
    BY <1>0, <1>1, <1>3 DEF Untouched
  <2>3. \A s \in Servers : u.fits /\ LinkOK(h.link[s]) => LinkOK(u.link[s])
    BY <1>1, <1>3
  <2>4. Len(u.queue) = Len(h.queue) /\ Len(h.queue) \in Nat
    BY <1>1, <1>2, <1>3
  <2> QED
    BY <1>1, <1>3, <2>1, <2>2, <2>3, <2>4 DEF Lower, Kept
<1>4. CASE ~h.alive
  <2>1. t = h
    BY <1>4 DEF Goes, Held
  <2> HIDE DEF t
  <2>2. \A n \in Servers : ~Asks(h, h, n) /\ Untouched(h, h, n)
    BY DEF Asks, Untouched
  <2>3. ~(Len(h.queue) < Len(h.queue))
    BY <1>2
  <2>4. Lower(h, h)
    BY <1>0, <1>4, <2>2, <2>3 DEF Lower
  <2> QED
    BY <2>1, <2>4 DEF t
<1>5. CASE h.alive /\ ~Goes(h)
  <2>1. t = v
    BY <1>5 DEF Held, v
  <2> HIDE DEF t
  <2> QED
    BY <1>1, <1>3, <1>5, <2>1 DEF Kept, t
<1>6. CASE Goes(h) /\ h.aborted
  <2>1. t = [v EXCEPT !.aborted = FALSE, !.status = "SUCCESS"]
    BY <1>6 DEF TaskHandlerTree, v
  <2> HIDE DEF t
  <2>2. /\ t \in TickState
        /\ t.link = v.link /\ t.leaf = v.leaf /\ t.payload = v.payload
        /\ Kept(v, t) /\ t.fits = v.fits /\ t.queue = v.queue
        /\ t.mission = v.mission /\ t.emergency = v.emergency
    BY <1>1, <2>1 DEF TickState, Kept, LeafStatus
  <2> QED
    BY <1>3, <1>6, <2>2 DEF Goes, t
<1>7. CASE Goes(h) /\ ~h.aborted
  <2>1. t = TasksTree(h, late)
    BY <1>7 DEF TaskHandlerTree
  <2> HIDE DEF t
  <2>2. /\ t \in TickState
        /\ Kept(h, t) /\ t.aborted = h.aborted /\ t.emergency = h.emergency
        /\ t.fits => h.fits
        /\ Emergency \in Servers => Untouched(h, t, Emergency)
        /\ \A s \in Servers : t.fits /\ LinkOK(h.link[s]) => LinkOK(t.link[s])
        /\ \A n \in Names :
             \/ StoppedLeaf(h, t, n) /\ ~Asks(h, t, n)
             \/ h.queue # <<>> /\ Head(h.queue).name = n
        /\ \A n \in Names : Asks(h, t, n) => AsksForHead(h, t, n)
        /\ h.queue = <<>> => t.queue = <<>>
        /\ Len(t.queue) < Len(h.queue) =>
             \/ t.leaf[Head(h.queue).name].status \in {"SUCCESS", "FAILURE"}
             \/ h.mission = "error"
        /\ t.alive => h.alive
        /\ t.alive => t.mission = None \/ t.mission = h.mission
    BY <2>1, TasksTreeFacts
  <2>3. h.alive
    BY <1>7 DEF Goes
  <2> QED
    BY <1>7, <2>2, <2>3 DEF Lower, Kept, t
<1> QED
  BY <1>2, <1>4, <1>5, <1>6, <1>7
-----------------------------------------------------------------------------
(* The invariant of the node.                                              *)

\* Where no time passes, no mission overruns.  Without an emergency server the
\* tree chills in an emergency, so that a failed mission is dropped in the tick
\* it fails in.
TreeInv ==
  /\ HandlerInv /\ LinkInv
  /\ tree \subseteq Names /\ known \subseteq Names
  /\ root \in LeafStatus
  /\ setup_age \in Ages
  /\ payload \in [Servers -> Payload]
  /\ ~Clock => mission_age \in {None, 0}
  /\ alive /\ Emergency \notin Servers => mission_status = None
  /\ OneLeafRuns

\* A tick begins in order, whatever handles are forgotten.
LEMMA BeforeFacts ==
  ASSUME TreeInv
  PROVE  /\ Before \in TickState
         /\ Before.fits
         /\ \A s \in Servers :
              /\ LinkOK(Before.link[s])
              /\ Before.link[s].state = link[s].state
              /\ Before.link[s].goals = link[s].goals
              /\ \A g \in Slots : link[s].handle = g /\ link[s].goals[g].stage # "free"
                                    => Before.link[s].handle = g
<1>1. ASSUME NEW s \in Servers
      PROVE  /\ Forgotten(link[s]) \in Link
             /\ LinkOK(Forgotten(link[s]))
             /\ Forgotten(link[s]).state = link[s].state
             /\ Forgotten(link[s]).goals = link[s].goals
             /\ \A g \in Slots : link[s].handle = g /\ link[s].goals[g].stage # "free"
                                   => Forgotten(link[s]).handle = g
  <2> DEFINE k == link[s]
             c == Forgotten(k)
  <2>1. k \in Link /\ LinkOK(k)
    BY DEF TreeInv, LinkInv
  <2>2. c \in Link /\ c.state = k.state /\ c.goals = k.goals
    BY <2>1 DEF Forgotten, Link
  <2>3. \A g \in Slots : k.handle = g /\ k.goals[g].stage # "free" => c.handle = g
    BY <2>1 DEF Forgotten, Link, FreeGoal
  <2>4. LinkOK(c)
    BY <2>1, <2>2 DEF LinkOK, Expects, LateMessages
  <2> QED
    BY <2>2, <2>3, <2>4
<1> DEFINE links == [s \in Servers |-> Forgotten(link[s])]
<1>2. links \in [Servers -> Link]
  BY <1>1
<1>3. /\ leaf \in [Servers -> LeafRecord] /\ payload \in [Servers -> Payload]
      /\ tree \in SUBSET Names /\ known \in SUBSET Names
      /\ tasks_executing \in Seq(LiveTask)
      /\ tasks_available \in [Names -> Ages \cup {None}]
      /\ mission_status \in MissionStates /\ emergency_flag \in BOOLEAN
      /\ aborted_flag \in BOOLEAN /\ alive \in BOOLEAN /\ root \in LeafStatus
  BY DEF TreeInv, HandlerInv, HandlerTypeOK, LinkInv, LeafRecord
<1>4. Before.link = links /\ Before.fits
  BY DEF Before
<1>5. Before \in TickState
  <2> HIDE DEF links
  <2>1. Before = [link |-> links, leaf |-> leaf,
                  payload |-> payload, tree |-> tree, known |-> known,
                  queue |-> tasks_executing, available |-> tasks_available,
                  mission |-> mission_status, emergency |-> emergency_flag,
                  aborted |-> aborted_flag, alive |-> alive, status |-> root,
                  fits |-> TRUE]
    BY DEF Before, links
  <2> QED
    BY <1>2, <1>3, <2>1 DEF TickState
<1> QED
  BY <1>1, <1>4, <1>5

\* The node after a tick that ended with t.
TickedTo(t) ==
  /\ link' = t.link /\ leaf' = t.leaf
  /\ payload' = [s \in Servers |-> IF t.leaf[s].status = "RUNNING" THEN t.payload[s] ELSE None]
  /\ tree' = t.tree /\ known' = t.known /\ root' = t.status
  /\ tasks_executing' = t.queue /\ tasks_available' = t.available
  /\ mission_status' = t.mission /\ emergency_flag' = t.emergency
  /\ aborted_flag' = t.aborted /\ alive' = t.alive

LEMMA TickIs ==
  ASSUME TreeInv, TreeTick
  PROVE  \E h \in TickState, t \in TickState :
           /\ Upper(Before, h) /\ Lower(h, t) /\ t.fits
           /\ TickedTo(t)
<1>1. PICK found \in Findings, late \in Lates :
        \E e \in {EmergencyTree(RootTree(Updated(Before, found)))} :
        \E h \in {IF Goes(e) THEN HealthTree(e) ELSE e} :
        \E t \in {IF Goes(h) THEN TaskHandlerTree(h, late) ELSE Held(h)} :
          t.fits /\ TickedTo(t)
  BY DEF TreeTick, TickedTo
<1> DEFINE e == EmergencyTree(RootTree(Updated(Before, found)))
           h == IF Goes(e) THEN HealthTree(e) ELSE e
           t == IF Goes(h) THEN TaskHandlerTree(h, late) ELSE Held(h)
<1>2. t.fits /\ TickedTo(t)
  BY <1>1
<1>3. found \in SUBSET Names /\ late \in BOOLEAN /\ Before \in TickState
  BY BeforeFacts DEF Findings, Lates
<1>4. Upper(Before, h)
  BY <1>3, UpperHolds
<1>5. h \in TickState
  BY <1>4 DEF Upper
<1> HIDE DEF h
<1>6. Lower(h, t)
  BY <1>3, <1>5, LowerHolds
<1>7. t \in TickState
  BY <1>6 DEF Lower
<1> HIDE DEF t
<1> QED
  BY <1>2, <1>4, <1>5, <1>6, <1>7

\* After a tick at most one leaf runs.  The task handler is not reached while the
\* emergency leaf runs, and whatever runs behind it is stopped then; where the
\* node dies, which takes a failed mission, nothing new was started.
LEMMA TickRunsOneLeaf ==
  ASSUME TreeInv, alive, NEW h \in TickState, NEW t \in TickState,
         Upper(Before, h), Lower(h, t)
  PROVE  \A s, r \in Servers :
           t.leaf[s].status = "RUNNING" /\ t.leaf[r].status = "RUNNING" => s = r
<1>1. Servers \subseteq Names \cup {Emergency}
  BY TreeAssumption
<1>2. Before.leaf = leaf /\ Before.alive = alive
  BY DEF Before
<1>3. CASE h.alive
  <2>1. ASSUME NEW n \in Names, t.leaf[n].status = "RUNNING"
        PROVE  Goes(h) /\ Head(h.queue).name = n
    BY <1>3, <2>1 DEF Lower, StoppedLeaf
  <2>2. ASSUME Emergency \in Servers, t.leaf[Emergency].status = "RUNNING"
        PROVE  ~Goes(h)
    BY <2>2 DEF Upper, Lower, Untouched
  <2> QED
    BY <1>1, <2>1, <2>2
<1>4. CASE ~h.alive
  <2>1. t = h /\ Servers \subseteq Names
    BY <1>1, <1>2, <1>4 DEF Upper, Lower
  <2>2. \A n \in Servers : t.leaf[n].status = "RUNNING" => leaf[n].status = "RUNNING"
    BY <1>2, <2>1 DEF Upper, Untouched
  <2> QED
    BY <2>2 DEF TreeInv, OneLeafRuns
<1> QED
  BY <1>3, <1>4 DEF TickState

LEMMA TickKeepsInv == TreeInv /\ TreeTick => TreeInv'
<1> SUFFICES ASSUME TreeInv, TreeTick PROVE TreeInv'
  OBVIOUS
<1>1. PICK h \in TickState, t \in TickState :
        /\ Upper(Before, h) /\ Lower(h, t) /\ t.fits
        /\ TickedTo(t)
  BY TickIs
<1>2. alive /\ UNCHANGED <<healthVars, missionVars, agent_uuid, setup_age>>
  BY DEF TreeTick
<1>3. /\ Before.emergency = emergency_flag /\ Before.queue = tasks_executing
      /\ Before.mission = mission_status /\ Before.alive = alive
  BY DEF Before
<1>4. HandlerInv'
  <2>1. UNCHANGED MissionExpired
    BY <1>2 DEF missionVars, MissionExpired
  <2>2. t.emergency /\ t.queue # <<>> => MissionExpired
    <3>1. t.emergency = h.emergency /\ (t.queue # <<>> => h.queue # <<>>)
      BY <1>1 DEF Lower
    <3>2. ~emergency_flag => h.queue = <<>> \/ ~h.emergency
      BY <1>1, <1>3 DEF Upper
    <3>3. h.queue # <<>> => tasks_executing # <<>>
      BY <1>1, <1>3 DEF Upper
    <3>4. emergency_flag /\ tasks_executing # <<>> => MissionExpired
      BY DEF TreeInv, HandlerInv, QueueInEmergencyOnlyByTimeout
    <3> QED
      BY <3>1, <3>2, <3>3, <3>4
  <2>3. QueueInEmergencyOnlyByTimeout'
    BY <1>1, <2>1, <2>2 DEF QueueInEmergencyOnlyByTimeout, TickedTo
  <2>4. tasks_executing' \in Seq(LiveTask) /\ tasks_executing' \in Seq(Task)
    BY <1>1, LiveQueueType DEF TickedTo, TickState
  <2>5. /\ tasks_available' \in [Names -> Ages \cup {None}]
        /\ aborted_flag' \in BOOLEAN /\ emergency_flag' \in BOOLEAN
        /\ mission_status' \in MissionStates /\ alive' \in BOOLEAN
    BY <1>1 DEF TickedTo, TickState
  <2> QED
    BY <1>2, <2>3, <2>4, <2>5
    DEF TreeInv, HandlerInv, HandlerTypeOK, healthVars, missionVars
<1>5. LinkInv'
  <2>1. \A s \in Servers : LinkOK(t.link[s])
    BY <1>1, BeforeFacts DEF Upper, Lower
  <2>2. \A s \in Servers : LinkOK(link'[s])
    BY <1>1, <2>1 DEF TickedTo
  <2>3. \A s \in Servers : LinkOK(link[s])'
    BY <2>2 DEF LinkOK, Expects, LateMessages
  <2> QED
    BY <1>1, <2>3 DEF LinkInv, TickedTo, TickState, LeafRecord
<1>6. OneLeafRuns'
  BY <1>1, <1>2, TickRunsOneLeaf DEF OneLeafRuns, TickedTo
<1>7. /\ tree' \subseteq Names /\ known' \subseteq Names
      /\ root' \in LeafStatus /\ setup_age' \in Ages
  BY <1>1, <1>2 DEF TickedTo, TickState, TreeInv
<1>8. payload' \in [Servers -> Payload]
  BY <1>1 DEF TickedTo, TickState, Payload
<1>9. alive' /\ Emergency \notin Servers => mission_status' = None
  BY <1>1, <1>2, <1>3 DEF Upper, Lower, TickedTo, TreeInv
<1>10. ~Clock => mission_age' \in {None, 0}
  BY <1>2 DEF TreeInv, missionVars
<1> QED
  BY <1>4, <1>5, <1>6, <1>7, <1>8, <1>9, <1>10 DEF TreeInv

\* Between two ticks the handler moves by its own steps, and the tree stays.
LEMMA HandlerStepKeepsInv == TreeInv /\ HandlerStep => TreeInv'
<1> SUFFICES ASSUME TreeInv, HandlerStep PROVE TreeInv'
  OBVIOUS
<1> USE DEF missionVars
<1>1. UNCHANGED <<linkVars, treeVars>>
  BY DEF HandlerStep
<1>2. /\ HandlerInv'
      /\ UNCHANGED mission_status /\ (alive' => alive)
      /\ mission_age' \in {mission_age, None, 0} \/ Clock
  <2>1. HandlerInv
    BY DEF TreeInv
  <2>2. CASE ExecCommand
    BY <2>1, <2>2, ExecCommandInv
    DEF ExecCommand, StartTask, SignalTaskStop, SignalTaskPause, SignalTaskContinue
  <2>3. CASE \/ \E st \in {"aborted", "enough"} : SignalUnitStop(st)
             \/ Clock /\ CancelAbort
             \/ \E t \in Timeouts, m \in Missions : StartTst("tst", t, m)
    <3>1. TstCommand
      BY <2>3, HandlerAssumption DEF TstCommand, TstCommands, Commands
    <3> QED
      BY <2>1, <2>3, <3>1, TstCommandInv DEF SignalUnitStop, CancelAbort, StartTst
  <2>4. CASE BigRedButton \/ ResetEmergency \/ Report
    <3>1. OtherCallback
      BY <2>4, TreeAssumption DEF OtherCallback, Report
    <3> QED
      BY <2>1, <2>4, <3>1, OtherCallbackInv
      DEF Report, VehicleHealth, BigRedButton, ResetEmergency, ActionHeartbeat
  <2>5. CASE Clock /\ Heartbeat
    BY <2>1, <2>5, HeartbeatInv
    DEF Heartbeat, HeartbeatRaises, HeartbeatExpires, HeartbeatMissionDone, HeartbeatQuiet
  <2> QED
    BY <2>2, <2>3, <2>4, <2>5 DEF HandlerStep, Command
<1>3. LinkInv' /\ OneLeafRuns'
  BY <1>1 DEF TreeInv, linkVars, LinkInv, LinkOK, Expects, LateMessages, OneLeafRuns
<1> QED
  BY <1>1, <1>2, <1>3 DEF TreeInv, treeVars

LEMMA TimeKeepsInv == TreeInv /\ TimePasses => TreeInv'
<1> SUFFICES ASSUME TreeInv, TimePasses PROVE TreeInv'
  OBVIOUS
<1>1. HandlerInv' /\ UNCHANGED <<mission_status, alive>>
  BY ElapseInv DEF TimePasses, TreeInv, Elapse
<1>2. setup_age' \in Ages
  BY HandlerAssumption DEF TimePasses, TreeInv, Older, Ages
<1>3. LinkInv' /\ OneLeafRuns'
  BY DEF TimePasses, TreeInv, linkVars, LinkInv, LinkOK, Expects, LateMessages, OneLeafRuns
<1> QED
  BY <1>1, <1>2, <1>3 DEF TimePasses, TreeInv

\* So do the links: what a message does to its link leaves every leaf as it was.
LEMMA LinkStepKeepsInv ==
  ASSUME TreeInv, NEW s \in Servers, ClientHears(s) \/ ServerAnswers(s) \/ GoalEnds(s)
  PROVE  TreeInv'
<1>1. LinkInv
  BY DEF TreeInv
<1>2. UNCHANGED <<handlerVars, treeVars>>
  BY DEF ClientHears, ServerAnswers, GoalEnds
<1>3. LinkInv'
  BY <1>1, CallbackInv, ServerInv DEF ClientHears, ServerAnswers, GoalEnds
<1>4. UNCHANGED leaf
  <2>1. Callback(s) => UNCHANGED leaf
    BY DEF Callback, GoalAccepted, GoalRejected, FeedbackArrives, CancelConfirmed,
           CancelFailed, ResultArrives, Arrives
  <2>2. ServerAnswer(s) => UNCHANGED leaf
    BY DEF ServerAnswer, ServerAccepts, ServerRejects, ServerCancels, ServerMoves
  <2>3. ASSUME NEW g \in Slots, ServerEnds(s, g) PROVE UNCHANGED leaf
    BY <2>3 DEF ServerEnds, ServerFinishes, ServerMoves
  <2> QED
    BY <2>1, <2>2, <2>3 DEF ClientHears, ServerAnswers, GoalEnds
<1>5. HandlerInv'
  BY <1>2, HandlerStutterInv DEF TreeInv
<1> QED
  BY <1>2, <1>3, <1>4, <1>5 DEF TreeInv, treeVars, handlerVars, OneLeafRuns

LEMMA TreeInitInv == TreeInit => TreeInv
<1> SUFFICES ASSUME TreeInit PROVE TreeInv
  OBVIOUS
<1>1. HandlerInv /\ LinkInv
  BY InitHandlerInv, InitInv DEF TreeInit
<1>2. OneLeafRuns
  BY DEF TreeInit, LinkInit, OneLeafRuns
<1>3. 0 \in Ages
  BY HandlerAssumption DEF Ages
<1> QED
  BY <1>1, <1>2, <1>3 DEF TreeInit, TreeInv, HandlerInit, LeafStatus, Payload

LEMMA TreeStepInv == TreeInv /\ [TreeNext]_vars => TreeInv'
<1> SUFFICES ASSUME TreeInv, [TreeNext]_vars PROVE TreeInv'
  OBVIOUS
<1>1. CASE TreeTick
  BY <1>1, TickKeepsInv
<1>2. CASE HandlerStep
  BY <1>2, HandlerStepKeepsInv
<1>3. CASE TimePasses
  BY <1>3, TimeKeepsInv
<1>4. CASE \E s \in Servers : ClientHears(s) \/ ServerAnswers(s) \/ GoalEnds(s)
  BY <1>4, LinkStepKeepsInv
<1>5. CASE UNCHANGED vars
  <2>1. HandlerInv'
    BY <1>5, HandlerStutterInv DEF TreeInv, vars
  <2>2. LinkInv' /\ OneLeafRuns'
    BY <1>5 DEF TreeInv, vars, linkVars, LinkInv, LinkOK, Expects, LateMessages, OneLeafRuns
  <2> QED
    BY <1>5, <2>1, <2>2 DEF TreeInv, vars, treeVars, handlerVars
<1> QED
  BY <1>1, <1>2, <1>3, <1>4, <1>5 DEF TreeNext
-----------------------------------------------------------------------------
(* The theorems. *)

\* The node's invariant holds: what the handler keeps by its own steps and the
\* links keep by theirs, they keep with the tree ticking between them.
THEOREM TreeInvHolds == TreeSafety => []TreeInv
<1> QED
  BY TreeInitInv, TreeStepInv, PTL DEF TreeSafety

\* Type correctness of the node: the task handler, the action clients and the tree.
THEOREM TreeTypeCorrect == TreeSafety => []TreeTypeOK
<1>1. TreeInv => TreeTypeOK
  BY DEF TreeInv, HandlerInv, LinkInv, TreeTypeOK, LinkTypeOK
<1> QED
  BY <1>1, TreeInvHolds, PTL

\* The node never has two goals on its hands.
THEOREM OneLeafAtATime == TreeSafety => []OneLeafRuns
<1>1. TreeInv => OneLeafRuns
  BY DEF TreeInv
<1> QED
  BY <1>1, TreeInvHolds, PTL

\* In the node as in the handler alone: no task that is over is in the queue, and
\* one that is queued in an emergency is there by the mission's timeout.
THEOREM TreeKeepsQueue == TreeSafety => [](ExecutingLive /\ QueueInEmergencyOnlyByTimeout)
<1>1. TreeInv => ExecutingLive /\ QueueInEmergencyOnlyByTimeout
  <2> SUFFICES ASSUME TreeInv PROVE ExecutingLive
    BY DEF TreeInv, HandlerInv
  <2>1. \A i \in DOMAIN tasks_executing : tasks_executing[i] \in LiveTask
    BY DEF TreeInv, HandlerInv
  <2> QED
    BY <2>1 DEF ExecutingLive, LiveTask, LiveStates
<1> QED
  BY <1>1, TreeInvHolds, PTL

\* In the node as in the handler alone: only $cancel_abort stops a mission's timer while
\* tasks are queued; no tick does, whatever it takes off the queue.
THEOREM TreeTimerOutlivesQueue == TreeSafety => TimerRunsWhileQueued
<1>1. ASSUME TreeInv, [TreeNext]_vars, mission_age # None, mission_age' = None,
             tasks_executing # <<>>
      PROVE  CancelAbort
  <2>1. CASE UNCHANGED mission_age
    BY <1>1, <2>1
  <2>2. CASE HandlerStep \/ TimePasses
    <3>1. HandlerNext
      <4>1. ASSUME NEW t \in Timeouts, NEW m \in Missions, StartTst("tst", t, m) PROVE TstCommand
        BY <4>1, HandlerAssumption DEF TstCommand, TstCommands, Commands
      <4>2. (\E st \in {"aborted", "enough"} : SignalUnitStop(st)) \/ CancelAbort => TstCommand
        BY DEF TstCommand
      <4>3. Report \/ BigRedButton \/ ResetEmergency => OtherCallback
        BY TreeAssumption DEF Report, OtherCallback
      <4>4. QED
        BY <2>2, <4>1, <4>2, <4>3 DEF HandlerStep, TimePasses, Command, HandlerNext
    <3>2. QED
      BY <1>1, <3>1, WhoStopsTheTimer DEF TreeInv
  <2>3. TreeTick \/ UNCHANGED vars => UNCHANGED mission_age
    BY DEF TreeTick, missionVars, vars, handlerVars
  <2>4. ASSUME NEW s \in Servers, ClientHears(s) \/ ServerAnswers(s) \/ GoalEnds(s)
        PROVE  UNCHANGED mission_age
    BY <2>4 DEF ClientHears, ServerAnswers, GoalEnds, handlerVars
  <2>5. QED
    BY <1>1, <2>1, <2>2, <2>3, <2>4 DEF TreeNext
<1>2. TreeInv /\ [TreeNext]_vars =>
        [/\ mission_age # None /\ mission_age' = None
         /\ tasks_executing # <<>>
         => CancelAbort]_handlerVars
  BY <1>1
<1> QED
  BY <1>2, TreeInvHolds, PTL DEF TreeSafety, TimerRunsWhileQueued

\* In the node as with a leaf on its own: a client left waiting, by whatever stops,
\* preempts or rebuilds its leaf, has something to come that will wake it.
THEOREM TreeClientsWaitForSomething == TreeSafety => []WaitsForSomething
<1>1. TreeInv => WaitsForSomething
  BY DEF TreeInv, LinkInv, LinkOK, Expects, WaitsForSomething
<1> QED
  BY <1>1, TreeInvHolds, PTL

-----------------------------------------------------------------------------
(* What each property asks of a tick. *)

\* Messages and servers ask for no goal, so that only a tick does.
LEMMA OnlyTicksAsk ==
  ASSUME TreeInv, [TreeNext]_vars, NEW n \in Names, GoalSent(n)
  PROVE  TreeTick
<1>0. Names \subseteq Servers
  BY TreeAssumption
<1>1. PICK g \in Slots : link[n].goals[g].stage = "free" /\ link'[n].goals[g].stage = "requested"
  BY DEF GoalSent
<1>2. link \in [Servers -> Link]
  BY DEF TreeInv, LinkInv
<1>3. ~UNCHANGED link
  BY <1>1
\* One goal changes, to a stage that is not a request that was not one before.
<1>4. ASSUME NEW s \in Servers, NEW h \in Slots, NEW st, NEW hd, NEW goal,
             link' = [link EXCEPT ![s] = [link[s] EXCEPT !.state = st, !.handle = hd,
                                           !.goals = [link[s].goals EXCEPT ![h] = goal]]],
             goal.stage # "requested" \/ goal.stage = link[s].goals[h].stage
      PROVE  FALSE
  <2>1. link[s] \in Link /\ link[s].goals \in [Slots -> Goal] /\ n \in Servers
    BY <1>0, <1>2 DEF Link
  <2>2. n = s
    BY <1>1, <1>2, <1>4, <2>1
  <2>3. link'[s].goals = [link[s].goals EXCEPT ![h] = goal]
    BY <1>2, <1>4, <2>1 DEF Link
  <2> QED
    BY <1>1, <1>4, <2>1, <2>2, <2>3
<1>5. ASSUME NEW s \in Servers, Callback(s) PROVE FALSE
  <2>1. ASSUME NEW h \in Slots, NEW m, NEW st, NEW hd, NEW stage,
               Arrives(s, h, m, st, hd, stage),
               stage # "requested" \/ stage = link[s].goals[h].stage
        PROVE  FALSE
    <3> DEFINE goal == [stage |-> stage, transit |-> link[s].goals[h].transit \ {m}]
    <3>1. link' = [link EXCEPT ![s] = [link[s] EXCEPT !.state = st, !.handle = hd,
                                         !.goals = [link[s].goals EXCEPT ![h] = goal]]]
      BY <1>2, <2>1 DEF Arrives, Link
    <3>2. goal.stage = stage
      OBVIOUS
    <3> HIDE DEF goal
    <3> QED
      BY <1>4, <2>1, <3>1, <3>2
  <2>2. PICK h \in Slots :
          \/ GoalAccepted(s, h) \/ GoalRejected(s, h) \/ FeedbackArrives(s, h)
          \/ CancelConfirmed(s, h) \/ CancelFailed(s, h) \/ ResultArrives(s, h)
    BY <1>5 DEF Callback
  <2>3. CASE ResultArrives(s, h)
    <3> DEFINE goal == [stage |-> "free", transit |-> link[s].goals[h].transit \ {"feedback"}]
    <3>1. link' = [link EXCEPT ![s] = [link[s] EXCEPT !.state = ResultState(link[s].goals[h].stage),
                                         !.handle = link[s].handle,
                                         !.goals = [link[s].goals EXCEPT ![h] = goal]]]
      BY <1>2, <2>3 DEF ResultArrives, Link
    <3>2. goal.stage = "free"
      OBVIOUS
    <3> HIDE DEF goal
    <3> QED
      BY <1>4, <3>1, <3>2
  <2> QED
    BY <2>1, <2>2, <2>3
    DEF GoalAccepted, GoalRejected, FeedbackArrives, CancelConfirmed, CancelFailed
<1>6. ASSUME NEW s \in Servers, NEW h \in Slots, NEW stage, NEW transit,
             ServerMoves(s, h, stage, transit),
             stage # "requested" \/ stage = link[s].goals[h].stage
      PROVE  FALSE
  <2> DEFINE goal == [stage |-> stage, transit |-> transit]
  <2>1. link' = [link EXCEPT ![s] = [link[s] EXCEPT !.state = link[s].state,
                                       !.handle = link[s].handle,
                                       !.goals = [link[s].goals EXCEPT ![h] = goal]]]
    BY <1>2, <1>6 DEF ServerMoves, Link
  <2>2. goal.stage = stage
    OBVIOUS
  <2> HIDE DEF goal
  <2> QED
    BY <1>4, <1>6, <2>1, <2>2
<1>7. ASSUME NEW s \in Servers, ServerAnswer(s) PROVE FALSE
  <2>1. PICK h \in Slots :
          \/ ServerAccepts(s, h) \/ ServerRejects(s, h)
          \/ \E granted \in BOOLEAN : ServerCancels(s, h, granted)
    BY <1>7 DEF ServerAnswer
  <2>2. CASE \E granted \in BOOLEAN : ServerCancels(s, h, granted)
    BY <1>6, <2>2 DEF ServerCancels
  <2> QED
    BY <1>6, <2>1, <2>2 DEF ServerAccepts, ServerRejects
<1>8. ASSUME NEW s \in Servers, NEW h \in Slots, ServerEnds(s, h) PROVE FALSE
  BY <1>6, <1>8 DEF ServerEnds, ServerFinishes, Ended
<1> QED
  BY <1>3, <1>5, <1>7, <1>8
  DEF TreeNext, HandlerStep, TimePasses, linkVars, vars, ClientHears, ServerAnswers, GoalEnds

\* A tick sends a task's server only the goal that is due, unless the mission has
\* overrun: then the emergency is up with the queue standing.
LEMMA TickSendsWhatIsDue ==
  ASSUME TreeInv, TreeTick, ~MissionExpired
  PROVE  GoalsAreDue
<1> SUFFICES ASSUME NEW n \in Names, GoalSent(n)
             PROVE  /\ tasks_executing' # <<>>
                    /\ Head(tasks_executing') = [Head(tasks_executing) EXCEPT !.status = "running"]
                    /\ Head(tasks_executing').name = n
                    /\ payload'[n] = Head(tasks_executing').uuid
                    /\ health_status \in HealthFor(n) /\ health_age # None
                    /\ ~emergency_flag' /\ mission_status # "error"
  BY DEF GoalsAreDue
<1>1. PICK h \in TickState, t \in TickState :
        /\ Upper(Before, h) /\ Lower(h, t) /\ t.fits
        /\ TickedTo(t)
  BY TickIs
<1>2. /\ Before.emergency = emergency_flag /\ Before.queue = tasks_executing
      /\ Before.mission = mission_status
      /\ n \in Servers
  BY TreeAssumption DEF Before
<1>3. Asks(h, t, n)
  <2>1. PICK g \in Slots : link[n].goals[g].stage = "free" /\ t.link[n].goals[g].stage = "requested"
    BY <1>1 DEF GoalSent, TickedTo
  <2>2. Before.link[n].goals[g].stage # "requested"
    BY <1>2, <2>1, BeforeFacts
  <2>3. h.link[n].goals[g].stage # "requested"
    BY <1>1, <2>2 DEF Upper, Asks
  <2> QED
    BY <2>1, <2>3 DEF Asks
<1>4. Goes(h) /\ AsksForHead(h, t, n)
  BY <1>1, <1>3 DEF Lower
<1>5. /\ h.mission # "error" /\ health_status \in HealthFor(n)
      /\ h.queue # <<>> /\ Head(h.queue).name = n
      /\ t.leaf[n].status = "RUNNING"
  BY <1>4 DEF AsksForHead
<1>6. ~emergency_flag /\ h.queue = tasks_executing /\ ~h.emergency
  <2>1. tasks_executing # <<>>
    BY <1>1, <1>2, <1>5 DEF Upper
  <2>2. ~emergency_flag
    BY <2>1 DEF TreeInv, HandlerInv, QueueInEmergencyOnlyByTimeout
  <2> QED
    BY <1>1, <1>2, <1>5, <2>2 DEF Upper
<1>7. /\ t.queue # <<>>
      /\ Head(t.queue) = [Head(tasks_executing) EXCEPT !.status = "running"]
      /\ t.payload[n] = Head(tasks_executing).uuid
  BY <1>4, <1>6 DEF AsksForHead
<1>8. Head(tasks_executing) \in LiveTask
  BY <1>5, <1>6 DEF TreeInv, HandlerInv
<1>9. Head(t.queue).name = n /\ t.payload[n] = Head(t.queue).uuid
  BY <1>5, <1>6, <1>7, <1>8 DEF LiveTask
<1>10. health_age # None /\ ~t.emergency /\ mission_status # "error"
  BY <1>1, <1>2, <1>4, <1>5, <1>6 DEF Upper, Lower
<1> QED
  BY <1>1, <1>2, <1>5, <1>7, <1>9, <1>10 DEF TickedTo

\* A tick that finds the flag of a stopped task up runs no task: the subtree that
\* resets the flag comes first, and everything behind it is stopped.
LEMMA TickTakesABreath ==
  ASSUME TreeInv, TreeTick, aborted_flag, NEW n \in Names
  PROVE  leaf'[n].status # "RUNNING"
<1>1. PICK h \in TickState, t \in TickState :
        /\ Upper(Before, h) /\ Lower(h, t) /\ t.fits
        /\ TickedTo(t)
  BY TickIs
<1>2. /\ Before.aborted = aborted_flag /\ Before.alive = alive
      /\ Before.mission = mission_status /\ alive
  BY DEF Before, TreeTick
<1>3. h.alive
  <2>1. "error" # None
    BY HandlerAssumption
  <2> QED
    BY <1>1, <1>2, <2>1 DEF Upper, TreeInv, TickState
<1>4. StoppedLeaf(h, t, n)
  BY <1>1, <1>2, <1>3 DEF Upper, Lower
<1> QED
  BY <1>1, <1>4 DEF StoppedLeaf, TickedTo

\* A tick in an emergency that no overrun mission raised stops every task, and has
\* the goal cancelled whose handle the client holds.
LEMMA TickStopsTasks ==
  ASSUME TreeInv, TreeTick, ~MissionExpired
  PROVE  TasksAreStopped
<1> SUFFICES ASSUME emergency_flag, alive', NEW n \in Names
             PROVE  /\ leaf'[n].status # "RUNNING"
                    /\ leaf[n].status = "RUNNING" /\ known' = known =>
                         \A g \in Slots :
                           link[n].handle = g /\ link[n].goals[g].stage = "EXECUTING"
                             => \/ "cancel" \in link'[n].goals[g].transit
                                \/ link[n].state \notin running_states
  BY DEF TasksAreStopped
<1>1. PICK h \in TickState, t \in TickState :
        /\ Upper(Before, h) /\ Lower(h, t) /\ t.fits
        /\ TickedTo(t)
  BY TickIs
<1>2. /\ Before.emergency = emergency_flag /\ Before.queue = tasks_executing
      /\ Before.known = known /\ Before.leaf = leaf
      /\ n \in Servers
  BY TreeAssumption DEF Before
<1>3. h.queue = <<>>
  BY <1>1, <1>2 DEF Upper, TreeInv, HandlerInv, QueueInEmergencyOnlyByTimeout
<1>4. h.alive
  BY <1>1 DEF Lower, TickedTo, TickState
<1>5. StoppedLeaf(h, t, n)
  BY <1>1, <1>3, <1>4 DEF Lower
<1>6. leaf'[n].status = "INVALID"
  BY <1>1, <1>5 DEF StoppedLeaf, TickedTo
<1>7. ASSUME leaf[n].status = "RUNNING", known' = known,
             NEW g \in Slots, link[n].handle = g, link[n].goals[g].stage = "EXECUTING",
             link[n].state \in running_states
      PROVE  "cancel" \in link'[n].goals[g].transit
  <2>1. h.known = Before.known
    BY <1>1, <1>2, <1>7 DEF Lower, TickedTo
  <2>2. t.link[n] = terminate(Before.link[n], "INVALID")
    <3>1. Untouched(Before, h, n) \/ StoppedLeaf(Before, h, n)
      BY <1>1, <2>1 DEF Upper
    <3> QED
      BY <1>2, <1>5, <1>7, <3>1 DEF StoppedLeaf, Untouched
  <2>3. /\ Before.link[n] \in Link /\ Before.link[n].handle = g
        /\ Before.link[n].state \in running_states
    BY <1>2, <1>7, BeforeFacts DEF TickState
  <2> QED
    BY <1>1, <2>2, <2>3, StopCancels DEF TickedTo
<1> QED
  BY <1>6, <1>7

\* The queue grows shorter in a tick for a reason, unless the mission has overrun:
\* then it is the emergency leaf that fails at the cost of a task.
LEMMA TickClearsForAReason ==
  ASSUME TreeInv, TreeTick, ~MissionExpired
  PROVE  LeftByItsLeaf
<1> SUFFICES ASSUME Len(tasks_executing') < Len(tasks_executing)
             PROVE  \/ leaf'[Head(tasks_executing).name].status \in {"SUCCESS", "FAILURE"}
                    \/ mission_status = "error"
                    \/ emergency_flag' /\ tasks_executing' = <<>>
  BY DEF LeftByItsLeaf
<1>1. PICK h \in TickState, t \in TickState :
        /\ Upper(Before, h) /\ Lower(h, t) /\ t.fits
        /\ TickedTo(t)
  BY TickIs
<1>2. /\ Before.emergency = emergency_flag /\ Before.queue = tasks_executing
      /\ Before.mission = mission_status
  BY DEF Before
<1>3. ~emergency_flag
  <2>1. tasks_executing' \in Seq(LiveTask)
    BY <1>1 DEF TickedTo, TickState
  <2>2. tasks_executing # <<>>
    BY <2>1
  <2> QED
    BY <2>2 DEF TreeInv, HandlerInv, QueueInEmergencyOnlyByTimeout
<1>4. CASE h.queue = tasks_executing
  BY <1>1, <1>2, <1>4 DEF Upper, Lower, TickedTo
<1>5. CASE h.queue = <<>> /\ h.emergency
  BY <1>1, <1>5 DEF Lower, TickedTo
<1> QED
  BY <1>1, <1>2, <1>3, <1>4, <1>5 DEF Upper

\* A tick in an emergency works on the emergency action, and what comes behind it
\* leaves that alone.
LEMMA TickPursuesEmergency ==
  ASSUME TreeInv, TreeTick, emergency_flag, Emergency \in Servers
  PROVE  \/ link'[Emergency].state \in running_states
         \/ leaf'[Emergency].status \in {"SUCCESS", "FAILURE"}
         \/ link[Emergency].state = "CANCELLED"
<1>1. PICK h \in TickState, t \in TickState :
        /\ Upper(Before, h) /\ Lower(h, t) /\ t.fits
        /\ TickedTo(t)
  BY TickIs
<1>2. /\ Before.emergency = emergency_flag
      /\ Before.link[Emergency].state = link[Emergency].state
  BY BeforeFacts DEF Before
<1> QED
  BY <1>1, <1>2 DEF Upper, Lower, Untouched, TickedTo
-----------------------------------------------------------------------------
(* The theorems about what a step may never do. *)

\* Every goal a task's server is sent is the one of the head of the queue, on a
\* vehicle that may work on it, unless the mission has overrun its timeout.
THEOREM GoalsAreDueUnlessOverrun == TreeSafety => [][MissionExpired \/ GoalsAreDue]_vars
<1>1. TreeInv /\ [TreeNext]_vars => [MissionExpired \/ GoalsAreDue]_vars
  BY TickSendsWhatIsDue, OnlyTicksAsk DEF GoalsAreDue
<1> QED
  BY <1>1, TreeInvHolds, PTL DEF TreeSafety

\* A tick in an emergency leaves no task running and has its goal cancelled,
\* unless the mission has overrun its timeout.
THEOREM EmergencyStopsUnlessOverrun ==
  TreeSafety => [][MissionExpired \/ TasksAreStopped]_vars
<1>1. TreeInv /\ [TreeNext]_vars => [MissionExpired \/ TasksAreStopped]_vars
  BY TickStopsTasks DEF TasksAreStopped
<1> QED
  BY <1>1, TreeInvHolds, PTL DEF TreeSafety

\* A task leaves the queue in a tick only by its own leaf, with a failed mission
\* or in a new emergency, unless the mission has overrun its timeout.
THEOREM TasksLeaveUnlessOverrun == TreeSafety => [][MissionExpired \/ LeftByItsLeaf]_vars
<1>1. TreeInv /\ [TreeNext]_vars => [MissionExpired \/ LeftByItsLeaf]_vars
  BY TickClearsForAReason DEF LeftByItsLeaf
<1> QED
  BY <1>1, TreeInvHolds, PTL DEF TreeSafety

\* After a stop, one whole tick leaves no task running.
THEOREM StopIsABreath == TreeSafety => StopTakesABreath
<1>1. TreeInv /\ [TreeNext]_vars =>
        [aborted_flag /\ (\E n \in Names : leaf'[n].status = "RUNNING") => ~TreeTick]_vars
  BY TickTakesABreath
<1> QED
  BY <1>1, TreeInvHolds, PTL DEF TreeSafety, StopTakesABreath

\* In an emergency every tick gets on with the emergency action.
THEOREM EmergencyGetsOn == TreeSafety => EmergencyIsPursued
<1>1. TreeInv /\ [TreeNext]_vars =>
        [\/ ~emergency_flag \/ Emergency \notin Servers \/ ~alive'
         \/ link'[Emergency].state \in running_states
         \/ leaf'[Emergency].status \in {"SUCCESS", "FAILURE"}
         \/ link[Emergency].state = "CANCELLED"
         \/ ~TreeTick]_vars
  BY TickPursuesEmergency
<1> QED
  BY <1>1, TreeInvHolds, PTL DEF TreeSafety, EmergencyIsPursued

\* Where no time passes, a mission's timeout does not run out.
LEMMA NoOverrun == ASSUME ~Clock PROVE TreeInv => ~MissionExpired
<1> SUFFICES ASSUME TreeInv, MissionExpired PROVE FALSE
  OBVIOUS
<1>1. mission_age = 0 /\ mission_timeout \in Nat
  BY HandlerAssumption DEF TreeInv, MissionExpired
<1> QED
  BY <1>1 DEF MissionExpired

\* As the run checks it, where no time passes: a task's server is sent a goal only
\* for the head of the queue, on a vehicle that may work on it.
THEOREM TimelessGoalsAreDue == ASSUME ~Clock PROVE TreeSafety => TaskGoalsAreDue
<1>1. TreeInv /\ [TreeNext]_vars => [GoalsAreDue]_vars
  BY NoOverrun, TickSendsWhatIsDue, OnlyTicksAsk DEF GoalsAreDue
<1> QED
  BY <1>1, TreeInvHolds, PTL DEF TreeSafety, TaskGoalsAreDue

\* As the run checks it: an emergency stops every task.
THEOREM TimelessEmergencyStops == ASSUME ~Clock PROVE TreeSafety => EmergencyStopsTasks
<1>1. TreeInv /\ [TreeNext]_vars => [TasksAreStopped]_vars
  BY NoOverrun, TickStopsTasks DEF TasksAreStopped
<1> QED
  BY <1>1, TreeInvHolds, PTL DEF TreeSafety, EmergencyStopsTasks

\* As the run checks it: tasks leave the queue by their own leaves.
THEOREM TimelessTasksLeave == ASSUME ~Clock PROVE TreeSafety => TasksLeaveByTheirLeaf
<1>1. TreeInv /\ [TreeNext]_vars => [LeftByItsLeaf]_vars
  BY NoOverrun, TickClearsForAReason DEF LeftByItsLeaf
<1> QED
  BY <1>1, TreeInvHolds, PTL DEF TreeSafety, TasksLeaveByTheirLeaf
=============================================================================
