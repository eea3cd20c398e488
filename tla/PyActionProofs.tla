--------------------------- MODULE PyActionProofs ---------------------------
(***************************************************************************)
(* Proofs about the Python action servers: about ActionServer, for any     *)
(* finite set of goals, and about AlarsActions, whose callbacks the server *)
(* of ActionServer calls, for any number of points of a recovery.          *)
(*                                                                         *)
(* All is while requests are handled one at a time (MaxRequests = 1): with *)
(* more at a time the theorems do not hold, as the run on                  *)
(* OneUncanceledGoal shows.  With its callbacks the server of AlarsActions *)
(* is still that of ActionServer, whose theorems therefore apply to it.    *)
(***************************************************************************)
EXTENDS AlarsActions, FiniteSetTheorems, TLAPS

\* What the thread of a request knows of the goal it handles, and that no
\* other goal is uncancelled from the moment is_valid_goal was found FALSE.
RequestOK(g) ==
  /\ status[g] = "unknown" <=> request[g] \in {"none", "checked", "asking", "rejected"}
  /\ request[g] = "accepted" => status[g] \in {"ACCEPTED", "CANCELING"}
  /\ request[g] = "registered" => _base_goal_handle = g
  /\ request[g] \in {"checked", "asking", "accepted"} =>
       \A h \in Goals : status[h] \in Uncanceled => h = g

\* A goal that can still be cancelled is the one is_valid_goal looks at, or is
\* about to be; a task works on the goal of the request that started it.
GoalOK(g) ==
  /\ status[g] \in Uncanceled => _base_goal_handle = g \/ request[g] = "accepted"
  /\ execution[g] # "none" => running[g] = g
  /\ running[g] # NoGoal => running[g] = g /\ request[g] = "done"

OneRequest == \A g, h \in Goals : g \in InRequest /\ h \in InRequest => g = h

Inv ==
  /\ ServerTypeOK
  /\ OneRequest
  /\ \A g \in Goals : RequestOK(g) /\ GoalOK(g)

USE DEF Terminal, Uncanceled, GoalStatus, InHandling, RequestPc, InExecution, ExecutionPc

LEMMA InitInv == ServerInit => Inv
  BY ServerAssumption
  DEF ServerInit, Inv, ServerTypeOK, OneRequest, InRequest, RequestOK, GoalOK

\* The bound on requests, as the proofs use it.
LEMMA NobodyElse ==
  ASSUME MaxRequests = 1, Cardinality(InRequest) < MaxRequests
  PROVE  InRequest = {}
<1>1. IsFiniteSet(InRequest)
  BY ServerAssumption, FS_Subset DEF InRequest
<1>2. Cardinality(InRequest) \in Nat
  BY <1>1, FS_CardinalityType
<1>3. Cardinality(InRequest) = 0
  BY <1>2
<1> QED
  BY <1>1, <1>3, FS_EmptySet

LEMMA RequestInv ==
  ASSUME MaxRequests = 1, Inv, NEW g \in Goals, CheckValid(g) \/ RequestStep(g)
  PROVE  Inv'
<1> USE DEF Inv, ServerTypeOK, OneRequest, InRequest, RequestOK, GoalOK
<1>1. CASE CheckValid(g)
  BY <1>1, NobodyElse, ServerAssumption DEF CheckValid, _no_lock_is_valid_goal
<1>2. CASE CheckFailure(g)
  BY <1>2 DEF CheckFailure
<1>3. CASE UserAccepts(g)
  BY <1>3 DEF UserAccepts
<1>4. ASSUME NEW raises \in BOOLEAN, UserRefuses(g, raises) PROVE Inv'
  BY <1>4 DEF UserRefuses
<1>5. CASE RegisterGoal(g)
  BY <1>5 DEF RegisterGoal
<1>6. CASE Execute(g)
  <2>1. _base_goal_handle = g /\ g # NoGoal /\ request[g] = "registered"
    BY <1>6, ServerAssumption DEF Execute
  <2>2. CASE status[g] \in {"ACCEPTED", "CANCELING"}
    <3>1. /\ status' = [status EXCEPT ![g] = IF @ = "ACCEPTED" THEN "EXECUTING" ELSE @]
          /\ running' = [running EXCEPT ![g] = g]
          /\ execution' = [execution EXCEPT ![g] = "prepare"]
          /\ request' = [request EXCEPT ![g] = "done"]
          /\ UNCHANGED <<alive, _base_goal_handle, _user_failure>>
      BY <1>6, <2>1, <2>2 DEF Execute
    <3>2. \A h \in Goals : /\ status'[h] \in Uncanceled <=> status[h] \in Uncanceled
                           /\ status'[h] = "unknown" <=> status[h] = "unknown"
                           /\ h # g => status'[h] = status[h]
      BY <2>2, <3>1
    <3>3. ServerTypeOK'
      <4>1. status' \in [Goals -> GoalStatus] /\ request' \in [Goals -> RequestPc]
        BY <3>1
      <4>2. running' \in [Goals -> Goals \cup {NoGoal}] /\ execution' \in [Goals -> ExecutionPc]
        BY <3>1
      <4> QED
        BY <3>1, <4>1, <4>2
    <3>4. OneRequest'
      BY <3>1
    <3>5. \A h \in Goals : RequestOK(h)'
      BY <2>1, <2>2, <3>1, <3>2
    <3>6. \A h \in Goals : GoalOK(h)'
      BY <2>1, <3>1, <3>2
    <3> QED
      BY <3>3, <3>4, <3>5, <3>6
  <2>3. CASE status[g] \notin {"ACCEPTED", "CANCELING"}
    <3>1. /\ request' = [request EXCEPT ![g] = "raised"]
          /\ alive' = FALSE
          /\ UNCHANGED <<status, running, execution, _base_goal_handle, _user_failure>>
      BY <1>6, <2>1, <2>3 DEF Execute
    <3>2. ServerTypeOK' /\ OneRequest'
      <4>1. request' \in [Goals -> RequestPc] /\ OneRequest'
        BY <3>1
      <4>2. alive' \in BOOLEAN
        BY <3>1, Zenon
      <4> QED
        BY <3>1, <4>1, <4>2
    <3>3. \A h \in Goals : RequestOK(h)'
      BY <2>1, <3>1
    <3>4. \A h \in Goals : GoalOK(h)'
      BY <2>1, <3>1
    <3> QED
      BY <3>2, <3>3, <3>4
  <2> QED
    BY <2>2, <2>3
<1> QED
  BY <1>1, <1>2, <1>3, <1>4, <1>5, <1>6 DEF RequestStep

LEMMA CancelInv ==
  ASSUME Inv, NEW g \in Goals, CancelAccepted(g) \/ CancelRaises(g)
  PROVE  Inv'
<1> USE DEF Inv, ServerTypeOK, OneRequest, InRequest, RequestOK, GoalOK
<1>1. CASE CancelAccepted(g)
  BY <1>1 DEF CancelAccepted
<1>2. CASE CancelRaises(g)
  BY <1>2 DEF CancelRaises
<1> QED
  BY <1>1, <1>2

LEMMA ExecutionInv ==
  ASSUME Inv, NEW t \in Goals, ExecutionStep(t)
  PROVE  Inv'
<1> USE DEF Inv, ServerTypeOK, OneRequest, InRequest, RequestOK, GoalOK, At, Goto
<1>1. ASSUME NEW raises \in BOOLEAN, Prepare(t, raises) PROVE Inv'
  BY <1>1 DEF Prepare
<1>2. CASE LoopTest(t)
  BY <1>2 DEF LoopTest
<1>3. CASE LoopContinues(t)
  BY <1>3 DEF LoopContinues
<1>4. CASE LoopRaises(t)
  BY <1>4 DEF LoopRaises
\* Ending a goal that was started leaves no goal uncancelled that was not.
<1> DEFINE Ends(st) ==
      /\ status' = [status EXCEPT ![t] = st]
      /\ Goto(t, "ended")
      /\ UNCHANGED <<request, running, _base_goal_handle, alive>>
      /\ _user_failure' \in BOOLEAN
<1>0. running[t] = t /\ request[t] = "done" /\ status[t] # "unknown" /\ status[t] \in GoalStatus
  <2>1. execution[t] # "none"
    BY DEF ExecutionStep, Prepare, LoopTest, LoopContinues, LoopRaises, LoopReturns,
           CancelNormal, CancelForever
  <2> QED
    BY <2>1, ServerAssumption
<1>a. ASSUME NEW st \in GoalStatus, Ends(st), st \in Terminal \/ st = status[t] PROVE Inv'
  <2>1. ServerTypeOK'
    BY <1>a
  <2>2. \A g \in Goals : /\ status'[g] \in Uncanceled => status[g] \in Uncanceled
                         /\ status'[g] = "unknown" <=> status[g] = "unknown"
                         /\ g # t => status'[g] = status[g]
    BY <1>0, <1>a
  <2>3. OneRequest'
    BY <1>a
  <2>4. \A g \in Goals : RequestOK(g)' /\ GoalOK(g)'
    BY <1>0, <1>a, <2>2
  <2> QED
    BY <2>1, <2>3, <2>4
<1>b. [status EXCEPT ![t] = status[t]] = status
  OBVIOUS
<1>5. ASSUME NEW success \in BOOLEAN, LoopReturns(t, success) PROVE Inv'
  <2>1. Ends(IF status[t] \in Terminal THEN status[t]
             ELSE IF success THEN "SUCCEEDED" ELSE "ABORTED")
    BY <1>0, <1>5, <1>b DEF LoopReturns
  <2> QED
    BY <1>0, <1>a, <2>1
<1>6. CASE CancelNormal(t)
  <2>1. Ends(IF status[t] = "CANCELING" THEN "CANCELED" ELSE status[t])
    BY <1>0, <1>6 DEF CancelNormal
  <2> QED
    BY <1>0, <1>a, <2>1
<1>7. CASE CancelForever(t)
  <2>1. Ends(IF status[t] = "CANCELING" THEN "CANCELED"
             ELSE IF status[t] \in Terminal THEN status[t] ELSE "ABORTED")
    BY <1>0, <1>7 DEF CancelForever
  <2> QED
    BY <1>0, <1>a, <2>1
<1> QED
  BY <1>1, <1>2, <1>3, <1>4, <1>5, <1>6, <1>7 DEF ExecutionStep

LEMMA StepInv ==
  ASSUME MaxRequests = 1, Inv, [ServerNext]_serverVars
  PROVE  Inv'
<1>1. CASE ServerNext
  BY <1>1, RequestInv, CancelInv, ExecutionInv DEF ServerNext
<1>2. CASE UNCHANGED serverVars
  BY <1>2 DEF serverVars, Inv, ServerTypeOK, OneRequest, InRequest, RequestOK, GoalOK
<1> QED
  BY <1>1, <1>2

THEOREM InvHolds == ASSUME MaxRequests = 1 PROVE ServerSafety => []Inv
<1>1. Inv /\ [ServerNext]_serverVars => Inv'
  BY StepInv
<1> QED
  BY <1>1, InitInv, PTL DEF ServerSafety

\* The goals, the threads that handle requests and the tasks that run goals
\* have at every moment one of the values the code gives them.
THEOREM ServerTypeCorrect ==
  ASSUME MaxRequests = 1
  PROVE  ServerSafety => []ServerTypeOK
<1>1. Inv => ServerTypeOK
  BY DEF Inv
<1> QED
  BY <1>1, InvHolds, PTL

\* "This server only allows one goal at a time": while requests are handled one
\* at a time, two goals are never both accepted and not being cancelled.
THEOREM OneGoal ==
  ASSUME MaxRequests = 1
  PROVE  ServerSafety => []OneUncanceledGoal
<1>1. Inv => OneUncanceledGoal
  BY DEF Inv, RequestOK, GoalOK, OneUncanceledGoal
<1> QED
  BY <1>1, InvHolds, PTL

\* While requests are handled one at a time, no handle is worked on by two tasks.
THEOREM OneTask ==
  ASSUME MaxRequests = 1
  PROVE  ServerSafety => []OneTaskPerGoal
<1>1. Inv => OneTaskPerGoal
  BY DEF Inv, GoalOK, OneTaskPerGoal
<1> QED
  BY <1>1, InvHolds, PTL
-----------------------------------------------------------------------------
(* ActionServer implements GoalServer. *)

Promised == [g \in Goals |-> PromisedTo(g)]

\* What the client was promised of a goal is read off its status.
PromisedFacts(g) ==
  /\ status[g] \in Uncanceled => PromisedTo(g) = "EXECUTING"
  /\ status[g] \in {"CANCELING"} \cup Terminal => PromisedTo(g) = status[g]
  /\ status[g] = "unknown" =>
       PromisedTo(g) = IF request[g] = "rejected" THEN "rejected" ELSE "unknown"

LEMMA PromisedIs == Inv => \A g \in Goals : PromisedFacts(g)
  BY DEF Inv, ServerTypeOK, RequestOK, PromisedFacts, PromisedTo

\* A step that changes one goal changes what was promised of that goal alone.
LEMMA OneGoalMoves ==
  ASSUME NEW g \in Goals,
         \A h \in Goals : h # g => status'[h] = status[h] /\ request'[h] = request[h]
  PROVE  Promised' = [Promised EXCEPT ![g] = PromisedTo(g)']
<1>1. \A h \in Goals : h # g => PromisedTo(h)' = PromisedTo(h)
  BY DEF PromisedTo
<1> QED
  BY <1>1 DEF Promised

LEMMA NoGoalMoves ==
  ASSUME NEW g \in Goals,
         \A h \in Goals : h # g => status'[h] = status[h] /\ request'[h] = request[h],
         PromisedTo(g)' = PromisedTo(g)
  PROVE  Promised' = Promised
  BY DEF Promised, PromisedTo

\* The steps on one goal: every one of them is a step of GoalServer, or none.
LEMMA StepKeepsPromise ==
  ASSUME MaxRequests = 1, Inv, Inv', NEW g \in Goals,
         CheckValid(g) \/ RequestStep(g) \/ CancelAccepted(g) \/ CancelRaises(g)
           \/ ExecutionStep(g)
  PROVE  [Abstract!PromiseNext]_Promised
<1> USE DEF Inv, ServerTypeOK, RequestOK, GoalOK
<1>1. PromisedFacts(g) /\ PromisedFacts(g)'
  <2>1. PromisedFacts(g)
    BY PromisedIs
  <2>2. PromisedFacts(g)'
    BY DEF PromisedFacts, PromisedTo
  <2> QED
    BY <2>1, <2>2
<1> USE DEF PromisedFacts
<1>2. CASE \A h \in Goals : status'[h] = status[h] /\ request'[h] = request[h]
  BY <1>2 DEF Promised, PromisedTo
\* A goal is rejected,
<1>3. ASSUME status[g] = "unknown", request[g] # "rejected", request'[g] = "rejected",
             status' = status,
             \A h \in Goals : h # g => request'[h] = request[h]
      PROVE  Abstract!Reject(g)
  BY <1>1, <1>3, OneGoalMoves DEF Abstract!Reject, Abstract!Becomes, Promised
\* ... or its request comes nearer to being answered,
<1>4. ASSUME request[g] # "rejected", request'[g] # "rejected", status' = status,
             \A h \in Goals : h # g => request'[h] = request[h]
      PROVE  Promised' = Promised
  BY <1>1, <1>4, NoGoalMoves
\* ... or it ends.
<1>5. ASSUME NEW st \in Terminal, status'[g] = st, request'[g] # "rejected",
             status[g] \in Uncanceled \cup {"CANCELING"},
             st = "CANCELED" => status[g] = "CANCELING",
             \A h \in Goals : h # g => status'[h] = status[h] /\ request'[h] = request[h]
      PROVE  Abstract!Finish(g, st)
  BY <1>1, <1>5, OneGoalMoves DEF Abstract!Finish, Abstract!Becomes, Promised
<1>6. CASE CheckValid(g)
  BY <1>3, <1>4, <1>6 DEF CheckValid, Abstract!PromiseNext
<1>7. CASE CheckFailure(g)
  BY <1>3, <1>4, <1>7 DEF CheckFailure, Abstract!PromiseNext
<1>8. ASSUME NEW raises \in BOOLEAN, UserRefuses(g, raises) PROVE Abstract!Reject(g)
  BY <1>3, <1>8 DEF UserRefuses
<1>9. CASE UserAccepts(g)
  <2>1. PromisedTo(g) = "unknown" /\ PromisedTo(g)' = "EXECUTING"
    BY <1>1, <1>9 DEF UserAccepts
  <2>2. \A h \in Goals : PromisedTo(h) # "EXECUTING"
    BY <1>9, PromisedIs DEF UserAccepts
  <2>3. Promised' = [Promised EXCEPT ![g] = "EXECUTING"]
    BY <1>9, <2>1, OneGoalMoves DEF UserAccepts
  <2>4. Abstract!Accept(g)
    BY <2>1, <2>2, <2>3 DEF Abstract!Accept, Abstract!Becomes, Promised
  <2> QED
    BY <2>4 DEF Abstract!PromiseNext
<1>10. CASE RegisterGoal(g)
  <2>1. CASE status[g] \in Uncanceled
    BY <1>4, <1>10, <2>1 DEF RegisterGoal
  <2>2. CASE status[g] \notin Uncanceled
    <3>1. Abstract!Finish(g, "ABORTED")
      BY <1>5, <1>10, <2>2 DEF RegisterGoal
    <3> QED
      BY <3>1 DEF Abstract!PromiseNext
  <2> QED
    BY <2>1, <2>2
<1>11. CASE Execute(g)
  <2>1. _base_goal_handle = g /\ request[g] = "registered"
    BY <1>11 DEF Execute
  <2>2. \/ /\ request' = [request EXCEPT ![g] = "done"]
           /\ status' = [status EXCEPT ![g] = IF @ = "ACCEPTED" THEN "EXECUTING" ELSE @]
        \/ request' = [request EXCEPT ![g] = "raised"] /\ status' = status
    BY <1>11, <2>1 DEF Execute
  <2>3. /\ \A h \in Goals : h # g => status'[h] = status[h] /\ request'[h] = request[h]
        /\ request'[g] # "rejected"
        /\ status'[g] = status[g] \/ (status[g] = "ACCEPTED" /\ status'[g] = "EXECUTING")
    BY <2>2
  <2>4. PromisedTo(g)' = PromisedTo(g)
    BY <1>1, <2>1, <2>3
  <2> QED
    BY <2>3, <2>4, NoGoalMoves
<1>12. CASE CancelAccepted(g)
  <2>1. PromisedTo(g) = "EXECUTING" /\ PromisedTo(g)' = "CANCELING"
    BY <1>1, <1>12 DEF CancelAccepted
  <2>2. Promised' = [Promised EXCEPT ![g] = "CANCELING"]
    BY <1>12, <2>1, OneGoalMoves DEF CancelAccepted
  <2>3. Abstract!Cancel(g)
    BY <2>1, <2>2 DEF Abstract!Cancel, Abstract!Becomes, Promised
  <2> QED
    BY <2>3 DEF Abstract!PromiseNext
<1>13. CASE CancelRaises(g)
  BY <1>2, <1>13 DEF CancelRaises
<1>14. CASE ExecutionStep(g)
  <2>1. execution[g] # "none"
    BY <1>14 DEF ExecutionStep, At, Prepare, LoopTest, LoopContinues, LoopRaises, LoopReturns,
           CancelNormal, CancelForever
  <2>2. running[g] = g /\ request[g] = "done" /\ status[g] # "unknown" /\ status[g] \in GoalStatus
    BY <2>1, ServerAssumption
  <2>3. /\ \A h \in Goals : request'[h] = request[h]
        /\ \A h \in Goals : h # g => status'[h] = status[h]
        /\ \/ status'[g] = status[g]
           \/ /\ status'[g] \in Terminal /\ status[g] \notin Terminal
              /\ status'[g] = "CANCELED" => status[g] = "CANCELING"
    BY <1>14, <2>2 DEF ExecutionStep, Prepare, LoopTest, LoopContinues, LoopRaises, LoopReturns,
           CancelNormal, CancelForever
  <2>4. CASE status'[g] = status[g]
    BY <1>2, <2>3, <2>4
  <2>5. CASE status'[g] # status[g]
    <3>1. Abstract!Finish(g, status'[g])
      BY <1>5, <2>2, <2>3, <2>5
    <3> QED
      BY <2>3, <2>5, <3>1 DEF Abstract!PromiseNext
  <2> QED
    BY <2>4, <2>5
<1> QED
  BY <1>6, <1>7, <1>8, <1>9, <1>10, <1>11, <1>12, <1>13, <1>14
  DEF RequestStep, Abstract!PromiseNext

\* Handling one request at a time, the server keeps its promise: every goal is
\* answered once, accepted only while no other is under way uncancelled, and
\* ends once, cancelled only after a cancel request.
THEOREM ServerKeepsPromise ==
  ASSUME MaxRequests = 1
  PROVE  ServerSafety => KeepsPromise
<1>1. ServerInit => Abstract!PromiseInit
  BY DEF ServerInit, Abstract!PromiseInit, PromisedTo
<1>2. Inv /\ Inv' /\ [ServerNext]_serverVars => [Abstract!PromiseNext]_Promised
  <2> SUFFICES ASSUME Inv, Inv', [ServerNext]_serverVars
               PROVE  [Abstract!PromiseNext]_Promised
    OBVIOUS
  <2>1. CASE ServerNext
    BY <2>1, StepKeepsPromise DEF ServerNext
  <2>2. CASE UNCHANGED serverVars
    BY <2>2 DEF serverVars, Promised, PromisedTo
  <2> QED
    BY <2>1, <2>2
<1> QED
  BY <1>1, <1>2, InvHolds, PTL DEF ServerSafety, KeepsPromise, Abstract!Promise, Promised
-----------------------------------------------------------------------------
(* The servers that fly the drone of ALARS. *)

AtHome(g) == {g, NoGoal}

\* The cancel request of a goal is one of a goal that was accepted, and once it
\* was answered the goal has been touched.
CancelOK(g) ==
  /\ cancel[g] # "none" => status[g] # "unknown"
  /\ cancel[g] = "answered" => g \in touched
  /\ status[g] = "unknown" => local[g] = NoGoal

\* An untouched goal is not being cancelled, and runs only while it executes.
UntouchedOK(g) ==
  g \notin touched =>
    /\ status[g] # "CANCELING"
    /\ execution[g] \in InExecution => status[g] = "EXECUTING"

\* What the loop of g may read is its own.
Own(g) ==
  /\ \A t \in Goals : execution[t] \in InExecution => t = g
  /\ aim \in AtHome(g) /\ local[g] \in AtHome(g)
  /\ Is("move_to") => flat \in AtHome(g)
  /\ Is("alars_search") => setpoint \subseteq AtHome(g)
  /\ Is("alars_recover") /\ execution[g] \in {"check", "inner"} =>
       \A i \in 1..Len(_points) : _points[i][1] \in AtHome(g)

OwnOK(g) == g \notin touched /\ status[g] \in Uncanceled => Own(g)

AlarsType ==
  /\ action \in Actions /\ aim \in Targets
  /\ cancel \in [Goals -> {"none", "offered", "answered"}]
  /\ local \in [Goals -> Targets]
  /\ _points \in Seq(Targets \X Nat) /\ _wp_index \in Nat

AlarsInv ==
  /\ AlarsType
  /\ \A g \in Goals : CancelOK(g) /\ UntouchedOK(g) /\ OwnOK(g)
  /\ FliesToNoOthersTarget

USE DEF Terminal, Uncanceled, GoalStatus, InHandling, RequestPc, InExecution, ExecutionPc
-----------------------------------------------------------------------------
(* The callbacks do nothing to the server that a user may not do.          *)

LEMMA LoopIsAStep ==
  ASSUME NEW t \in Goals, Loop(t)
  PROVE  \/ LoopContinues(t) \/ LoopRaises(t)
         \/ \E success \in BOOLEAN : LoopReturns(t, success)
         \/ UNCHANGED serverVars
<1> USE DEF Goes, Loops, Raises, Returns
<1>1. CASE MoveTo(t)
  BY <1>1, Zenon DEF MoveTo, Tells
<1>2. CASE Recover(t)
  BY <1>2, Zenon DEF Recover
<1>3. CASE Search(t)
  BY <1>3, Zenon DEF Search
<1>4. CASE Follow(t)
  BY <1>4, Zenon DEF Follow, Tells
<1> QED
  BY <1>1, <1>2, <1>3, <1>4 DEF Loop

LEMMA StepIsServerStep ==
  ASSUME [AlarsNext]_alarsVars
  PROVE  [ServerNext]_serverVars
<1>1. ASSUME NEW g \in Goals, CheckValid(g) \/ AlarsRequest(g) PROVE ServerNext
  <2>1. UserRefuses(g, TRUE) \/ UserRefuses(g, FALSE) => RequestStep(g)
    BY DEF RequestStep
  <2>2. \A accepted \in BOOLEAN : ReceiveGoal(g, accepted) => RequestStep(g)
    BY <2>1 DEF ReceiveGoal, Is, RequestStep
  <2>3. CheckValid(g) \/ RequestStep(g)
    BY <1>1, <2>1, <2>2 DEF AlarsRequest, RequestStep
  <2> QED
    BY <2>3 DEF ServerNext
<1>2. ASSUME NEW g \in Goals, CancelOffered(g) \/ ReceiveCancel(g) \/ CancelAnswered(g)
      PROVE  [ServerNext]_serverVars
  BY <1>2 DEF CancelOffered, ReceiveCancel, CancelAnswered, ServerNext
<1>3. ASSUME NEW g \in Goals, AlarsTask(g) PROVE [ServerNext]_serverVars
  BY <1>3, LoopIsAStep DEF AlarsTask, PrepareAction, ServerNext, ExecutionStep
<1>4. CASE UNCHANGED alarsVars
  BY <1>4 DEF alarsVars
<1> QED
  BY <1>1, <1>2, <1>3, <1>4 DEF AlarsNext

\* With the callbacks of ALARS the server is an ActionServer: what is proved of
\* that server for any user holds of these four.
THEOREM AlarsIsActionServer == AlarsSafety => ServerSafety
<1>1. AlarsInit => ServerInit
  BY DEF AlarsInit
<1>2. [AlarsNext]_alarsVars => [ServerNext]_serverVars
  BY StepIsServerStep
<1> QED
  BY <1>1, <1>2, PTL DEF AlarsSafety, ServerSafety
-----------------------------------------------------------------------------
(* AlarsInv is inductive, next to the Inv of the server.                   *)

LEMMA AlarsInitInv == AlarsInit => AlarsInv
<1> SUFFICES ASSUME AlarsInit PROVE AlarsInv
  OBVIOUS
<1>1. AlarsType
  BY DEF AlarsInit, AlarsType, Targets
<1>2. \A g \in Goals : CancelOK(g) /\ UntouchedOK(g) /\ OwnOK(g)
  BY DEF AlarsInit, ServerInit, CancelOK, UntouchedOK, OwnOK
<1>3. FliesToNoOthersTarget
  BY DEF AlarsInit, FliesToNoOthersTarget
<1> QED
  BY <1>1, <1>2, <1>3 DEF AlarsInv

\* A step of the server that starts no task: a goal that is uncancelled after
\* it was before it, and a task that is in execution was.
Quiet ==
  /\ \A g \in Goals :
       /\ status'[g] = status[g] \/ (status'[g] \in Terminal /\ status[g] # "unknown")
       /\ execution'[g] \in InExecution => execution[g] \in InExecution
       /\ status'[g] # status[g] /\ g \notin touched => execution'[g] \notin InExecution

\* ... nor sets one on to its loop.
Still ==
  \A g \in Goals : execution'[g] \in {"check", "inner"} => execution[g] \in {"check", "inner"}

LEMMA QuietKeepsInv ==
  ASSUME AlarsInv, Quiet, Still, UNCHANGED userVars
  PROVE  AlarsInv'
<1> USE DEF userVars, attributes, histories
<1>1. AlarsType'
  BY DEF AlarsInv, AlarsType
<1>2. ASSUME NEW g \in Goals PROVE CancelOK(g)' /\ UntouchedOK(g)'
  BY DEF AlarsInv, Quiet, CancelOK, UntouchedOK
<1>3. ASSUME NEW g \in Goals PROVE OwnOK(g)'
  BY DEF AlarsInv, Quiet, Still, OwnOK, Own, AtHome, Is
<1>4. FliesToNoOthersTarget'
  BY DEF AlarsInv, FliesToNoOthersTarget
<1> QED
  BY <1>1, <1>2, <1>3, <1>4 DEF AlarsInv

LEMMA CheckKeepsInv ==
  ASSUME Inv, AlarsInv, NEW g \in Goals,
         CheckValid(g) \/ CheckFailure(g) \/ UserRefuses(g, TRUE) \/ RegisterGoal(g),
         UNCHANGED userVars
  PROVE  AlarsInv'
<1>1. Quiet
  BY DEF CheckValid, CheckFailure, UserRefuses, RegisterGoal, Quiet, Inv, ServerTypeOK, RequestOK,
         GoalOK, AlarsInv, UntouchedOK
<1>2. Still
  BY DEF CheckValid, CheckFailure, UserRefuses, RegisterGoal, Still
<1> QED
  BY <1>1, <1>2, QuietKeepsInv

LEMMA ExecuteKeepsInv ==
  ASSUME Inv, AlarsInv, NEW g \in Goals, Execute(g), UNCHANGED userVars
  PROVE  AlarsInv'
<1> USE DEF userVars, attributes, histories
<1>1. _base_goal_handle = g /\ request[g] = "registered" /\ g \in InRequest
  BY DEF Execute, Inv, RequestOK, InRequest
<1>2. \A h \in Goals : h # g => status'[h] = status[h] /\ execution'[h] = execution[h]
  BY <1>1 DEF Execute, Inv, ServerTypeOK
<1>3. \/ status'[g] = status[g] /\ execution'[g] = execution[g]
      \/ status[g] = "ACCEPTED" /\ status'[g] = "EXECUTING" /\ execution'[g] = "prepare"
      \/ status[g] = "CANCELING" /\ status'[g] = "CANCELING" /\ execution'[g] = "prepare"
  BY <1>1 DEF Execute, Inv, ServerTypeOK
\* Another goal is not uncancelled: it would be the base goal, or in a request.
<1>4. \A h \in Goals : status[h] \in Uncanceled => h = g
  BY <1>1 DEF Inv, GoalOK, OneRequest, InRequest
<1>5. AlarsType' /\ FliesToNoOthersTarget'
  BY DEF AlarsInv, AlarsType, FliesToNoOthersTarget
<1>6. ASSUME NEW h \in Goals PROVE CancelOK(h)' /\ UntouchedOK(h)'
  BY <1>2, <1>3 DEF AlarsInv, CancelOK, UntouchedOK
<1>7. ASSUME NEW h \in Goals PROVE OwnOK(h)'
  BY <1>2, <1>3, <1>4 DEF AlarsInv, OwnOK, Own, AtHome, Is
<1> QED
  BY <1>5, <1>6, <1>7 DEF AlarsInv

\* A goal arrives while no other is uncancelled.
LEMMA ReceiveKeepsInv ==
  ASSUME Inv, AlarsInv, NEW g \in Goals, NEW accepted \in BOOLEAN, ReceiveGoal(g, accepted)
  PROVE  AlarsInv'
<1>1. request[g] = "asking" /\ status[g] = "unknown" /\ execution[g] = "none"
  BY ServerAssumption DEF ReceiveGoal, UserAccepts, UserRefuses, Inv, ServerTypeOK, RequestOK, GoalOK
<1>2. \A h \in Goals : status[h] \notin Uncanceled
  BY <1>1 DEF Inv, RequestOK
<1>3. status' = (IF accepted THEN [status EXCEPT ![g] = "ACCEPTED"] ELSE status)
      /\ execution' = execution
  BY DEF ReceiveGoal, UserAccepts, UserRefuses
<1>4. UNCHANGED <<action, cancel, local, _points, _wp_index, flown>>
  BY DEF ReceiveGoal
<1>5. touched' = IF InFlight = {} THEN touched ELSE touched \cup {g}
  BY DEF ReceiveGoal
<1>6. aim' \in Targets /\ (accepted => aim' \in AtHome(g))
      /\ (accepted /\ Is("move_to") => flat' \in AtHome(g))
  <2>1. PICK written \in Written(g, accepted) : aim' = written[1] /\ flat' = written[2]
    BY DEF ReceiveGoal
  <2>2. aim \in Targets /\ g \in Targets /\ NoGoal \in Targets /\ action \in Actions
    BY DEF AlarsInv, AlarsType, Targets
  <2>3. CASE action = "move_to"
    <3>1. Written(g, accepted) = MoveToWrites(g, accepted)
      BY <2>3, Zenon DEF Written, Is
    <3> QED
      BY <2>1, <2>2, <3>1 DEF MoveToWrites, AtHome
  <2>4. CASE action = "alars_recover"
    <3>1. Written(g, accepted) = RecoverWrites(g, accepted)
      BY <2>4 DEF Written, Is
    <3> QED
      BY <2>1, <2>2, <2>4, <3>1 DEF RecoverWrites, AtHome, Is
  <2>5. CASE action = "alars_search"
    <3>1. Written(g, accepted) = SearchWrites(g, accepted)
      BY <2>5 DEF Written, Is
    <3> QED
      BY <2>1, <2>2, <2>5, <3>1 DEF SearchWrites, AtHome, Is
  <2>6. CASE action = "alars_follow_auv"
    <3>1. Written(g, accepted) = FollowWrites(g, accepted)
      BY <2>6 DEF Written, Is
    <3> QED
      BY <2>1, <2>2, <2>6, <3>1 DEF FollowWrites, AtHome, Is
  <2> QED
    BY <2>2, <2>3, <2>4, <2>5, <2>6 DEF Actions
<1>7. Is("alars_search") => setpoint' = {}
  BY DEF ReceiveGoal, Is
<1>8. AlarsType'
  BY <1>4, <1>6 DEF AlarsInv, AlarsType
<1>9. FliesToNoOthersTarget'
  BY <1>4, <1>5 DEF AlarsInv, FliesToNoOthersTarget
<1>10. ASSUME NEW h \in Goals PROVE CancelOK(h)' /\ UntouchedOK(h)'
  BY <1>1, <1>3, <1>4, <1>5 DEF AlarsInv, CancelOK, UntouchedOK, Inv, ServerTypeOK
<1>11. ASSUME NEW h \in Goals PROVE OwnOK(h)'
  <2> SUFFICES ASSUME h \notin touched', status'[h] \in Uncanceled PROVE Own(h)'
    BY DEF OwnOK
  <2>1. h = g /\ accepted
    BY <1>2, <1>3 DEF Inv, ServerTypeOK
  <2>2. InFlight = {}
    BY <1>5, <2>1
  <2>3. \A t \in Goals : execution'[t] \notin InExecution
    BY <1>3, <2>2 DEF InFlight
  <2>4. local'[g] = NoGoal
    BY <1>1, <1>4 DEF AlarsInv, CancelOK
  <2>5. action' = action /\ execution'[g] = "none"
    BY <1>1, <1>3, <1>4
  <2> QED
    BY <1>6, <1>7, <2>1, <2>3, <2>4, <2>5 DEF Own, AtHome, Is
<1> QED
  BY <1>8, <1>9, <1>10, <1>11 DEF AlarsInv

LEMMA CancelKeepsInv ==
  ASSUME Inv, AlarsInv, NEW g \in Goals,
         CancelOffered(g) \/ ReceiveCancel(g) \/ CancelAnswered(g)
  PROVE  AlarsInv'
<1> USE DEF attributes, histories
<1>1. CASE CancelOffered(g)
  <2> USE <1>1 DEF CancelOffered
  <2>1. AlarsType' /\ FliesToNoOthersTarget'
    BY DEF AlarsInv, AlarsType, FliesToNoOthersTarget
  <2>2. ASSUME NEW h \in Goals PROVE CancelOK(h)' /\ UntouchedOK(h)'
    BY DEF AlarsInv, AlarsType, CancelOK, UntouchedOK, serverVars
  <2>3. ASSUME NEW h \in Goals PROVE OwnOK(h)'
    BY DEF AlarsInv, OwnOK, Own, AtHome, Is, serverVars
  <2> QED
    BY <2>1, <2>2, <2>3 DEF AlarsInv
<1>2. CASE ReceiveCancel(g)
  <2>1. /\ cancel[g] = "offered" /\ cancel' = [cancel EXCEPT ![g] = "answered"]
        /\ aim' \in {aim, NoGoal} /\ _points' = <<>> /\ _wp_index' = 0
        /\ touched' = touched \cup {h \in Goals : status[h] # "unknown"}
        /\ UNCHANGED <<status, execution, action, local, flown>>
    BY <1>2 DEF ReceiveCancel, serverVars
  <2>2. AlarsType' /\ FliesToNoOthersTarget'
    BY <2>1 DEF AlarsInv, AlarsType, FliesToNoOthersTarget, Targets
  <2>3. ASSUME NEW h \in Goals PROVE CancelOK(h)' /\ UntouchedOK(h)' /\ OwnOK(h)'
    BY <2>1 DEF AlarsInv, AlarsType, CancelOK, UntouchedOK, OwnOK
  <2> QED
    BY <2>2, <2>3 DEF AlarsInv
<1>3. CASE CancelAnswered(g)
  <2>1. /\ g \in touched /\ cancel' = [cancel EXCEPT ![g] = "none"]
        /\ status' = status \/ status' = [status EXCEPT ![g] = "CANCELING"]
        /\ status[g] # "unknown" /\ execution' = execution
        /\ UNCHANGED <<action, local, aim, flat, known, setpoint, _points, _wp_index, flown, touched>>
    BY <1>3 DEF CancelAnswered, CancelAccepted, serverVars, AlarsInv, CancelOK
  <2>2. AlarsType' /\ FliesToNoOthersTarget'
    BY <2>1 DEF AlarsInv, AlarsType, FliesToNoOthersTarget
  <2>3. ASSUME NEW h \in Goals PROVE CancelOK(h)' /\ UntouchedOK(h)'
    BY <2>1 DEF AlarsInv, AlarsType, CancelOK, UntouchedOK, Inv, ServerTypeOK
  <2>4. ASSUME NEW h \in Goals PROVE OwnOK(h)'
    BY <2>1 DEF AlarsInv, OwnOK, Own, AtHome, Is, Inv, ServerTypeOK
  <2> QED
    BY <2>2, <2>3, <2>4 DEF AlarsInv
<1> QED
  BY <1>1, <1>2, <1>3
-----------------------------------------------------------------------------
(* The tasks.                                                              *)

LEMMA TaskIsOwn ==
  ASSUME Inv, NEW t \in Goals, execution[t] \in InExecution
  PROVE  running[t] = t /\ status[t] \in GoalStatus /\ status[t] # "unknown"
  BY ServerAssumption DEF Inv, ServerTypeOK, RequestOK, GoalOK

LEMMA PrepareKeepsInv ==
  ASSUME Inv, AlarsInv, NEW t \in Goals, PrepareAction(t)
  PROVE  AlarsInv'
<1> USE DEF attributes, histories
<1>1. /\ status' = status /\ execution[t] = "prepare"
      /\ execution' = [execution EXCEPT ![t] = "check"]
      /\ UNCHANGED <<action, cancel, local, aim, flat, setpoint, flown, touched>>
  BY DEF PrepareAction, Prepare, At, Goto
<1>2. IF Is("alars_recover") THEN _points' = Course(aim) /\ _wp_index' = 0
                             ELSE UNCHANGED <<_points, _wp_index>>
  BY DEF PrepareAction, PrepareRecovery
<1>3. /\ Course(aim) \in Seq(Targets \X Nat)
      /\ \A i \in 1..Len(Course(aim)) : Course(aim)[i][1] = aim
  <2>1. aim \in Targets /\ Points \in Nat
    BY PointsAssumption DEF AlarsInv, AlarsType
  <2>2. \A i \in 1..Points : <<aim, i>> \in Targets \X Nat
    BY <2>1
  <2>3. Course(aim) \in [1..Points -> Targets \X Nat]
    BY <2>2 DEF Course
  <2>4. Course(aim) \in Seq(Targets \X Nat) /\ Len(Course(aim)) = Points
    BY <2>1, <2>3
  <2> QED
    BY <2>4 DEF Course
<1>4. AlarsType' /\ FliesToNoOthersTarget'
  BY <1>1, <1>2, <1>3 DEF AlarsInv, AlarsType, FliesToNoOthersTarget
<1>5. ASSUME NEW g \in Goals PROVE CancelOK(g)' /\ UntouchedOK(g)'
  BY <1>1 DEF AlarsInv, CancelOK, UntouchedOK, Inv, ServerTypeOK
<1>6. ASSUME NEW g \in Goals PROVE OwnOK(g)'
  <2> SUFFICES ASSUME g \notin touched, status[g] \in Uncanceled PROVE Own(g)'
    BY <1>1 DEF OwnOK
  <2>1. Own(g) /\ t = g
    BY <1>1 DEF AlarsInv, OwnOK, Own
  <2>2. Is("alars_recover") => \A i \in 1..Len(_points') : _points'[i][1] \in AtHome(g)
    BY <1>2, <1>3, <2>1 DEF Own
  <2> QED
    BY <1>1, <2>1, <2>2 DEF Own, AtHome, Is, Inv, ServerTypeOK
<1> QED
  BY <1>4, <1>5, <1>6 DEF AlarsInv

LEMMA TaskIsQuiet ==
  ASSUME Inv, AlarsInv, NEW t \in Goals,
         \/ LoopTest(t) \/ LoopContinues(t) \/ LoopRaises(t)
         \/ \E success \in BOOLEAN : LoopReturns(t, success)
         \/ CancelNormal(t) \/ CancelForever(t)
  PROVE  Quiet /\ Still
<1> USE DEF At, Goto
<1>1. execution[t] \in InExecution
  BY DEF LoopTest, LoopContinues, LoopRaises, LoopReturns, CancelNormal, CancelForever
<1>2. /\ running[t] = t /\ status[t] \in GoalStatus /\ status[t] # "unknown"
      /\ status \in [Goals -> GoalStatus] /\ execution \in [Goals -> ExecutionPc]
  BY <1>1, TaskIsOwn DEF Inv, ServerTypeOK
<1>3. CASE LoopTest(t) \/ LoopContinues(t) \/ LoopRaises(t)
  BY <1>1, <1>2, <1>3 DEF LoopTest, LoopContinues, LoopRaises, Quiet, Still
<1>4. ASSUME NEW success \in BOOLEAN, LoopReturns(t, success) PROVE Quiet /\ Still
  BY <1>1, <1>2, <1>4 DEF LoopReturns, Quiet, Still
<1>5. CASE CancelNormal(t) \/ CancelForever(t)
  BY <1>1, <1>2, <1>5 DEF CancelNormal, CancelForever, Quiet, Still
<1> QED
  BY <1>3, <1>4, <1>5

\* What a loop may do to what the others read, and where it may fly: to what it
\* has read itself.
Reads(t) ==
  {aim, local[t]}
    \cup (IF Is("move_to") THEN {flat} ELSE {})
    \cup (IF Is("alars_search") THEN setpoint ELSE {})
    \cup (IF Is("alars_recover") /\ execution[t] = "inner"
           THEN {_points[i][1] : i \in 1..Len(_points)} ELSE {})

LoopEffect(t) ==
  /\ UNCHANGED <<action, cancel, touched, aim, _points>>
  /\ _wp_index' \in Nat
  /\ local' = local \/ local' = [local EXCEPT ![t] = aim]
  /\ flat' \in {flat, NoGoal, local[t]}
  /\ setpoint' \subseteq setpoint \cup {local[t]}
  /\ flown' = flown \/ \E target \in Reads(t) : FliesTo(t, target)

LEMMA LoopHasEffect ==
  ASSUME Inv, AlarsInv, NEW t \in Goals, Loop(t)
  PROVE  LoopEffect(t) /\ execution[t] = "inner"
<1> USE DEF attributes, Stands, At
<1>1. _wp_index \in Nat /\ Len(_points) \in Nat /\ UNCHANGED <<action, cancel, touched>>
  BY DEF Loop, AlarsInv, AlarsType
<1>2. CASE Is("move_to") /\ MoveTo(t)
  <2>1. flat \in Reads(t)
    BY <1>2 DEF Reads
  <2> QED
    BY <1>1, <1>2, <2>1 DEF MoveTo, Tells, LoopEffect
<1>3. CASE Is("alars_recover") /\ Recover(t)
  <2>1. execution[t] = "inner"
    BY <1>3 DEF Recover
  <2>2. _wp_index < Len(_points) => _points[_wp_index + 1][1] \in Reads(t)
    BY <1>1, <1>3, <2>1 DEF Reads
  <2>3. \/ flown' = flown /\ (_wp_index' = _wp_index \/ _wp_index' = _wp_index + 1)
        \/ /\ _wp_index < Len(_points) /\ _wp_index' = _wp_index
           /\ FliesTo(t, _points[_wp_index + 1][1])
    BY <1>3, Zenon DEF Recover
  <2>4. UNCHANGED <<local, aim, flat, known, setpoint, _points>>
    BY <1>3 DEF Recover
  <2> QED
    BY <1>1, <2>1, <2>2, <2>3, <2>4 DEF LoopEffect
<1>4. CASE Is("alars_search") /\ Search(t)
  <2>1. local[t] \in Reads(t) /\ setpoint \subseteq Reads(t)
    BY <1>4 DEF Reads
  <2> QED
    BY <1>1, <1>4, <2>1 DEF Search, LoopEffect
<1>5. CASE Is("alars_follow_auv") /\ Follow(t)
  <2>1. aim \in Reads(t)
    BY DEF Reads
  <2> QED
    BY <1>1, <1>5, <2>1 DEF Follow, Tells, LoopEffect
<1> QED
  BY <1>2, <1>3, <1>4, <1>5 DEF Loop

LEMMA LoopKeepsInv ==
  ASSUME Inv, AlarsInv, NEW t \in Goals, Loop(t)
  PROVE  AlarsInv'
<1>1. LoopEffect(t) /\ execution[t] = "inner"
  BY LoopHasEffect
<1>2. Quiet /\ Still
  <2>1. CASE UNCHANGED serverVars
    BY <2>1 DEF serverVars, Quiet, Still
  <2> QED
    BY <2>1, LoopIsAStep, TaskIsQuiet
<1>3. running[t] = t
  BY <1>1, TaskIsOwn
\* While t is untouched it is uncancelled; and what it reads is then its own.
<1>4. t \notin touched => Own(t)
  BY <1>1 DEF AlarsInv, UntouchedOK, OwnOK
<1>5. t \notin touched => Reads(t) \subseteq AtHome(t)
  BY <1>1, <1>4 DEF Own, Reads
<1>6. AlarsType'
  BY <1>1 DEF LoopEffect, AlarsInv, AlarsType
<1>7. FliesToNoOthersTarget'
  <2>1. CASE flown' = flown
    BY <1>1, <2>1 DEF LoopEffect, AlarsInv, FliesToNoOthersTarget
  <2>2. ASSUME NEW target \in Reads(t), FliesTo(t, target) PROVE FliesToNoOthersTarget'
    BY <1>1, <1>3, <1>5, <2>2 DEF LoopEffect, FliesTo, AtHome, FliesToNoOthersTarget
  <2> QED
    BY <1>1, <2>1, <2>2 DEF LoopEffect
<1>8. ASSUME NEW g \in Goals PROVE CancelOK(g)' /\ UntouchedOK(g)'
  <2>1. status[t] # "unknown"
    BY <1>1, TaskIsOwn
  <2> QED
    BY <1>1, <1>2, <2>1 DEF LoopEffect, Quiet, AlarsInv, AlarsType, CancelOK, UntouchedOK
<1>9. ASSUME NEW g \in Goals PROVE OwnOK(g)'
  <2> SUFFICES ASSUME g \notin touched, status'[g] \in Uncanceled PROVE Own(g)'
    BY <1>1 DEF LoopEffect, OwnOK
  <2>1. Own(g) /\ t = g
    BY <1>1, <1>2 DEF Quiet, AlarsInv, OwnOK, Own
  <2>2. local[t] \in AtHome(g) /\ local'[g] \in AtHome(g) /\ aim' \in AtHome(g)
    BY <1>1, <2>1 DEF LoopEffect, Own, AlarsInv, AlarsType
  <2>3. \A h \in Goals : execution'[h] \in InExecution => h = g
    BY <1>2, <2>1 DEF Quiet, Own
  <2>4. Is("move_to") => flat' \in AtHome(g)
    BY <1>1, <2>1, <2>2 DEF LoopEffect, Own, AtHome
  <2>5. Is("alars_search") => setpoint' \subseteq AtHome(g)
    BY <1>1, <2>1, <2>2 DEF LoopEffect, Own
  <2> QED
    BY <1>1, <2>1, <2>2, <2>3, <2>4, <2>5 DEF LoopEffect, Own, AtHome, Is
<1> QED
  BY <1>6, <1>7, <1>8, <1>9 DEF AlarsInv

LEMMA AlarsStepInv ==
  ASSUME Inv, AlarsInv, [AlarsNext]_alarsVars
  PROVE  AlarsInv'
<1>1. ASSUME NEW g \in Goals, CheckValid(g) /\ UNCHANGED userVars PROVE AlarsInv'
  BY <1>1, CheckKeepsInv
<1>2. ASSUME NEW g \in Goals, AlarsRequest(g) PROVE AlarsInv'
  BY <1>2, CheckKeepsInv, ExecuteKeepsInv, ReceiveKeepsInv DEF AlarsRequest
<1>3. ASSUME NEW g \in Goals, AlarsTask(g) PROVE AlarsInv'
  <2>1. CASE PrepareAction(g)
    BY <2>1, PrepareKeepsInv
  <2>2. CASE Loop(g)
    BY <2>2, LoopKeepsInv
  <2>3. CASE (LoopTest(g) \/ CancelNormal(g) \/ CancelForever(g)) /\ UNCHANGED userVars
    BY <2>3, TaskIsQuiet, QuietKeepsInv
  <2> QED
    BY <1>3, <2>1, <2>2, <2>3 DEF AlarsTask
<1>4. ASSUME NEW g \in Goals, CancelOffered(g) \/ ReceiveCancel(g) \/ CancelAnswered(g)
      PROVE  AlarsInv'
  BY <1>4, CancelKeepsInv
<1>5. CASE UNCHANGED alarsVars
  <2>1. Quiet /\ Still /\ UNCHANGED userVars
    BY <1>5 DEF alarsVars, serverVars, Quiet, Still
  <2> QED
    BY <2>1, QuietKeepsInv
<1> QED
  BY <1>1, <1>2, <1>3, <1>4, <1>5 DEF AlarsNext

\* While requests are handled one at a time, no loop of ALARS flies to the target
\* of another goal, unless a cancellation or the goal before has overlapped it.
THEOREM AlarsFliesToItsTarget ==
  ASSUME MaxRequests = 1
  PROVE  AlarsSafety => []FliesToNoOthersTarget
<1>1. AlarsSafety => []Inv
  BY AlarsIsActionServer, InvHolds, PTL
<1>2. Inv /\ AlarsInv /\ [AlarsNext]_alarsVars => AlarsInv'
  BY AlarsStepInv
<1>3. AlarsInv => FliesToNoOthersTarget
  BY DEF AlarsInv
<1> QED
  BY <1>1, <1>2, <1>3, AlarsInitInv, PTL DEF AlarsSafety
-----------------------------------------------------------------------------
(* Success is arrival.                                                     *)

\* An untouched goal that is under way: the attributes are its own, and so many
\* points have been reached as the index of the recovery says.
OnCourse(g) ==
  /\ action \in {"move_to", "alars_recover"} =>
       /\ aim = g
       /\ execution[g] \in {"none", "prepare"} => reached[g] = 0
  /\ Is("move_to") => reached[g] = 0
  /\ Is("alars_recover") /\ execution[g] \in {"check", "inner"} =>
       _points = Course(g) /\ _wp_index = reached[g] /\ _wp_index <= Points

Arrived(g) ==
  /\ Is("move_to") => reached[g] = 1
  /\ Is("alars_recover") => reached[g] = Points

ArrivalOK(g) ==
  /\ status[g] = "unknown" => reached[g] = 0
  /\ g \notin touched /\ status[g] \in Uncanceled => OnCourse(g)
  /\ g \notin touched /\ status[g] = "SUCCEEDED" => Arrived(g)

ArrivalInv ==
  /\ reached \in [Goals -> Nat]
  /\ \A g \in Goals : ArrivalOK(g)

\* A step that reaches nothing and ends no goal in success, and sets no task on
\* to its loop; the attributes are reset only of goals that this touches.
Dull ==
  /\ \A g \in Goals :
       /\ status'[g] = "unknown" => status[g] = "unknown"
       /\ status'[g] \in Uncanceled => status[g] \in Uncanceled
       /\ status'[g] = "SUCCEEDED" => status[g] = "SUCCEEDED"
       /\ execution'[g] \in {"none", "prepare"} => execution[g] \in {"none", "prepare"}
       /\ execution'[g] \in {"check", "inner"} => execution[g] \in {"check", "inner"}
  /\ touched \subseteq touched'
  /\ UNCHANGED <<action, reached>>
  /\ \/ UNCHANGED <<aim, _points, _wp_index>>
     \/ \A g \in Goals : g \in touched' \/ status[g] = "unknown"

LEMMA DullKeepsArrival ==
  ASSUME ArrivalInv, Dull
  PROVE  ArrivalInv'
<1>1. ASSUME NEW g \in Goals PROVE ArrivalOK(g)'
  <2>1. status'[g] = "unknown" => reached'[g] = 0
    BY DEF ArrivalInv, ArrivalOK, Dull
  <2>2. g \notin touched' /\ status'[g] = "SUCCEEDED" => Arrived(g)'
    BY DEF ArrivalInv, ArrivalOK, Dull, Arrived, Is
  <2>3. g \notin touched' /\ status'[g] \in Uncanceled => OnCourse(g)'
    BY DEF ArrivalInv, ArrivalOK, Dull, OnCourse, Is, Course
  <2> QED
    BY <2>1, <2>2, <2>3 DEF ArrivalOK
<1> QED
  BY <1>1 DEF ArrivalInv, Dull

LEMMA ServerIsDull ==
  ASSUME Inv, NEW g \in Goals, UNCHANGED userVars,
         \/ CheckValid(g) \/ CheckFailure(g) \/ UserRefuses(g, TRUE) \/ RegisterGoal(g) \/ Execute(g)
         \/ LoopTest(g) \/ CancelNormal(g) \/ CancelForever(g)
  PROVE  Dull
<1> USE DEF userVars, attributes, histories, At, Goto, Inv, ServerTypeOK, Dull
<1>1. CASE CheckValid(g) \/ CheckFailure(g) \/ UserRefuses(g, TRUE)
  BY <1>1 DEF CheckValid, CheckFailure, UserRefuses
<1>2. CASE RegisterGoal(g)
  BY <1>2 DEF RegisterGoal, RequestOK
<1>3. CASE Execute(g)
  <2>1. _base_goal_handle = g /\ request[g] = "registered"
    BY <1>3 DEF Execute, RequestOK
  <2>2. execution[g] = "none"
    BY <2>1, ServerAssumption DEF GoalOK
  <2>3. /\ \A h \in Goals : h # g => status'[h] = status[h] /\ execution'[h] = execution[h]
        /\ status'[g] = status[g] \/ (status[g] = "ACCEPTED" /\ status'[g] = "EXECUTING")
        /\ execution'[g] \in {"none", "prepare"} /\ execution[g] = "none"
    BY <1>3, <2>1, <2>2 DEF Execute
  <2> QED
    BY <2>3
<1>4. CASE LoopTest(g)
  BY <1>4 DEF LoopTest
<1>5. CASE CancelNormal(g) \/ CancelForever(g)
  <2>1. running[g] = g /\ status[g] # "unknown"
    BY <1>5, TaskIsOwn DEF CancelNormal, CancelForever
  <2> QED
    BY <1>5, <2>1 DEF CancelNormal, CancelForever
<1> QED
  BY <1>1, <1>2, <1>3, <1>4, <1>5

LEMMA CancelIsDull ==
  ASSUME Inv, NEW g \in Goals, CancelOffered(g) \/ ReceiveCancel(g) \/ CancelAnswered(g)
  PROVE  Dull
<1> USE DEF attributes, histories, serverVars, Inv, ServerTypeOK, Dull
<1>1. CASE CancelOffered(g)
  BY <1>1 DEF CancelOffered
<1>2. CASE ReceiveCancel(g)
  BY <1>2 DEF ReceiveCancel
<1>3. CASE CancelAnswered(g)
  BY <1>3 DEF CancelAnswered, CancelAccepted
<1> QED
  BY <1>1, <1>2, <1>3

LEMMA ReceiveKeepsArrival ==
  ASSUME Inv, ArrivalInv, NEW g \in Goals, NEW accepted \in BOOLEAN, ReceiveGoal(g, accepted)
  PROVE  ArrivalInv'
<1>1. request[g] = "asking" /\ status[g] = "unknown" /\ execution[g] = "none"
  BY ServerAssumption DEF ReceiveGoal, UserAccepts, UserRefuses, Inv, ServerTypeOK, RequestOK, GoalOK
<1>2. \A h \in Goals : status[h] \notin Uncanceled
  BY <1>1 DEF Inv, RequestOK
<1>3. status' = (IF accepted THEN [status EXCEPT ![g] = "ACCEPTED"] ELSE status)
      /\ execution' = execution
  BY DEF ReceiveGoal, UserAccepts, UserRefuses
<1>4. touched \subseteq touched' /\ UNCHANGED <<action, reached>>
  BY DEF ReceiveGoal
<1>5. accepted /\ action \in {"move_to", "alars_recover"} => aim' = g
  <2>1. PICK written \in Written(g, accepted) : aim' = written[1]
    BY DEF ReceiveGoal
  <2>2. CASE accepted /\ action = "move_to"
    <3>1. Written(g, accepted) = MoveToWrites(g, accepted)
      BY <2>2, Zenon DEF Written, Is
    <3>2. MoveToWrites(g, accepted) = {<<g, g>>}
      BY <2>2, Zenon DEF MoveToWrites
    <3> QED
      BY <2>1, <3>1, <3>2
  <2>3. CASE accepted /\ action = "alars_recover"
    <3>1. Written(g, accepted) = RecoverWrites(g, accepted)
      BY <2>3 DEF Written, Is
    <3>2. RecoverWrites(g, accepted) = {<<g, flat>>}
      BY <2>3 DEF RecoverWrites
    <3> QED
      BY <2>1, <3>1, <3>2
  <2> QED
    BY <2>2, <2>3
<1>6. ASSUME NEW h \in Goals PROVE ArrivalOK(h)'
  <2>1. CASE h = g /\ accepted
    <3>1. status'[h] = "ACCEPTED" /\ reached'[h] = 0 /\ execution'[h] = "none"
      BY <1>1, <1>3, <1>4, <2>1 DEF ArrivalInv, ArrivalOK, Inv, ServerTypeOK
    <3> QED
      BY <1>4, <1>5, <2>1, <3>1 DEF ArrivalOK, OnCourse, Is
  <2>2. CASE ~(h = g /\ accepted)
    BY <1>1, <1>2, <1>3, <1>4, <2>2 DEF ArrivalInv, ArrivalOK, Arrived, Is, Inv, ServerTypeOK
  <2> QED
    BY <2>1, <2>2
<1> QED
  BY <1>4, <1>6 DEF ArrivalInv

LEMMA PrepareKeepsArrival ==
  ASSUME Inv, AlarsInv, ArrivalInv, NEW t \in Goals, PrepareAction(t)
  PROVE  ArrivalInv'
<1>1. /\ status' = status /\ execution[t] = "prepare"
      /\ execution' = [execution EXCEPT ![t] = "check"]
      /\ UNCHANGED <<action, aim, reached, touched>>
  BY DEF PrepareAction, Prepare, At, Goto, attributes, histories
<1>2. Is("alars_recover") => _points' = Course(aim) /\ _wp_index' = 0
  BY DEF PrepareAction, PrepareRecovery
<1>3. ASSUME NEW g \in Goals PROVE ArrivalOK(g)'
  <2>1. CASE g \notin touched /\ status[g] \in Uncanceled
    <3>1. t = g
      BY <1>1, <2>1 DEF AlarsInv, OwnOK, Own
    <3>2. OnCourse(g) /\ execution'[g] = "check"
      BY <1>1, <2>1, <3>1 DEF ArrivalInv, ArrivalOK, Inv, ServerTypeOK
    <3>3. OnCourse(g)'
      BY <1>1, <1>2, <3>1, <3>2, PointsAssumption DEF OnCourse, Is, Course
    <3> QED
      BY <1>1, <2>1, <3>3 DEF ArrivalOK
  <2>2. CASE ~(g \notin touched /\ status[g] \in Uncanceled)
    BY <1>1, <2>2 DEF ArrivalInv, ArrivalOK, Arrived, Is
  <2> QED
    BY <2>1, <2>2
<1> QED
  BY <1>1, <1>3 DEF ArrivalInv

\* What an iteration may come to: with nothing reached and no success; or with a
\* point reached; or with a success, for which there is a reason.
DullStep(t) ==
  /\ \/ LoopContinues(t) \/ LoopRaises(t) \/ LoopReturns(t, FALSE) \/ UNCHANGED serverVars
  /\ UNCHANGED <<reached, _wp_index>>

MoveArrives(t) ==
  /\ LoopReturns(t, TRUE)
  /\ flat # NoGoal /\ Reaches(t, <<flat, 1>>)

RecoveryAdvances(t) ==
  /\ LoopContinues(t)
  /\ _wp_index < Len(_points) /\ _wp_index' = _wp_index + 1
  /\ Reaches(t, _points[_wp_index + 1])

RecoveryArrives(t) ==
  /\ LoopReturns(t, TRUE)
  /\ _wp_index >= Len(_points) /\ UNCHANGED <<reached, _wp_index>>

LEMMA LoopOutcomes ==
  ASSUME NEW t \in Goals, Loop(t)
  PROVE  /\ UNCHANGED <<action, aim, _points, touched>>
         /\ action \in Actions
         /\ Is("move_to") => DullStep(t) \/ MoveArrives(t)
         /\ Is("alars_recover") => DullStep(t) \/ RecoveryAdvances(t) \/ RecoveryArrives(t)
         /\ ~Is("move_to") /\ ~Is("alars_recover") =>
              \/ DullStep(t)
              \/ LoopReturns(t, TRUE) /\ UNCHANGED <<reached, _wp_index>>
<1> USE DEF attributes, Goes, Loops, Raises, Returns
<1>1. UNCHANGED <<action, touched>>
  BY DEF Loop
<1>2. CASE Is("move_to") /\ MoveTo(t)
  <2>1. DullStep(t) \/ MoveArrives(t)
    BY <1>2, Zenon DEF MoveTo, Tells, DullStep, MoveArrives
  <2>2. UNCHANGED <<aim, _points>>
    BY <1>2, Zenon DEF MoveTo, Tells
  <2> QED
    BY <1>1, <1>2, <2>1, <2>2 DEF Is, Actions
<1>3. CASE Is("alars_recover") /\ Recover(t)
  <2>1. DullStep(t) \/ RecoveryAdvances(t) \/ RecoveryArrives(t)
    BY <1>3, Zenon DEF Recover, DullStep, RecoveryAdvances, RecoveryArrives
  <2>2. UNCHANGED <<aim, _points>>
    BY <1>3 DEF Recover
  <2> QED
    BY <1>1, <1>3, <2>1, <2>2 DEF Is, Actions
<1>4. CASE Is("alars_search") /\ Search(t)
  <2>1. DullStep(t) \/ (LoopReturns(t, TRUE) /\ UNCHANGED <<reached, _wp_index>>)
    BY <1>4 DEF Search, DullStep
  <2>2. UNCHANGED <<aim, _points>>
    BY <1>4 DEF Search
  <2> QED
    BY <1>1, <1>4, <2>1, <2>2 DEF Is, Actions
<1>5. CASE Is("alars_follow_auv") /\ Follow(t)
  <2>1. DullStep(t) \/ (LoopReturns(t, TRUE) /\ UNCHANGED <<reached, _wp_index>>)
    BY <1>5 DEF Follow, Tells, DullStep
  <2>2. UNCHANGED <<aim, _points>>
    BY <1>5, Zenon DEF Follow, Tells
  <2> QED
    BY <1>1, <1>5, <2>1, <2>2 DEF Is, Actions
<1> QED
  BY <1>2, <1>3, <1>4, <1>5 DEF Loop

LEMMA LoopKeepsArrival ==
  ASSUME Inv, AlarsInv, ArrivalInv, NEW t \in Goals, Loop(t)
  PROVE  ArrivalInv'
<1>1. UNCHANGED <<action, aim, _points, touched>>
  BY LoopOutcomes
<1>2. execution[t] = "inner" /\ running[t] = t /\ status[t] # "unknown"
  BY LoopHasEffect, TaskIsOwn
<1>3. status \in [Goals -> GoalStatus] /\ execution \in [Goals -> ExecutionPc]
  BY DEF Inv, ServerTypeOK
\* An untouched t is executing, and on its course.
<1>4. t \notin touched => status[t] = "EXECUTING" /\ OnCourse(t)
  BY <1>2 DEF AlarsInv, UntouchedOK, ArrivalInv, ArrivalOK
<1>5. CASE DullStep(t)
  <2>1. Dull
    BY <1>1, <1>2, <1>3, <1>5
    DEF DullStep, LoopContinues, LoopRaises, LoopReturns, At, Goto, serverVars, Dull
  <2> QED
    BY <2>1, DullKeepsArrival
\* The other goals: whatever is said of them, t does not change.
<1>6. ASSUME LoopReturns(t, TRUE) \/ LoopContinues(t),
             \A h \in Goals : h # t => reached'[h] = reached[h],
             NEW g \in Goals, g # t
      PROVE  ArrivalOK(g)'
  <2>1. status'[g] = status[g] /\ execution'[g] = execution[g]
    BY <1>2, <1>6 DEF LoopReturns, LoopContinues, Goto, Inv, ServerTypeOK
  <2>2. ~(g \notin touched /\ status[g] \in Uncanceled)
    BY <1>2, <1>6 DEF AlarsInv, OwnOK, Own
  <2> QED
    BY <1>1, <1>6, <2>1, <2>2 DEF ArrivalInv, ArrivalOK, Arrived, Is
<1>7. CASE Is("move_to") /\ MoveArrives(t)
  <2>1. reached' = [reached EXCEPT ![t] = IF <<flat, 1>> = <<t, @ + 1>> THEN @ + 1 ELSE @]
    BY <1>2, <1>7 DEF MoveArrives, Reaches
  <2>2. reached[t] \in Nat /\ reached' \in [Goals -> Nat]
    BY <2>1 DEF ArrivalInv
  <2>3. status'[t] # "unknown" /\ status'[t] \notin Uncanceled
    BY <1>2, <1>3, <1>7 DEF MoveArrives, LoopReturns
  <2>4. t \notin touched => flat = t /\ reached[t] = 0
    BY <1>2, <1>4, <1>7 DEF MoveArrives, OnCourse, AlarsInv, OwnOK, Own, AtHome
  <2>5. t \notin touched => reached'[t] = 1
    BY <2>1, <2>2, <2>4 DEF ArrivalInv
  <2>6. ArrivalOK(t)'
    BY <1>1, <1>7, <2>3, <2>5 DEF ArrivalOK, Arrived, Is
  <2>7. \A g \in Goals : ArrivalOK(g)'
    BY <1>6, <1>7, <2>1, <2>6 DEF MoveArrives, ArrivalInv
  <2> QED
    BY <2>2, <2>7 DEF ArrivalInv
<1>8. CASE Is("alars_recover") /\ RecoveryAdvances(t)
  <2>1. reached' = [reached EXCEPT ![t] =
                      IF _points[_wp_index + 1] = <<t, @ + 1>> THEN @ + 1 ELSE @]
    BY <1>2, <1>8 DEF RecoveryAdvances, Reaches
  <2>2. reached[t] \in Nat /\ reached' \in [Goals -> Nat]
    BY <2>1 DEF ArrivalInv
  <2>3. status'[t] = status[t] /\ execution'[t] = "check"
    BY <1>3, <1>8 DEF RecoveryAdvances, LoopContinues, Goto
  <2>4. t \notin touched =>
          /\ aim = t /\ _points = Course(t) /\ _wp_index = reached[t]
          /\ _wp_index' = _wp_index + 1 /\ _wp_index + 1 \in 1..Points
    <3>1. Len(Course(t)) = Points
      BY PointsAssumption DEF Course
    <3> QED
      BY <1>2, <1>4, <1>8, <2>2, <3>1, PointsAssumption DEF RecoveryAdvances, OnCourse, Is
  <2>5. t \notin touched => reached'[t] = _wp_index'
    BY <2>1, <2>2, <2>4 DEF Course, ArrivalInv
  <2>6. ArrivalOK(t)'
    BY <1>1, <1>2, <1>4, <1>8, <2>3, <2>4, <2>5, PointsAssumption
    DEF ArrivalOK, OnCourse, Is, Course
  <2>7. \A g \in Goals : ArrivalOK(g)'
    BY <1>6, <1>8, <2>1, <2>6 DEF RecoveryAdvances, ArrivalInv
  <2> QED
    BY <2>2, <2>7 DEF ArrivalInv
<1>9. CASE Is("alars_recover") /\ RecoveryArrives(t)
  <2>1. reached' = reached /\ reached[t] \in Nat
    BY <1>9 DEF RecoveryArrives, ArrivalInv
  <2>2. status'[t] # "unknown" /\ status'[t] \notin Uncanceled
    BY <1>2, <1>3, <1>9 DEF RecoveryArrives, LoopReturns
  <2>3. t \notin touched => reached[t] = Points
    <3>1. Len(Course(t)) = Points
      BY PointsAssumption DEF Course
    <3> QED
      BY <1>2, <1>4, <1>9, <2>1, <3>1, PointsAssumption DEF RecoveryArrives, OnCourse, Is
  <2>4. ArrivalOK(t)'
    BY <1>1, <1>9, <2>1, <2>2, <2>3 DEF ArrivalOK, Arrived, Is
  <2>5. \A g \in Goals : ArrivalOK(g)'
    BY <1>6, <1>9, <2>1, <2>4 DEF RecoveryArrives
  <2> QED
    BY <2>1, <2>5 DEF ArrivalInv
\* A search or a pursuit arrives nowhere.
<1>10. CASE ~Is("move_to") /\ ~Is("alars_recover") /\ LoopReturns(t, TRUE) /\ reached' = reached
  <2>1. status'[t] # "unknown" /\ status'[t] \notin Uncanceled
    BY <1>2, <1>3, <1>10 DEF LoopReturns
  <2>2. ArrivalOK(t)'
    BY <1>1, <1>10, <2>1 DEF ArrivalOK, Arrived, Is
  <2>3. \A g \in Goals : ArrivalOK(g)'
    BY <1>6, <1>10, <2>2
  <2> QED
    BY <1>10, <2>3 DEF ArrivalInv
<1> QED
  BY <1>5, <1>7, <1>8, <1>9, <1>10, LoopOutcomes

LEMMA ArrivalStepInv ==
  ASSUME Inv, AlarsInv, ArrivalInv, [AlarsNext]_alarsVars
  PROVE  ArrivalInv'
<1>1. ASSUME NEW g \in Goals, CheckValid(g) /\ UNCHANGED userVars PROVE ArrivalInv'
  BY <1>1, ServerIsDull, DullKeepsArrival
<1>2. ASSUME NEW g \in Goals, AlarsRequest(g) PROVE ArrivalInv'
  BY <1>2, ServerIsDull, DullKeepsArrival, ReceiveKeepsArrival DEF AlarsRequest
<1>3. ASSUME NEW g \in Goals, AlarsTask(g) PROVE ArrivalInv'
  BY <1>3, ServerIsDull, DullKeepsArrival, PrepareKeepsArrival, LoopKeepsArrival DEF AlarsTask
<1>4. ASSUME NEW g \in Goals, CancelOffered(g) \/ ReceiveCancel(g) \/ CancelAnswered(g)
      PROVE  ArrivalInv'
  BY <1>4, CancelIsDull, DullKeepsArrival
<1>5. CASE UNCHANGED alarsVars
  <2>1. Dull
    BY <1>5 DEF alarsVars, serverVars, userVars, attributes, histories, Dull
  <2> QED
    BY <2>1, DullKeepsArrival
<1> QED
  BY <1>1, <1>2, <1>3, <1>4, <1>5 DEF AlarsNext

\* While requests are handled one at a time, a move_to or a recovery of ALARS that
\* neither a cancellation nor the goal before has overlapped succeeds only when it
\* has reached its point, or all of its points in order.
THEOREM AlarsSuccessIsArrival ==
  ASSUME MaxRequests = 1
  PROVE  AlarsSafety => []SuccessIsArrival
<1>1. AlarsSafety => []Inv
  BY AlarsIsActionServer, InvHolds, PTL
<1>2. Inv /\ AlarsInv /\ [AlarsNext]_alarsVars => AlarsInv'
  BY AlarsStepInv
<1>3. Inv /\ AlarsInv /\ ArrivalInv /\ [AlarsNext]_alarsVars => ArrivalInv'
  BY ArrivalStepInv
<1>4. AlarsInit => ArrivalInv
  BY DEF AlarsInit, ServerInit, ArrivalInv, ArrivalOK, OnCourse
<1>5. ArrivalInv => SuccessIsArrival
  BY DEF ArrivalInv, ArrivalOK, Arrived, SuccessIsArrival
<1> QED
  BY <1>1, <1>2, <1>3, <1>4, <1>5, AlarsInitInv, PTL DEF AlarsSafety
=============================================================================
