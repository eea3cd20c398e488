------------------------------- MODULE AlarsBT -------------------------------
(***************************************************************************)
(* The mission tree of the drone that recovers an AUV (alars_bt.py):       *)
(* recover it by its buoy, or without one after the buoy was looked for in *)
(* vain; look for the buoy from above ("vulture"); search around the last  *)
(* position; search where the mission says.  Searches and recoveries are   *)
(* tried again as often as the mission allows.                             *)
(*                                                                         *)
(* The estimates of the AUV and of the buoy and the load cell's weight     *)
(* come on other threads, and age: what a condition finds is a choice made *)
(* where it is read.                                                       *)
(***************************************************************************)
EXTENDS PostPreAct

CONSTANTS
  NumRetries,    (* "num-retries" of the goals                             *)
  VultureRanges  (* bound: len(self.VULTURE_RANGES), 4 in the code         *)

ASSUME AlarsAssumption == NumRetries \in Nat /\ VultureRanges \in Nat

VARIABLES
  search_fail_count, recover_fail_count, vulture_timeout_count,
  recovery_success,
  hung          (* history: the load hung on the cell in this mission      *)

countVars == <<search_fail_count, recover_fail_count, vulture_timeout_count>>
alarsVars == <<countVars, recovery_success, hung>>

AlarsTypeOK ==
  /\ search_fail_count \in Nat /\ recover_fail_count \in Nat /\ vulture_timeout_count \in Nat
  /\ recovery_success \in BOOLEAN /\ hung \in BOOLEAN

AlarsInit ==
  /\ search_fail_count = 0 /\ recover_fail_count = 0 /\ vulture_timeout_count = 0
  /\ recovery_success = FALSE /\ hung = FALSE

RecoverBuoy   == "recover_buoy"
RecoverNoBuoy == "recover_no_buoy"
Vulture       == "vulture"
SearchLocal   == "search_local"
SearchGlobal  == "search_global"
AlarsOrder    == <<RecoverBuoy, RecoverNoBuoy, Vulture, SearchLocal, SearchGlobal>>

ASSUME AlarsClients ==
  {RecoverBuoy, RecoverNoBuoy, Vulture, SearchLocal, SearchGlobal} \subseteq Servers

\* Two recoveries share a server, and two searches.
SameServer(s) ==
  CASE s \in {RecoverBuoy, RecoverNoBuoy} -> {RecoverBuoy, RecoverNoBuoy}
    [] s = Vulture                        -> {Vulture}
    [] s \in {SearchLocal, SearchGlobal}  -> {SearchLocal, SearchGlobal}

(* _reset_states, but for the clients. *)
AlarsReset ==
  /\ search_fail_count' = 0 /\ recover_fail_count' = 0 /\ vulture_timeout_count' = 0
  /\ recovery_success' = FALSE

AlarsGoal ==
  \/ (\E valid \in BOOLEAN : ReceiveMission(valid)) /\ AlarsReset /\ UNCHANGED hung
  \/ PrepareMission /\ AlarsReset /\ hung' = FALSE
  \/ ReceiveCancel /\ AlarsReset /\ UNCHANGED hung
  \/ CancelAccepted /\ UNCHANGED alarsVars
-----------------------------------------------------------------------------
\* Mutant: a recovery counts as a success without the load cell.
RecoverStatus_Trusted(s, act) ==
  \/ act = "SUCCESS" /\ recovery_success' = TRUE /\ UNCHANGED <<hung, recover_fail_count>>
  \/ /\ act = "FAILURE"
     /\ recover_fail_count' = recover_fail_count + 1
     /\ UNCHANGED <<recovery_success, hung>>
  \/ act = "RUNNING" /\ UNCHANGED <<recovery_success, hung, recover_fail_count>>

(* FB Recover: check the success of a recovery that is done, and count what *)
(* failed; a failure that was counted is a success of the subtree.         *)
RecoverStatus(s, act) ==
  \/ /\ act = "SUCCESS"
     /\ \E hanging \in BOOLEAN :
          /\ recovery_success' = hanging
          /\ hung' = (hung \/ hanging)
          /\ recover_fail_count' = recover_fail_count + (IF hanging THEN 0 ELSE 1)
  \/ /\ act = "FAILURE"
     /\ recover_fail_count' = recover_fail_count + 1
     /\ UNCHANGED <<recovery_success, hung>>
  \/ act = "RUNNING" /\ UNCHANGED <<recovery_success, hung, recover_fail_count>>

Counted(act) == IF act = "FAILURE" THEN "SUCCESS" ELSE act

VisitRecover(s, enabled) ==
  /\ UNCHANGED <<search_fail_count, vulture_timeout_count>>
  /\ \/ /\ Untried(AlarsOrder, s, "FAILURE")
        /\ UNCHANGED <<recovery_success, recover_fail_count, hung>>
     \/ \E act \in LeafStatus :
          /\ \/ enabled /\ TryAction(AlarsOrder, s, FALSE, act, Counted(act))
             \/ ResumeAction(AlarsOrder, s, act, Counted(act))
          /\ RecoverStatus(s, act)

VisitVulture ==
  /\ UNCHANGED <<search_fail_count, recover_fail_count, recovery_success, hung>>
  /\ \/ PostHolds(AlarsOrder, Vulture) /\ UNCHANGED vulture_timeout_count
     \/ Untried(AlarsOrder, Vulture, "FAILURE") /\ UNCHANGED vulture_timeout_count
     \/ \E act \in LeafStatus :
          /\ \/ /\ vulture_timeout_count < VultureRanges
                /\ TryAction(AlarsOrder, Vulture, FALSE, act, act)
             \/ ResumeAction(AlarsOrder, Vulture, act, act)
          /\ vulture_timeout_count' = vulture_timeout_count + (IF act = "SUCCESS" THEN 1 ELSE 0)

VisitSearch(s, enabled) ==
  /\ UNCHANGED <<recover_fail_count, vulture_timeout_count, recovery_success, hung>>
  /\ \/ PostHolds(AlarsOrder, s) /\ UNCHANGED search_fail_count
     \/ Untried(AlarsOrder, s, "FAILURE") /\ UNCHANGED search_fail_count
     \/ /\ s = SearchLocal /\ enabled
        /\ Untried(AlarsOrder, s, "SUCCESS")
        /\ search_fail_count' = search_fail_count + 1
     \/ \E act \in LeafStatus :
          /\ \/ enabled /\ TryAction(AlarsOrder, s, FALSE, act, Counted(act))
             \/ ResumeAction(AlarsOrder, s, act, Counted(act))
          /\ search_fail_count' = search_fail_count + (IF act = "FAILURE" THEN 1 ELSE 0)

MayRetry(count) == count < NumRetries

(* loop_inner after the tick, its reset included. *)
AfterAlarsTick ==
  \/ recovery_success /\ LoopEnds(TRUE) /\ AlarsReset /\ UNCHANGED hung
  \/ ~recovery_success /\ root_failed /\ LoopEnds(FALSE) /\ AlarsReset /\ UNCHANGED hung
  \/ ~recovery_success /\ ~root_failed /\ LoopGoesOn /\ UNCHANGED alarsVars

AlarsTick ==
  \/ (StartTick(AlarsOrder) \/ LoopCanceled) /\ UNCHANGED alarsVars
  \/ VisitRecover(RecoverBuoy, MayRetry(recover_fail_count))
  \/ VisitRecover(RecoverNoBuoy, /\ MayRetry(recover_fail_count)
                                 /\ vulture_timeout_count >= VultureRanges)
  \/ VisitVulture
  \/ VisitSearch(SearchLocal, MayRetry(search_fail_count))
  \/ VisitSearch(SearchGlobal, MayRetry(search_fail_count))
  \/ AfterAlarsTick

AlarsServers ==
  /\ \E i \in DOMAIN AlarsOrder :
       LET s == AlarsOrder[i] IN
         ServersAnswer(s, \A x \in SameServer(s) : ~Executes(x))
  /\ UNCHANGED alarsVars

AlarsNext == AlarsGoal \/ AlarsTick \/ AlarsServers
-----------------------------------------------------------------------------
(* Properties. *)

\* No mission is reported as a success unless the load hung on the cell during
\* that mission.
SuccessIsMeasured == mission = "succeeded" => hung
=============================================================================
