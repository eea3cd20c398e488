------------------------------- MODULE MCTuper -------------------------------
(* Model checking of LoLo's TUPER mission: a behaviour is one of the mission *)
(* or of its stop detector.                                                  *)
EXTENDS TuperBT, StopDetector

VARIABLE node  (* which of them it is                                       *)

missionVars == <<linkVars, mission, tuperVars>>
mcVars      == <<missionVars, stopVars, node>>

Init ==
  /\ LinkInit /\ mission = "none" /\ TuperInit /\ StopInit
  /\ node \in {"lolo_tuper", "follower_state"}

Next ==
  /\ \/ node = "lolo_tuper" /\ TuperNext /\ UNCHANGED stopVars
     \/ node = "follower_state" /\ StopNext /\ UNCHANGED missionVars
  /\ UNCHANGED node

(* The loop goes on, time passes, and on_cancel_received returns.           *)
Spec ==
  /\ Init /\ [][Next]_mcVars
  /\ WF_missionVars(TuperLoop) /\ WF_missionVars(Elapse) /\ WF_missionVars(CancelingTuper)
=============================================================================
