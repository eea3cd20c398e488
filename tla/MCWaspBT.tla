------------------------------ MODULE MCWaspBT ------------------------------
(* TLC instances of WaspBT. *)
EXTENDS WaspBT

CONSTANTS u1, u2, n1, em

\* A mission of one task, for the one server.
MCOneTask ==
  {<<[uuid |-> u1, name |-> n1, status |-> "started", timeout |-> None]>>}

MCNoMissions == {}
MCNoTimeouts == {}
MCZero == {0}
MCNone == {None}
=============================================================================
