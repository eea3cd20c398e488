--------------------------- MODULE MCTaskHandler ---------------------------
(* TLC instances of TaskHandler. *)
EXTENDS TaskHandler

CONSTANTS u1, u2, n1

MCTask(u, n) == [uuid |-> u, name |-> n, status |-> "started", timeout |-> None]

\* A mission of one task.
MCOneTask == {<<MCTask(u1, n1)>>}

MCNoTimeout == {None}
MCOne == {1}
=============================================================================
