---------------------------- MODULE MCActionLink ----------------------------
(* Model checking of ActionLink, with a history of whether anything but the *)
(* server's answers has befallen a leaf so far: it was stopped, dropped by a *)
(* rebuild, or its goal has run out of time.                                 *)
EXTENDS ActionLink

VARIABLE
  disturbed  (* whether it has                                              *)

mcVars == <<linkVars, disturbed>>

Init == LinkInit /\ disturbed = FALSE

Next ==
  \E s \in Servers :
    \/ \E timeout, late \in BOOLEAN :
         /\ Tick(s, timeout, late)
         /\ disturbed' = (disturbed \/ (late /\ EnterLeaf(leaf[s]).timed))
    \/ (Preempt(s) \/ Rebuild(s)) /\ disturbed' = TRUE
    \/ /\ \/ Callback(s) \/ ServerAnswer(s)
          \/ \E g \in Slots : ServerFeedback(s, g) \/ ServerEnds(s, g)
       /\ UNCHANGED disturbed

Spec == Init /\ [][Next]_mcVars /\ LinkFairness /\ LeafFairness
-----------------------------------------------------------------------------
\* A client whose leaf nothing has disturbed keeps hold of its one goal.
UndisturbedNoOrphan == ~disturbed => NoOrphan

\* A leaf that nothing has disturbed succeeds only when its goal is over; after a
\* disturbance the result of an earlier goal may be taken for that of a newer one.
SuccessMeansIdle == [][~disturbed => SucceedsIdle]_mcVars
=============================================================================
