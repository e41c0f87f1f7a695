----------------------------- MODULE MCDeleteFlow -----------------------------
(* Two commands at once.  They are interchangeable, so that it is enough to  *)
(* see that one of them ends, whatever the other does, also when it stops.   *)
EXTENDS DeleteFlow

First == CHOOSE p \in Procs : TRUE

MCSpec == Init /\ [][Next]_vars /\ WF_vars(Step(First))

\* Every batch ends, whatever the service answers.
BatchEnds == Ends(First)

=============================================================================
