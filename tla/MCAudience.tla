------------------------------ MODULE MCAudience ------------------------------
(* Accounts are interchangeable, so that it is enough to start with one of   *)
(* them; TLC's symmetry is not sound for a liveness property.                *)
EXTENDS Audience

MCInit == Init /\ owner[Old] = CHOOSE a \in Accounts : TRUE

MCSpec == MCInit /\ [][Next]_vars /\ \A p \in Refreshes : WF_vars(Step(p))

=============================================================================
