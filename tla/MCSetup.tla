-------------------------------- MODULE MCSetup --------------------------------
(* Process ids are interchangeable, and so are the `init`s: it is enough to  *)
(* give a fixed `init` one fixed id and to have it forced only if all are.   *)
(* TLC's symmetry is not sound for a liveness property.  That id has left a  *)
(* temporary file before, the others none.  A config that is not private     *)
(* stops every command that needs it, whatever it says.                      *)
EXTENDS Setup

FirstInit == CHOOSE p \in Inits : TRUE
FirstPid  == CHOOSE n \in Pids : TRUE

MCInit ==
  /\ Init
  /\ temps = [n \in Names |-> IF n = <<FirstPid, 0>> THEN Torn ELSE NoFile]
  /\ pid[FirstInit] = FirstPid
  /\ force[FirstInit] => \A p \in Inits : force[p]
  /\ config # NoConfig => config.private \/ config.redirect = Pasted

MCSpec ==
  /\ MCInit /\ [][Next]_vars
  /\ \A p \in Inits : WF_vars(InitStep(p))
  /\ \A p \in Logins : WF_vars(LoginStep(p))

=============================================================================
