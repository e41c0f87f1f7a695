------------------------------ MODULE RemoteCall ------------------------------
(***************************************************************************)
(* What a caller of the provider may rely on, whatever the network does:   *)
(* a call has its effect on the service some number of times and returns   *)
(* one result.  `Ok` means that it had it.  A POST has it at most once,    *)
(* and not at all when the service refused it.                             *)
(***************************************************************************)
EXTENDS Naturals

CONSTANTS Methods,    \* of a call
          Results,    \* "Ok" and the errors
          Refused,    \* the errors that say the service did nothing
          Pending     \* not returned yet

VARIABLES method,     \* of this call
          effects,    \* how often the service carried it out
          result

vars == <<method, effects, result>>

Init == method \in Methods /\ effects = 0 /\ result = Pending

Perform ==
  /\ result = Pending
  /\ method = "POST" => effects = 0
  /\ effects' = effects + 1
  /\ UNCHANGED <<method, result>>

Return(r) ==
  /\ result = Pending
  /\ r = "Ok" => effects > 0
  /\ method = "POST" /\ r \in Refused => effects = 0
  /\ result' = r
  /\ UNCHANGED <<method, effects>>

Next == Perform \/ \E r \in Results : Return(r)

Safety == Init /\ [][Next]_vars

\* Every call returns.
Spec == Safety /\ <>(result # Pending)

=============================================================================
