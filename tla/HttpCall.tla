------------------------------- MODULE HttpCall -------------------------------
(***************************************************************************)
(* One call through the provider's HTTP client: transport::execute, with   *)
(* the service and the network as its environment.  The service may carry  *)
(* a request out and still answer 5xx, or its answer may be lost.          *)
(***************************************************************************)
EXTENDS Transport

CONSTANTS RetryAfters,   \* what a Retry-After header may ask for
          Pending

ASSUME HttpCallAssumption ==
  /\ RetryAfters \subseteq Nat
  /\ Pending \notin Results

VARIABLES method,    \* of this call
          pc,        \* "ready", "answered", "waiting", "done"
          attempt,   \* requests sent so far
          delay,     \* delay_ms: the base of the next backoff
          answer,    \* to the last request
          applied,   \* history: how often the service carried the call out
          slept,     \* history: milliseconds spent waiting
          result

vars == <<method, pc, attempt, delay, answer, applied, slept, result>>

-----------------------------------------------------------------------------

Init ==
  /\ method \in Methods
  /\ pc = "ready"
  /\ attempt = 0
  /\ delay = FirstDelay
  /\ answer = "lost"
  /\ applied = 0
  /\ slept = 0
  /\ result = Pending

Exchange(a) ==
  /\ pc = "ready"
  /\ attempt' = attempt + 1
  /\ answer' = a
  /\ \E carried \in Carries(a) : applied' = IF carried THEN applied + 1 ELSE applied
  /\ pc' = "answered"
  /\ UNCHANGED <<method, delay, slept, result>>

\* One more round: sleep for what Retry-After asks, or a jittered backoff.
Wait ==
  /\ pc = "answered"
  /\ Retries(method, attempt, answer)
  /\ \E ms \in Backoffs(delay) \cup {RetryAfter(r) : r \in RetryAfters} :
       slept' = slept + ms
  /\ pc' = "waiting"
  /\ UNCHANGED <<method, attempt, delay, answer, applied, result>>

Wake ==
  /\ pc = "waiting"
  /\ delay' = NextDelay(delay)
  /\ pc' = "ready"
  /\ UNCHANGED <<method, attempt, answer, applied, slept, result>>

Return ==
  /\ pc = "answered"
  /\ ~Retries(method, attempt, answer)
  /\ result' \in ResultsOf(answer)
  /\ pc' = "done"
  /\ UNCHANGED <<method, attempt, delay, answer, applied, slept>>

Done == pc = "done" /\ UNCHANGED vars

Next == (\E a \in Answers : Exchange(a)) \/ Wait \/ Wake \/ Return \/ Done

\* The 30 s timeout of the client answers every request ("lost"), and the
\* runtime wakes every sleeper: each step of the loop is taken eventually.
Spec == Init /\ [][Next]_vars /\ WF_vars(Next)

-----------------------------------------------------------------------------
(* Properties *)

TypeOK ==
  /\ method \in Methods
  /\ pc \in {"ready", "answered", "waiting", "done"}
  /\ attempt \in Nat
  /\ delay \in FirstDelay .. MaxRetryDelay
  /\ answer \in Answers
  /\ applied \in Nat
  /\ slept \in Nat
  /\ result \in Results \cup {Pending}

\* The cost of a call in the worst case, a service that refuses every request
\* and asks for hours: MaxRetries + 1 requests, MaxRetries full waits.
CostBounded ==
  /\ attempt <= MaxRetries + 1
  /\ slept <= MaxRetries * MaxRetryDelay

\* What a caller may rely on, as an abstract specification: nothing is ever
\* posted twice, a success is one, and every call returns.
Abstract == INSTANCE RemoteCall
              WITH effects <- applied,
                   Refused <- {"Auth", "PermissionDenied", "NotFound",
                               "RateLimit", "Other"}
ImplementsRemoteCall == Abstract!Spec

=============================================================================
