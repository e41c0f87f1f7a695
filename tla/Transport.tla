------------------------------- MODULE Transport -------------------------------
(***************************************************************************)
(* The rules of the provider's HTTP client                                 *)
(* (crates/threads-provider-official/src/client): which answers it         *)
(* retries, which error each of the others becomes, and how long it waits. *)
(* Statuses are abstracted to the classes the match tells apart, times are *)
(* milliseconds.                                                           *)
(***************************************************************************)
EXTENDS Integers

CONSTANTS MaxRetries,     \* 5: `attempt <= 5`
          FirstDelay,     \* 250
          MaxRetryDelay   \* 30000

ASSUME TransportAssumption ==
  /\ MaxRetries \in Nat
  /\ FirstDelay \in Nat \ {0}
  /\ MaxRetryDelay \in Nat /\ MaxRetryDelay >= FirstDelay

Methods == {"GET", "DELETE", "POST"}

\* What comes back: a status class, or nothing at all (the request or its
\* answer is lost, or the 30 s timeout of the client expires).
Refusals == {"401", "403", "404", "429", "other"}
Answers  == {"2xx", "5xx", "lost"} \cup Refusals

Errors == {"Auth", "PermissionDenied", "NotFound", "RateLimit", "Network",
           "Parse", "Other"}
Results == {"Ok"} \cup Errors

\* The service carries out what it answers with 2xx and nothing it refuses; of
\* a 5xx or a lost answer the client learns neither.
Carries(a) == CASE a = "2xx"             -> {TRUE}
                [] a \in Refusals        -> {FALSE}
                [] a \in {"5xx", "lost"} -> BOOLEAN

AtMost(limit, n) == IF n <= limit THEN n ELSE limit

-----------------------------------------------------------------------------
\* Slips for the mutation runs.
RetriesEveryMethod(method) == method \in Methods
UncappedRetryAfter(requested) == requested

-----------------------------------------------------------------------------

\* Method::retries_status_errors
RetriesStatusErrors(method) == method \in {"GET", "DELETE"}

\* The match arms that go round the loop again; a lost answer never does.
Retries(method, attempt, answer) ==
  /\ answer \in {"429", "5xx"}
  /\ RetriesStatusErrors(method)
  /\ attempt <= MaxRetries

\* The error an answer that is neither a success nor retried is mapped to.
ErrorOf(answer) ==
  CASE answer = "401"  -> "Auth"
    [] answer = "403"  -> "PermissionDenied"
    [] answer = "404"  -> "NotFound"
    [] answer = "429"  -> "RateLimit"
    [] answer = "other"  -> "Other"
    [] answer \in {"5xx", "lost"} -> "Network"

\* What the caller may get for an answer that ends the loop.  A body that
\* breaks off or is not JSON fails a call the service has carried out.
ResultsOf(answer) ==
  IF answer = "2xx" THEN {"Ok", "Network", "Parse"} ELSE {ErrorOf(answer)}

-----------------------------------------------------------------------------

\* backoff: the base and a jitter below it, capped.
Backoffs(base) == {AtMost(MaxRetryDelay, base + jitter) : jitter \in 0 .. base - 1}

\* retry_after_delay
RetryAfter(requested) == AtMost(MaxRetryDelay, requested)

NextDelay(delay) == AtMost(MaxRetryDelay, 2 * delay)

=============================================================================
