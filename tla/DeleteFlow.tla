------------------------------ MODULE DeleteFlow ------------------------------
(***************************************************************************)
(* `delete posts --apply` and `delete replies --apply`                     *)
(* (crates/threads-cli/src/commands/delete.rs): any number of processes    *)
(* that share one store and one account, an ingest that re-adds posts from *)
(* pages it fetched earlier, and a service that may carry out a request it *)
(* answers with an error.                                                  *)
(*                                                                         *)
(* Each await of the code is a point where the others may run: a process   *)
(* lists candidates, checks the quota, and then for each candidate         *)
(* exchanges requests with the service, erases the post from the store and *)
(* writes its audit row, one transaction each.                             *)
(***************************************************************************)
EXTENDS Transport, FiniteSets

CONSTANTS Items,       \* the posts of the account
          Procs,       \* concurrent invocations of the command
          Cap,         \* 100: deletions allowed per window
          Window,      \* 24 h
          NoItem,
          MaxTime,     \* bound on the clock, for TLC
          MaxFailures, \* bound on failure rows, for TLC
          AuditMayFail \* whether an INSERT of an audit row may fail

ASSUME DeleteFlowAssumption ==
  /\ Cap \in Nat /\ Window \in Nat /\ MaxTime \in Nat /\ MaxFailures \in Nat
  /\ IsFiniteSet(Items)
  /\ NoItem \notin Items
  /\ AuditMayFail \in BOOLEAN

VARIABLES
  remote,    \* posts the service has
  local,     \* posts the store has
  audit,     \* rows of the deletions table
  now,       \* the clock that stamps them
  page,      \* what a running ingest has fetched and not yet written
  pc,        \* where each process is
  todo,      \* its candidates not yet tried
  left,      \* how many of them its quota still allows
  item,      \* the one it is deleting
  attempt,   \* requests sent for it
  answer     \* to the last of them

shared  == <<remote, local, audit, now, page>>
process == <<pc, todo, left, item, attempt, answer>>
vars    == <<shared, process>>

\* A row of deletions; `by` is history, the table does not keep it.
AuditRow == [item : Items, at : 0 .. MaxTime, success : BOOLEAN, by : Procs]

-----------------------------------------------------------------------------

InLast24h(row) == row.at + Window >= now

\* deletions_in_last_24h
RecentDeletions == {row \in audit : row.success /\ InLast24h(row)}

Failures == {row \in audit : ~row.success}

\* record_deletion: a failed INSERT is logged and otherwise ignored.
Record(p, success) ==
  \/ audit' = audit \cup {[item |-> item[p], at |-> now, success |-> success,
                           by |-> p]}
  \/ AuditMayFail /\ audit' = audit

-----------------------------------------------------------------------------
(* One invocation *)

Init ==
  /\ remote = Items
  /\ local \in SUBSET Items
  /\ audit = {}
  /\ now = 0
  /\ page = {}
  /\ pc = [p \in Procs |-> "idle"]
  /\ todo = [p \in Procs |-> {}]
  /\ left = [p \in Procs |-> 0]
  /\ item = [p \in Procs |-> NoItem]
  /\ attempt = [p \in Procs |-> 0]
  /\ answer = [p \in Procs |-> "lost"]

\* The command returns or is killed: its memory goes.
Exit(p) ==
  /\ pc' = [pc EXCEPT ![p] = "idle"]
  /\ todo' = [todo EXCEPT ![p] = {}]
  /\ left' = [left EXCEPT ![p] = 0]
  /\ item' = [item EXCEPT ![p] = NoItem]
  /\ attempt' = [attempt EXCEPT ![p] = 0]
  /\ answer' = [answer EXCEPT ![p] = "lost"]

\* The loop goes on to the next candidate.
Continue(p) ==
  /\ pc' = [pc EXCEPT ![p] = "next"]
  /\ item' = [item EXCEPT ![p] = NoItem]
  /\ attempt' = [attempt EXCEPT ![p] = 0]
  /\ answer' = [answer EXCEPT ![p] = "lost"]
  /\ UNCHANGED <<todo, left>>

\* posts_in_window: --before, --after and --limit select among the stored
\* posts.  The listing is a snapshot; a confirmation prompt may follow it.
List(p) ==
  /\ pc[p] = "idle"
  /\ Cardinality(Failures) < MaxFailures
  /\ \E candidates \in SUBSET local \ {{}} :
       todo' = [todo EXCEPT ![p] = candidates]
  /\ pc' = [pc EXCEPT ![p] = "listed"]
  /\ UNCHANGED <<shared, left, item, attempt, answer>>

\* Slips for the mutation runs.
CheckQuotaIgnoringUse(p) ==
  /\ pc[p] = "listed"
  /\ left' = [left EXCEPT ![p] = AtMost(Cap, Cardinality(todo[p]))]
  /\ pc' = [pc EXCEPT ![p] = "next"]
  /\ UNCHANGED <<shared, todo, item, attempt, answer>>

\* Refuses when the quota is used up, else takes what is left of it.
CheckQuota(p) ==
  LET already == Cardinality(RecentDeletions)
  IN  /\ pc[p] = "listed"
      /\ UNCHANGED shared
      /\ IF already >= Cap
         THEN Exit(p)
         ELSE /\ pc' = [pc EXCEPT ![p] = "next"]
              /\ left' = [left EXCEPT ![p] =
                            AtMost(Cap - already, Cardinality(todo[p]))]
              /\ UNCHANGED <<todo, item, attempt, answer>>

\* `take(total)`: the next candidate, while the quota allows one.
Pick(p) ==
  /\ pc[p] = "next"
  /\ left[p] > 0
  /\ \E i \in todo[p] :
       /\ item' = [item EXCEPT ![p] = i]
       /\ todo' = [todo EXCEPT ![p] = @ \ {i}]
  /\ left' = [left EXCEPT ![p] = @ - 1]
  /\ pc' = [pc EXCEPT ![p] = "request"]
  /\ UNCHANGED <<shared, attempt, answer>>

FinishWhenAllTried(p) ==
  /\ pc[p] = "next"
  /\ left[p] = 0 /\ todo[p] = {}
  /\ Exit(p)
  /\ UNCHANGED shared

\* The loop ends: the summary is printed.
Finish(p) ==
  /\ pc[p] = "next"
  /\ left[p] = 0
  /\ Exit(p)
  /\ UNCHANGED shared

\* A request and its answer.  The service deletes the post it has, or refuses;
\* a 5xx or a lost answer may hide a deletion; a post it no longer has is
\* answered with 404 when the request is looked at at all.
Served(i, a) ==
  CASE a = "2xx"             -> i \in remote /\ remote' = remote \ {i}
    [] a = "404"             -> i \notin remote /\ UNCHANGED remote
    [] a \in {"5xx", "lost"} -> remote' \in {remote, remote \ {i}}
    [] OTHER                 -> UNCHANGED remote

Exchange(p, a) ==
  /\ pc[p] = "request"
  /\ Served(item[p], a)
  /\ attempt' = [attempt EXCEPT ![p] = @ + 1]
  /\ answer' = [answer EXCEPT ![p] = a]
  /\ pc' = [pc EXCEPT ![p] = "answered"]
  /\ UNCHANGED <<local, audit, now, page, todo, left, item>>

Retry(p) ==
  /\ pc[p] = "answered"
  /\ Retries("DELETE", attempt[p], answer[p])
  /\ pc' = [pc EXCEPT ![p] = "request"]
  /\ UNCHANGED <<shared, todo, left, item, attempt, answer>>

\* What provider.delete_post returned, once the client stops retrying.
Returned(p, result) ==
  /\ pc[p] = "answered"
  /\ ~Retries("DELETE", attempt[p], answer[p])
  /\ result \in ResultsOf(answer[p])

EraseOnLostAnswer(p) ==
  /\ Returned(p, "Ok") \/ Returned(p, "Network")
  /\ local' = local \ {item[p]}
  /\ pc' = [pc EXCEPT ![p] = "erased"]
  /\ UNCHANGED <<remote, audit, now, page, todo, left, item, attempt, answer>>

\* Ok(()): the post leaves the store, in a transaction of its own.
Erase(p) ==
  /\ Returned(p, "Ok")
  /\ local' = local \ {item[p]}
  /\ pc' = [pc EXCEPT ![p] = "erased"]
  /\ UNCHANGED <<remote, audit, now, page, todo, left, item, attempt, answer>>

\* Unless the store refuses, which ends the command.
EraseFails(p) ==
  /\ Returned(p, "Ok")
  /\ Exit(p)
  /\ UNCHANGED shared

RecordSuccess(p) ==
  /\ pc[p] = "erased"
  /\ Record(p, TRUE)
  /\ Continue(p)
  /\ UNCHANGED <<remote, local, now, page>>

\* Err(RateLimit): the batch stops, and no row is written.
StopRateLimited(p) ==
  /\ Returned(p, "RateLimit")
  /\ Exit(p)
  /\ UNCHANGED shared

RecordFailureAsSuccess(p) ==
  /\ \E error \in Errors \ {"RateLimit"} : Returned(p, error)
  /\ Record(p, TRUE)
  /\ Continue(p)
  /\ UNCHANGED <<remote, local, now, page>>

\* Any other error is recorded and the batch goes on.
RecordFailure(p) ==
  /\ \E error \in Errors \ {"RateLimit"} : Returned(p, error)
  /\ Record(p, FALSE)
  /\ Continue(p)
  /\ UNCHANGED <<remote, local, now, page>>

\* The process is killed.
Crash(p) ==
  /\ pc[p] # "idle"
  /\ Exit(p)
  /\ UNCHANGED shared

-----------------------------------------------------------------------------
(* The others *)

\* An ingest fetches what the service has ...
Fetch ==
  /\ page' = remote
  /\ UNCHANGED <<remote, local, audit, now, process>>

\* ... and writes it later.
Flush ==
  /\ local' = local \cup page
  /\ page' = {}
  /\ UNCHANGED <<remote, audit, now, process>>

Tick ==
  /\ now < MaxTime
  /\ now' = now + 1
  /\ UNCHANGED <<remote, local, audit, page, process>>

Step(p) ==
  \/ CheckQuota(p)
  \/ Pick(p)
  \/ Finish(p)
  \/ \E a \in Answers : Exchange(p, a)
  \/ Retry(p)
  \/ Erase(p)
  \/ EraseFails(p)
  \/ RecordSuccess(p)
  \/ StopRateLimited(p)
  \/ RecordFailure(p)

Next ==
  \/ \E p \in Procs : List(p) \/ Step(p) \/ Crash(p)
  \/ Fetch
  \/ Flush
  \/ Tick

\* A running command is never stuck: requests time out, sleeps end, and every
\* store call returns.  Nobody has to start one, and none has to crash.
Spec == Init /\ [][Next]_vars /\ \A p \in Procs : WF_vars(Step(p))

-----------------------------------------------------------------------------
(* Properties *)

TypeOK ==
  /\ remote \subseteq Items
  /\ local \subseteq Items
  /\ audit \subseteq AuditRow
  /\ now \in 0 .. MaxTime
  /\ page \subseteq Items
  /\ pc \in [Procs -> {"idle", "listed", "next", "request", "answered", "erased"}]
  /\ todo \in [Procs -> SUBSET Items]
  /\ left \in [Procs -> 0 .. Cap]
  /\ item \in [Procs -> Items \cup {NoItem}]
  /\ attempt \in [Procs -> 0 .. MaxRetries + 1]
  /\ answer \in [Procs -> Answers]

\* A row that says a deletion succeeded is right for ever: the service no
\* longer has the post.
SuccessMeansGone == \A row \in audit : row.success => row.item \notin remote

\* The local archive never gives up a post the service still has: whatever is
\* retried, refused or cut off, a post leaves the store only once it is gone
\* remotely.
EraseFollowsService == [][\A i \in local \ local' : i \notin remote]_vars

\* The quota counts: no process ever has more audited deletions within 24 h
\* than the cap, over all the batches it runs.
OwnDeletions(p) == {row \in RecentDeletions : row.by = p}
OwnQuota == \A p \in Procs : Cardinality(OwnDeletions(p)) <= Cap

\* The batch of a process ends, whatever the service answers.
Ends(p) == pc[p] # "idle" ~> pc[p] = "idle"

\* The cap itself.  A process that is alone keeps it (proved); two that check
\* before either has recorded go over it together.
CapHolds == Cardinality(RecentDeletions) <= Cap

-----------------------------------------------------------------------------
(* What documents of the repository say, and the code does not do.         *)

\* "`deletions` audit table records every attempt (success or failure)".  When a
\* 5xx hides a deletion and the retries then end in 429, the batch stops: the
\* post is gone from the service and the attempt has no row.
DeletionsAreAudited ==
  [][\A p \in Procs : StopRateLimited(p) =>
       item[p] \in remote \/ \E row \in audit' : row.item = item[p]]_vars

=============================================================================
