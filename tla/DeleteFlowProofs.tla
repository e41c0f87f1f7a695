---------------------------- MODULE DeleteFlowProofs ----------------------------
(***************************************************************************)
(* Theorems about the delete command, for any number of posts and of       *)
(* concurrent invocations, any cap, window, clock and retry limit.         *)
(***************************************************************************)
EXTENDS DeleteFlow, FiniteSetTheorems, TLAPS

Busy(p) == pc[p] \in {"request", "answered", "erased"}

\* What a process remembers agrees with where it is.
LocalsOK ==
  \A p \in Procs :
    /\ Busy(p) => item[p] \in Items
    /\ pc[p] = "request" => attempt[p] <= MaxRetries
    /\ pc[p] \in {"idle", "listed", "next"} => attempt[p] = 0

\* What a process takes for a success is one: the service is without the post.
SuccessesOK ==
  \A p \in Procs :
    /\ pc[p] = "answered" /\ answer[p] = "2xx" => item[p] \notin remote
    /\ pc[p] = "erased" => item[p] \notin remote

\* The part of the quota a process holds: what it may still start, and the
\* deletion in flight.
Claimed(p) ==
  IF pc[p] = "next" THEN left[p]
  ELSE IF Busy(p) THEN left[p] + 1 ELSE 0

QuotaOK ==
  /\ IsFiniteSet(audit)
  /\ \A p \in Procs : Cardinality(OwnDeletions(p)) + Claimed(p) <= Cap

FlowInv == TypeOK /\ LocalsOK /\ SuccessesOK /\ SuccessMeansGone /\ QuotaOK

-----------------------------------------------------------------------------

LEMMA InitFlowInv == Init => FlowInv
<1> SUFFICES ASSUME Init
             PROVE  FlowInv
  OBVIOUS
<1>1. TypeOK
  BY DeleteFlowAssumption, TransportAssumption DEF Init, TypeOK, Answers
<1>2. LocalsOK /\ SuccessesOK /\ SuccessMeansGone
  BY DEF Init, LocalsOK, SuccessesOK, SuccessMeansGone, Busy
<1>3. QuotaOK
  <2>1. IsFiniteSet(audit)
    BY FS_EmptySet DEF Init
  <2>2. ASSUME NEW p \in Procs
        PROVE  Cardinality(OwnDeletions(p)) + Claimed(p) <= Cap
    <3>1. OwnDeletions(p) = {} /\ Claimed(p) = 0
      BY DEF Init, OwnDeletions, RecentDeletions, Claimed, Busy
    <3>2. QED
      BY <3>1, FS_EmptySet, DeleteFlowAssumption
  <2>3. QED
    BY <2>1, <2>2 DEF QuotaOK
<1>4. QED
  BY <1>1, <1>2, <1>3 DEF FlowInv

\* Finite sets: the rows a process owns, and the candidates it holds.
LEMMA Finite ==
  ASSUME FlowInv, NEW p \in Procs
  PROVE  /\ IsFiniteSet(OwnDeletions(p))
         /\ Cardinality(OwnDeletions(p)) \in Nat
         /\ IsFiniteSet(RecentDeletions)
         /\ Cardinality(RecentDeletions) \in Nat
         /\ Cardinality(OwnDeletions(p)) <= Cardinality(RecentDeletions)
         /\ Cardinality(todo[p]) \in Nat
<1>1. RecentDeletions \subseteq audit /\ OwnDeletions(p) \subseteq RecentDeletions
  BY DEF RecentDeletions, OwnDeletions
<1>2. IsFiniteSet(audit)
  BY DEF FlowInv, QuotaOK
<1>3. IsFiniteSet(RecentDeletions)
  BY <1>1, <1>2, FS_Subset
<1>4. /\ IsFiniteSet(OwnDeletions(p))
      /\ Cardinality(OwnDeletions(p)) <= Cardinality(RecentDeletions)
  BY <1>1, <1>3, FS_Subset
<1>5. IsFiniteSet(todo[p])
  BY FS_Subset, DeleteFlowAssumption DEF FlowInv, TypeOK
<1>6. QED
  BY <1>3, <1>4, <1>5, FS_CardinalityType

-----------------------------------------------------------------------------
(* Steps that write no row *)

LEMMA ClaimedTyped ==
  ASSUME FlowInv, NEW p \in Procs
  PROVE  Claimed(p) \in Nat
  BY DeleteFlowAssumption DEF FlowInv, TypeOK, Claimed

\* While time passes, and no row is added, the rows that count can only get
\* fewer; so a step that claims no more of the quota keeps it.
LEMMA QuotaKept ==
  ASSUME FlowInv, audit' = audit, now' \in Nat, now' >= now,
         \A p \in Procs : Claimed(p)' \in Nat /\ Claimed(p)' <= Claimed(p)
  PROVE  QuotaOK'
<1>1. IsFiniteSet(audit')
  BY DEF FlowInv, QuotaOK
<1>2. ASSUME NEW p \in Procs
      PROVE  (Cardinality(OwnDeletions(p)) + Claimed(p) <= Cap)'
  <2>1. OwnDeletions(p)' \subseteq OwnDeletions(p)
    <3>1. ASSUME NEW row \in audit, row.at + Window >= now'
          PROVE  row.at + Window >= now
      BY <3>1, DeleteFlowAssumption DEF FlowInv, TypeOK, AuditRow
    <3>2. QED
      BY <3>1 DEF OwnDeletions, RecentDeletions, InLast24h
  <2>2. /\ Cardinality(OwnDeletions(p)') \in Nat
        /\ Cardinality(OwnDeletions(p)') <= Cardinality(OwnDeletions(p))
    BY <2>1, Finite, FS_Subset, FS_CardinalityType
  <2>3. /\ Cardinality(OwnDeletions(p)) \in Nat
        /\ Cardinality(OwnDeletions(p)) + Claimed(p) <= Cap
        /\ Claimed(p) \in Nat
    BY Finite, ClaimedTyped DEF FlowInv, QuotaOK
  <2>4. Claimed(p)' \in Nat /\ Claimed(p)' <= Claimed(p)
    OBVIOUS
  <2>5. QED
    BY <2>2, <2>3, <2>4, DeleteFlowAssumption
<1>3. QED
  BY <1>1, <1>2 DEF QuotaOK

\* A step that only ends a command.
LEMMA ExitKeepsInv ==
  ASSUME FlowInv, NEW p \in Procs, Exit(p), UNCHANGED shared
  PROVE  FlowInv'
<1>1. UNCHANGED <<remote, local, audit, now, page>>
  BY DEF shared
<1>2. TypeOK'
  BY <1>1, DeleteFlowAssumption, TransportAssumption
     DEF FlowInv, TypeOK, Exit, Answers
<1>3. LocalsOK' /\ SuccessesOK' /\ SuccessMeansGone'
  BY <1>1 DEF FlowInv, TypeOK, Exit, LocalsOK, SuccessesOK, SuccessMeansGone, Busy
<1>4. \A q \in Procs : Claimed(q)' \in Nat /\ Claimed(q)' <= Claimed(q)
  BY ClaimedTyped DEF FlowInv, TypeOK, Exit, Claimed, Busy
<1>5. QuotaOK'
  BY <1>1, <1>4, QuotaKept DEF FlowInv, TypeOK
<1>6. QED
  BY <1>2, <1>3, <1>5 DEF FlowInv

LEMMA ListKeepsInv ==
  ASSUME FlowInv, NEW p \in Procs, List(p)
  PROVE  FlowInv'
<1>1. /\ UNCHANGED <<remote, local, audit, now, page, left, item, attempt, answer>>
      /\ pc[p] = "idle" /\ pc' = [pc EXCEPT ![p] = "listed"]
  BY DEF List, shared
<1>2. PICK candidates \in SUBSET local : todo' = [todo EXCEPT ![p] = candidates]
  BY DEF List
<1>3. TypeOK'
  BY <1>1, <1>2 DEF FlowInv, TypeOK
<1>4. LocalsOK' /\ SuccessesOK' /\ SuccessMeansGone'
  BY <1>1 DEF FlowInv, TypeOK, LocalsOK, SuccessesOK, SuccessMeansGone, Busy
<1>5. \A q \in Procs : Claimed(q)' \in Nat /\ Claimed(q)' <= Claimed(q)
  BY <1>1, ClaimedTyped DEF FlowInv, TypeOK, Claimed, Busy
<1>6. QuotaOK'
  BY <1>1, <1>5, QuotaKept DEF FlowInv, TypeOK
<1>7. QED
  BY <1>3, <1>4, <1>6 DEF FlowInv

\* The quota check: what a process may start is what the rows of all leave.
LEMMA CheckQuotaKeepsInv ==
  ASSUME FlowInv, NEW p \in Procs, CheckQuota(p)
  PROVE  FlowInv'
<1> DEFINE already == Cardinality(RecentDeletions)
           granted == AtMost(Cap - already, Cardinality(todo[p]))
<1>1. CASE already >= Cap
  BY <1>1, ExitKeepsInv DEF CheckQuota
<1>2. CASE ~(already >= Cap)
  <2>1. /\ UNCHANGED <<remote, local, audit, now, page>>
        /\ UNCHANGED <<todo, item, attempt, answer>>
        /\ pc[p] = "listed" /\ pc' = [pc EXCEPT ![p] = "next"]
        /\ left' = [left EXCEPT ![p] = granted]
    BY <1>2 DEF CheckQuota, shared
  <2>2. /\ already \in Nat /\ Cardinality(todo[p]) \in Nat
        /\ Cardinality(OwnDeletions(p)) \in Nat
        /\ Cardinality(OwnDeletions(p)) <= already
    BY Finite
  <2>3. granted \in 0 .. Cap /\ granted <= Cap - already
    BY <1>2, <2>2, DeleteFlowAssumption DEF AtMost
  <2> HIDE DEF granted, already
  <2>4. TypeOK'
    BY <2>1, <2>3 DEF FlowInv, TypeOK
  <2>5. LocalsOK' /\ SuccessesOK' /\ SuccessMeansGone'
    BY <2>1 DEF FlowInv, TypeOK, LocalsOK, SuccessesOK, SuccessMeansGone, Busy
  <2>6. QuotaOK'
    <3>1. IsFiniteSet(audit')
      BY <2>1 DEF FlowInv, QuotaOK
    <3>2. ASSUME NEW q \in Procs
          PROVE  Cardinality(OwnDeletions(q)') + Claimed(q)' <= Cap
      <4>1. OwnDeletions(q)' = OwnDeletions(q)
        BY <2>1 DEF OwnDeletions, RecentDeletions, InLast24h
      <4>2. CASE q = p
        <5>1. Claimed(p)' = granted
          BY <2>1 DEF FlowInv, TypeOK, Claimed
        <5>2. QED
          BY <4>1, <4>2, <5>1, <2>2, <2>3, DeleteFlowAssumption
      <4>3. CASE q # p
        <5>1. Claimed(q)' = Claimed(q)
          BY <2>1, <4>3 DEF FlowInv, TypeOK, Claimed, Busy
        <5>2. QED
          BY <4>1, <5>1 DEF FlowInv, QuotaOK
      <4>4. QED
        BY <4>2, <4>3
    <3>3. QED
      BY <3>1, <3>2 DEF QuotaOK
  <2>7. QED
    BY <2>4, <2>5, <2>6 DEF FlowInv
<1>3. QED
  BY <1>1, <1>2

LEMMA PickKeepsInv ==
  ASSUME FlowInv, NEW p \in Procs, Pick(p)
  PROVE  FlowInv'
<1>1. PICK i \in todo[p] : /\ item' = [item EXCEPT ![p] = i]
                           /\ todo' = [todo EXCEPT ![p] = @ \ {i}]
  BY DEF Pick
<1>2. /\ UNCHANGED <<remote, local, audit, now, page, attempt, answer>>
      /\ pc[p] = "next" /\ pc' = [pc EXCEPT ![p] = "request"]
      /\ left[p] > 0 /\ left' = [left EXCEPT ![p] = @ - 1]
  BY DEF Pick, shared
<1>3. TypeOK'
  BY <1>1, <1>2, DeleteFlowAssumption DEF FlowInv, TypeOK
<1>4. LocalsOK' /\ SuccessesOK' /\ SuccessMeansGone'
  BY <1>1, <1>2, TransportAssumption
     DEF FlowInv, TypeOK, LocalsOK, SuccessesOK, SuccessMeansGone, Busy
<1>5. \A q \in Procs : Claimed(q)' \in Nat /\ Claimed(q)' <= Claimed(q)
  BY <1>2, ClaimedTyped, DeleteFlowAssumption DEF FlowInv, TypeOK, Claimed, Busy
<1>6. QuotaOK'
  BY <1>2, <1>5, QuotaKept DEF FlowInv, TypeOK
<1>7. QED
  BY <1>3, <1>4, <1>6 DEF FlowInv

\* The service only ever loses posts; what it answers with 2xx it has lost.
LEMMA ExchangeKeepsInv ==
  ASSUME FlowInv, NEW p \in Procs, NEW a \in Answers, Exchange(p, a)
  PROVE  FlowInv'
<1>1. /\ UNCHANGED <<local, audit, now, page, todo, left, item>>
      /\ pc[p] = "request" /\ pc' = [pc EXCEPT ![p] = "answered"]
      /\ attempt' = [attempt EXCEPT ![p] = @ + 1]
      /\ answer' = [answer EXCEPT ![p] = a]
      /\ Served(item[p], a)
  BY DEF Exchange
<1>2. /\ remote' \subseteq remote
      /\ a = "2xx" => item[p] \notin remote'
  BY <1>1 DEF Served
<1>3. TypeOK'
  BY <1>1, <1>2, TransportAssumption DEF FlowInv, TypeOK, LocalsOK
<1>4. LocalsOK' /\ SuccessesOK' /\ SuccessMeansGone'
  BY <1>1, <1>2
     DEF FlowInv, TypeOK, LocalsOK, SuccessesOK, SuccessMeansGone, Busy
<1>5. \A q \in Procs : Claimed(q)' \in Nat /\ Claimed(q)' <= Claimed(q)
  BY <1>1, ClaimedTyped DEF FlowInv, TypeOK, Claimed, Busy
<1>6. QuotaOK'
  BY <1>1, <1>5, QuotaKept DEF FlowInv, TypeOK
<1>7. QED
  BY <1>3, <1>4, <1>6 DEF FlowInv

LEMMA RetryKeepsInv ==
  ASSUME FlowInv, NEW p \in Procs, Retry(p)
  PROVE  FlowInv'
<1>1. /\ UNCHANGED <<remote, local, audit, now, page, todo, left, item,
                     attempt, answer>>
      /\ pc[p] = "answered" /\ pc' = [pc EXCEPT ![p] = "request"]
      /\ attempt[p] <= MaxRetries
  BY DEF Retry, Retries, shared
<1>2. TypeOK'
  BY <1>1 DEF FlowInv, TypeOK
<1>3. LocalsOK' /\ SuccessesOK' /\ SuccessMeansGone'
  BY <1>1 DEF FlowInv, TypeOK, LocalsOK, SuccessesOK, SuccessMeansGone, Busy
<1>4. \A q \in Procs : Claimed(q)' \in Nat /\ Claimed(q)' <= Claimed(q)
  BY <1>1, ClaimedTyped DEF FlowInv, TypeOK, Claimed, Busy
<1>5. QuotaOK'
  BY <1>1, <1>4, QuotaKept DEF FlowInv, TypeOK
<1>6. QED
  BY <1>2, <1>3, <1>5 DEF FlowInv

\* The client returns Ok only for a 2xx, so the post is gone.
LEMMA OkMeansGone ==
  ASSUME FlowInv, NEW p \in Procs, Returned(p, "Ok")
  PROVE  pc[p] = "answered" /\ answer[p] = "2xx" /\ item[p] \notin remote
<1>1. answer[p] = "2xx"
  BY DEF Returned, ResultsOf, ErrorOf, FlowInv, TypeOK, Answers, Refusals
<1>2. QED
  BY <1>1 DEF Returned, FlowInv, SuccessesOK

LEMMA EraseKeepsInv ==
  ASSUME FlowInv, NEW p \in Procs, Erase(p)
  PROVE  FlowInv'
<1>1. /\ UNCHANGED <<remote, audit, now, page, todo, left, item, attempt, answer>>
      /\ local' = local \ {item[p]}
      /\ pc[p] = "answered" /\ pc' = [pc EXCEPT ![p] = "erased"]
      /\ item[p] \notin remote
  BY OkMeansGone DEF Erase
<1>2. TypeOK'
  BY <1>1 DEF FlowInv, TypeOK
<1>3. LocalsOK' /\ SuccessesOK' /\ SuccessMeansGone'
  BY <1>1 DEF FlowInv, TypeOK, LocalsOK, SuccessesOK, SuccessMeansGone, Busy
<1>4. \A q \in Procs : Claimed(q)' \in Nat /\ Claimed(q)' <= Claimed(q)
  BY <1>1, ClaimedTyped DEF FlowInv, TypeOK, Claimed, Busy
<1>5. QuotaOK'
  BY <1>1, <1>4, QuotaKept DEF FlowInv, TypeOK
<1>6. QED
  BY <1>2, <1>3, <1>5 DEF FlowInv

LEMMA OthersKeepInv ==
  ASSUME FlowInv, Fetch \/ Flush \/ Tick
  PROVE  FlowInv'
<1>1. /\ UNCHANGED <<remote, audit, pc, todo, left, item, attempt, answer>>
      /\ local' \subseteq Items /\ page' \subseteq Items
      /\ now' \in 0 .. MaxTime /\ now' >= now
  BY DeleteFlowAssumption
     DEF FlowInv, TypeOK, Fetch, Flush, Tick, process
<1>2. TypeOK'
  BY <1>1 DEF FlowInv, TypeOK
<1>3. LocalsOK' /\ SuccessesOK' /\ SuccessMeansGone'
  BY <1>1 DEF FlowInv, LocalsOK, SuccessesOK, SuccessMeansGone, Busy
<1>4. \A q \in Procs : Claimed(q)' \in Nat /\ Claimed(q)' <= Claimed(q)
  BY <1>1, ClaimedTyped DEF FlowInv, TypeOK, Claimed, Busy
<1>5. QuotaOK'
  BY <1>1, <1>4, QuotaKept, DeleteFlowAssumption
<1>6. QED
  BY <1>2, <1>3, <1>5 DEF FlowInv

-----------------------------------------------------------------------------
(* Steps that write a row *)

\* A row uses up the claim of the process that writes it, and leaves the rows
\* of the others alone.
LEMMA RecordKeepsInv ==
  ASSUME FlowInv, NEW p \in Procs, NEW success \in BOOLEAN,
         Record(p, success), Continue(p), UNCHANGED <<remote, local, now, page>>,
         pc[p] \in {"answered", "erased"},
         success => pc[p] = "erased"
  PROVE  FlowInv'
<1> DEFINE row == [item |-> item[p], at |-> now, success |-> success, by |-> p]
<1>1. /\ pc' = [pc EXCEPT ![p] = "next"]
      /\ item' = [item EXCEPT ![p] = NoItem]
      /\ attempt' = [attempt EXCEPT ![p] = 0]
      /\ answer' = [answer EXCEPT ![p] = "lost"]
      /\ UNCHANGED <<todo, left>>
  BY DEF Continue
<1>2. audit' = audit \cup {row} \/ audit' = audit
  BY DEF Record
<1>3. row \in AuditRow /\ row.by = p /\ (row.success => row.item \notin remote)
  BY DEF FlowInv, TypeOK, LocalsOK, SuccessesOK, Busy, AuditRow
<1> HIDE DEF row
<1>4. TypeOK'
  BY <1>1, <1>2, <1>3, TransportAssumption DEF FlowInv, TypeOK, Answers
<1>5. LocalsOK' /\ SuccessesOK'
  BY <1>1 DEF FlowInv, TypeOK, LocalsOK, SuccessesOK, Busy
<1>6. SuccessMeansGone'
  BY <1>2, <1>3 DEF FlowInv, SuccessMeansGone
<1>7. QuotaOK'
  <2>1. IsFiniteSet(audit')
    BY <1>2, FS_AddElement DEF FlowInv, QuotaOK
  <2>2. ASSUME NEW q \in Procs
        PROVE  Cardinality(OwnDeletions(q)') + Claimed(q)' <= Cap
    <3>1. /\ IsFiniteSet(OwnDeletions(q))
          /\ Cardinality(OwnDeletions(q)) \in Nat
          /\ Cardinality(OwnDeletions(q)) + Claimed(q) <= Cap
          /\ Claimed(q) \in Nat
      BY Finite, ClaimedTyped DEF FlowInv, QuotaOK
    <3>2. CASE q = p
      <4>1. Claimed(p) = left[p] + 1 /\ Claimed(p)' = left[p]
        BY <1>1 DEF FlowInv, TypeOK, Claimed, Busy
      <4>2. OwnDeletions(p)' \subseteq OwnDeletions(p) \cup {row}
        BY <1>2 DEF OwnDeletions, RecentDeletions, InLast24h
      <4>3. /\ IsFiniteSet(OwnDeletions(p) \cup {row})
            /\ Cardinality(OwnDeletions(p) \cup {row})
                 <= Cardinality(OwnDeletions(p)) + 1
        <5>1. /\ IsFiniteSet(OwnDeletions(p))
              /\ Cardinality(OwnDeletions(p)) \in Nat
          BY Finite
        <5> DEFINE own == OwnDeletions(p)
        <5> HIDE DEF own
        <5>2. /\ IsFiniteSet(own \cup {row})
              /\ \/ Cardinality(own \cup {row}) = Cardinality(own)
                 \/ Cardinality(own \cup {row}) = Cardinality(own) + 1
          BY <5>1, FS_AddElement DEF own
        <5>3. Cardinality(own) \in Nat
          BY <5>1 DEF own
        <5>4. QED
          BY <5>2, <5>3 DEF own
      <4>4. /\ Cardinality(OwnDeletions(p)')
                 <= Cardinality(OwnDeletions(p) \cup {row})
            /\ Cardinality(OwnDeletions(p)') \in Nat
            /\ Cardinality(OwnDeletions(p) \cup {row}) \in Nat
        BY <4>2, <4>3, FS_Subset, FS_CardinalityType
      <4>5. left[p] \in Nat
        BY DeleteFlowAssumption DEF FlowInv, TypeOK
      <4>6. QED
        BY <3>1, <3>2, <4>1, <4>3, <4>4, <4>5, DeleteFlowAssumption
    <3>3. CASE q # p
      <4>1. Claimed(q)' = Claimed(q)
        BY <1>1, <3>3 DEF FlowInv, TypeOK, Claimed, Busy
      <4>2. OwnDeletions(q)' = OwnDeletions(q)
        BY <1>2, <1>3, <3>3 DEF OwnDeletions, RecentDeletions, InLast24h
      <4>3. QED
        BY <3>1, <4>1, <4>2
    <3>4. QED
      BY <3>2, <3>3
  <2>3. QED
    BY <2>1, <2>2 DEF QuotaOK
<1>8. QED
  BY <1>4, <1>5, <1>6, <1>7 DEF FlowInv

-----------------------------------------------------------------------------

LEMMA NextKeepsFlowInv == FlowInv /\ [Next]_vars => FlowInv'
<1> SUFFICES ASSUME FlowInv, [Next]_vars
             PROVE  FlowInv'
  OBVIOUS
<1>1. ASSUME NEW p \in Procs, List(p)
      PROVE  FlowInv'
  BY <1>1, ListKeepsInv
<1>2. ASSUME NEW p \in Procs, Step(p)
      PROVE  FlowInv'
  <2>1. CASE CheckQuota(p)
    BY <2>1, CheckQuotaKeepsInv
  <2>2. CASE Pick(p)
    BY <2>2, PickKeepsInv
  <2>3. CASE \E a \in Answers : Exchange(p, a)
    BY <2>3, ExchangeKeepsInv
  <2>4. CASE Retry(p)
    BY <2>4, RetryKeepsInv
  <2>5. CASE Erase(p)
    BY <2>5, EraseKeepsInv
  <2>6. CASE RecordSuccess(p)
    BY <2>6, RecordKeepsInv DEF RecordSuccess
  <2>7. CASE RecordFailure(p)
    BY <2>7, RecordKeepsInv DEF RecordFailure, Returned
  <2>8. CASE Finish(p) \/ EraseFails(p) \/ StopRateLimited(p)
    BY <2>8, ExitKeepsInv DEF Finish, EraseFails, StopRateLimited
  <2>9. QED
    BY <1>2, <2>1, <2>2, <2>3, <2>4, <2>5, <2>6, <2>7, <2>8 DEF Step
<1>3. ASSUME NEW p \in Procs, Crash(p)
      PROVE  FlowInv'
  BY <1>3, ExitKeepsInv DEF Crash
<1>4. CASE Fetch \/ Flush \/ Tick
  BY <1>4, OthersKeepInv
<1>5. CASE UNCHANGED vars
  BY <1>5 DEF vars, shared, process, FlowInv, TypeOK, LocalsOK, SuccessesOK,
              SuccessMeansGone, QuotaOK, Claimed, Busy, OwnDeletions,
              RecentDeletions, InLast24h
<1>6. QED
  BY <1>1, <1>2, <1>3, <1>4, <1>5 DEF Next

LEMMA FlowInvariant == Spec => []FlowInv
  BY InitFlowInv, NextKeepsFlowInv, PTL DEF Spec

\* Every variable keeps its type; in particular no process ever holds a
\* negative quota or more than the cap.
THEOREM DeleteTypeCorrect == Spec => []TypeOK
<1>1. FlowInv => TypeOK
  BY DEF FlowInv
<1>2. QED
  BY <1>1, FlowInvariant, PTL

\* An audit row that says success is right for ever, whatever crashes, retries
\* and concurrent commands there are.
THEOREM AuditedSuccessIsReal == Spec => []SuccessMeansGone
<1>1. FlowInv => SuccessMeansGone
  BY DEF FlowInv
<1>2. QED
  BY <1>1, FlowInvariant, PTL

\* No process has more audited deletions in the window than the cap, over all
\* the batches it runs and however many others run at the same time.
THEOREM QuotaIsKept == Spec => []OwnQuota
<1>1. FlowInv => OwnQuota
  <2> SUFFICES ASSUME FlowInv, NEW p \in Procs
               PROVE  Cardinality(OwnDeletions(p)) <= Cap
    BY DEF OwnQuota
  <2>1. QED
    BY Finite, ClaimedTyped, DeleteFlowAssumption DEF FlowInv, QuotaOK
<1>2. QED
  BY <1>1, FlowInvariant, PTL

\* With one process, the only one of the account, the documented cap holds.
THEOREM CapHoldsAlone ==
  ASSUME NEW p, Procs = {p}
  PROVE  Spec => []CapHolds
<1>1. FlowInv => CapHolds
  <2> SUFFICES ASSUME FlowInv
               PROVE  CapHolds
    OBVIOUS
  <2>1. OwnDeletions(p) = RecentDeletions
    BY DEF FlowInv, TypeOK, AuditRow, OwnDeletions, RecentDeletions
  <2>2. QED
    BY <2>1, Finite, ClaimedTyped, DeleteFlowAssumption
       DEF CapHolds, FlowInv, QuotaOK
<1>2. QED
  BY <1>1, FlowInvariant, PTL

\* A post leaves the local archive only once the service no longer has it.
THEOREM ErasesFollowTheService == Spec => EraseFollowsService
<1>1. FlowInv /\ [Next]_vars => [\A i \in local \ local' : i \notin remote]_vars
  <2> SUFFICES ASSUME FlowInv, [Next]_vars
               PROVE  \A i \in local \ local' : i \notin remote
    OBVIOUS
  <2>1. ASSUME NEW p \in Procs, Erase(p)
        PROVE  \A i \in local \ local' : i \notin remote
    BY <2>1, OkMeansGone DEF Erase
  <2>2. ASSUME NEW p \in Procs, List(p) \/ Crash(p) \/ (Step(p) /\ ~Erase(p))
        PROVE  local' = local
    BY <2>2 DEF List, Crash, Step, CheckQuota, Pick, Finish, Exchange, Retry,
                EraseFails, RecordSuccess, StopRateLimited, RecordFailure, shared
  <2>3. CASE Fetch \/ Flush \/ Tick \/ UNCHANGED vars
    BY <2>3 DEF Fetch, Flush, Tick, vars, shared
  <2>4. QED
    BY <2>1, <2>2, <2>3 DEF Next
<1>2. QED
  BY <1>1, FlowInvariant, PTL DEF Spec, EraseFollowsService

-----------------------------------------------------------------------------
(* How long a batch can go on                                              *)

\* A post costs a pick, MaxRetries + 1 requests with their answers, and the row.
StepsPerPost == 2 * MaxRetries + 4

\* The most steps a process still has ahead of it when it is at `place`, may
\* start n more posts and has sent k requests for the one in flight.
Remaining(place, n, k) ==
  CASE place = "idle"     -> 0
    [] place = "listed"   -> Cap * StepsPerPost + 2
    [] place = "next"     -> n * StepsPerPost + 1
    [] place = "request"  -> n * StepsPerPost + 2 * (MaxRetries + 2 - k)
    [] place = "answered" -> n * StepsPerPost + 2 * (MaxRetries + 2 - k) + 1
    [] place = "erased"   -> n * StepsPerPost + 2

StepsLeft(p) == Remaining(pc[p], left[p], attempt[p])

BatchCost == Cap * StepsPerPost + 2

BatchesFit == \A p \in Procs : StepsLeft(p) \in 0 .. BatchCost

LEMMA RemainingAt ==
  ASSUME NEW n, NEW k
  PROVE  /\ Remaining("idle", n, k) = 0
         /\ Remaining("listed", n, k) = BatchCost
         /\ Remaining("next", n, k) = n * StepsPerPost + 1
         /\ Remaining("request", n, k) = n * StepsPerPost + 2 * (MaxRetries + 2 - k)
         /\ Remaining("answered", n, k)
              = n * StepsPerPost + 2 * (MaxRetries + 2 - k) + 1
         /\ Remaining("erased", n, k) = n * StepsPerPost + 2
  BY DEF Remaining, BatchCost

\* The products, which the arithmetic below treats as numbers.
LEMMA PostsCost ==
  /\ StepsPerPost \in Nat /\ StepsPerPost = 2 * MaxRetries + 4
  /\ \A n \in Nat : n * StepsPerPost \in Nat
  /\ \A n \in Nat : (n + 1) * StepsPerPost = n * StepsPerPost + StepsPerPost
  /\ \A m, n \in Nat : m <= n => m * StepsPerPost <= n * StepsPerPost
  /\ BatchCost \in Nat
<1>1. StepsPerPost \in Nat /\ StepsPerPost = 2 * MaxRetries + 4
  BY TransportAssumption DEF StepsPerPost
<1>2. ASSUME NEW n \in Nat
      PROVE  /\ n * StepsPerPost \in Nat
             /\ (n + 1) * StepsPerPost = n * StepsPerPost + StepsPerPost
  BY <1>1
<1>3. ASSUME NEW m \in Nat, NEW n \in Nat, m <= n
      PROVE  m * StepsPerPost <= n * StepsPerPost
  <2>1. PICK d \in Nat : n = m + d
    <3>1. n - m \in Nat /\ n = m + (n - m)
      BY <1>3
    <3>2. QED
      BY <3>1
  <2>2. /\ m * StepsPerPost \in Nat /\ d * StepsPerPost \in Nat
        /\ (m + d) * StepsPerPost = m * StepsPerPost + d * StepsPerPost
    BY <1>1
  <2>3. QED
    BY <2>1, <2>2
<1>4. BatchCost \in Nat
  <2>1. Cap * StepsPerPost \in Nat
    BY <1>2, DeleteFlowAssumption
  <2>2. QED
    BY <2>1 DEF BatchCost
<1>5. QED
  BY <1>1, <1>2, <1>3, <1>4

\* The quota bounds what is left of a batch, the post in flight included.
LEMMA StepsAreBounded ==
  ASSUME FlowInv, NEW p \in Procs
  PROVE  StepsLeft(p) \in 0 .. BatchCost
<1> DEFINE n == left[p]
           k == attempt[p]
<1>1. /\ n \in 0 .. Cap /\ k \in 0 .. MaxRetries + 1
      /\ pc[p] \in {"idle", "listed", "next", "request", "answered", "erased"}
      /\ MaxRetries \in Nat /\ Cap \in Nat
  BY TransportAssumption, DeleteFlowAssumption DEF FlowInv, TypeOK
<1>2. Busy(p) => n + 1 <= Cap
  <2>1. Cardinality(OwnDeletions(p)) + Claimed(p) <= Cap
    BY DEF FlowInv, QuotaOK
  <2>2. Cardinality(OwnDeletions(p)) \in Nat
    BY Finite, ClaimedTyped DEF FlowInv, QuotaOK
  <2>3. Busy(p) => Claimed(p) = n + 1
    BY DEF Claimed, Busy
  <2>4. QED
    BY <1>1, <2>1, <2>2, <2>3
<1>3. BatchCost = Cap * StepsPerPost + 2
  BY DEF BatchCost
<1> HIDE DEF n, k
<1>4. /\ n * StepsPerPost \in Nat /\ Cap * StepsPerPost \in Nat
      /\ n * StepsPerPost <= Cap * StepsPerPost
      /\ Busy(p) => n * StepsPerPost + StepsPerPost <= Cap * StepsPerPost
  <2>1. n \in Nat /\ n + 1 \in Nat /\ n <= Cap /\ Cap \in Nat
    BY <1>1
  <2>2. (n + 1) * StepsPerPost = n * StepsPerPost + StepsPerPost
    BY <2>1, PostsCost
  <2>3. QED
    BY <1>2, <2>1, <2>2, PostsCost
<1>5. Remaining(pc[p], n, k) \in 0 .. BatchCost
  <2>1. CASE pc[p] \in {"idle", "listed", "next"}
    BY <1>1, <1>3, <1>4, <2>1, RemainingAt
  <2>2. CASE Busy(p)
    BY <1>1, <1>3, <1>4, <2>2, RemainingAt, PostsCost DEF Busy
  <2>3. QED
    BY <1>1, <2>1, <2>2 DEF Busy
<1>6. QED
  BY <1>5 DEF StepsLeft, n, k

\* Every step of a batch brings its end nearer.
LEMMA StepsDescend ==
  ASSUME FlowInv, FlowInv', NEW p \in Procs, Step(p)
  PROVE  StepsLeft(p)' < StepsLeft(p)
<1> DEFINE n == left[p]
           k == attempt[p]
<1>1. /\ n \in 0 .. Cap /\ k \in 0 .. MaxRetries + 1
      /\ MaxRetries \in Nat /\ Cap \in Nat
      /\ left \in [Procs -> 0 .. Cap] /\ attempt \in [Procs -> 0 .. MaxRetries + 1]
      /\ pc \in [Procs -> {"idle", "listed", "next", "request", "answered", "erased"}]
  BY TransportAssumption, DeleteFlowAssumption DEF FlowInv, TypeOK
<1>2. /\ StepsLeft(p) = Remaining(pc[p], n, k)
      /\ StepsLeft(p)' = Remaining(pc'[p], left'[p], attempt'[p])
  BY DEF StepsLeft
<1>3. /\ n \in Nat /\ n * StepsPerPost \in Nat /\ Cap * StepsPerPost \in Nat
      /\ n * StepsPerPost <= Cap * StepsPerPost
  BY <1>1, PostsCost
<1>4. CASE CheckQuota(p)
  <2>1. pc[p] = "listed"
    BY <1>4 DEF CheckQuota
  <2>2. StepsLeft(p) = Cap * StepsPerPost + 2
    BY <1>2, <2>1, RemainingAt DEF BatchCost
  <2>3. CASE pc'[p] = "idle"
    BY <1>2, <1>3, <2>2, <2>3, RemainingAt
  <2>4. CASE pc'[p] = "next"
    <3>1. left'[p] \in Nat /\ left'[p] <= Cap
      BY DeleteFlowAssumption DEF FlowInv, TypeOK
    <3>2. /\ left'[p] * StepsPerPost \in Nat
          /\ left'[p] * StepsPerPost <= Cap * StepsPerPost
      BY <1>1, <3>1, PostsCost
    <3>3. StepsLeft(p)' = left'[p] * StepsPerPost + 1
      BY <1>2, <2>4, RemainingAt
    <3>4. QED
      BY <1>3, <2>2, <3>2, <3>3
  <2>5. QED
    BY <1>1, <1>4, <2>3, <2>4 DEF CheckQuota, Exit
<1>5. CASE Pick(p)
  <2>1. /\ pc[p] = "next" /\ pc'[p] = "request"
        /\ n > 0 /\ left'[p] = n - 1 /\ attempt'[p] = k
    BY <1>1, <1>5 DEF Pick
  <2>2. k = 0
    BY <2>1 DEF FlowInv, LocalsOK
  <2>3. /\ n * StepsPerPost = (n - 1) * StepsPerPost + StepsPerPost
        /\ (n - 1) * StepsPerPost \in Nat
    <3>1. PICK m \in Nat : n = m + 1
      <4>1. n - 1 \in Nat /\ n = (n - 1) + 1
        BY <1>1, <2>1
      <4>2. QED
        BY <4>1
    <3>2. /\ (m + 1) * StepsPerPost = m * StepsPerPost + StepsPerPost
          /\ m * StepsPerPost \in Nat
      BY PostsCost
    <3>3. n - 1 = m
      BY <3>1
    <3>4. QED
      BY <3>1, <3>2, <3>3
  <2>4. /\ StepsLeft(p) = n * StepsPerPost + 1
        /\ StepsLeft(p)' = (n - 1) * StepsPerPost + 2 * (MaxRetries + 2 - 0)
    BY <1>2, <2>1, <2>2, RemainingAt
  <2>5. QED
    BY <1>1, <1>3, <2>3, <2>4, PostsCost
<1>6. CASE Finish(p) \/ EraseFails(p) \/ StopRateLimited(p)
  <2>1. pc[p] \in {"next", "answered"} /\ pc'[p] = "idle"
    BY <1>1, <1>6 DEF Finish, EraseFails, StopRateLimited, Returned, Exit
  <2>2. QED
    BY <1>1, <1>2, <1>3, <2>1, RemainingAt
<1>7. CASE \E a \in Answers : Exchange(p, a)
  <2>1. /\ pc[p] = "request" /\ pc'[p] = "answered"
        /\ left'[p] = n /\ attempt'[p] = k + 1
    BY <1>1, <1>7 DEF Exchange
  <2>2. QED
    BY <1>1, <1>2, <1>3, <2>1, RemainingAt
<1>8. CASE Retry(p)
  <2>1. /\ pc[p] = "answered" /\ pc'[p] = "request"
        /\ left'[p] = n /\ attempt'[p] = k
    BY <1>1, <1>8 DEF Retry
  <2>2. QED
    BY <1>1, <1>2, <1>3, <2>1, RemainingAt
<1>9. CASE Erase(p)
  <2>1. pc[p] = "answered" /\ pc'[p] = "erased" /\ left'[p] = n
    BY <1>1, <1>9 DEF Erase, Returned
  <2>2. QED
    BY <1>1, <1>2, <1>3, <2>1, RemainingAt
<1>10. CASE RecordSuccess(p) \/ RecordFailure(p)
  <2>1. pc[p] \in {"answered", "erased"} /\ pc'[p] = "next" /\ left'[p] = n
    BY <1>1, <1>10 DEF RecordSuccess, RecordFailure, Returned, Continue
  <2>2. QED
    BY <1>1, <1>2, <1>3, <2>1, RemainingAt
<1>11. QED
  BY <1>4, <1>5, <1>6, <1>7, <1>8, <1>9, <1>10 DEF Step

\* Whatever the others do, and a kill, do not lengthen it; only the process
\* itself, by listing again, starts a new one.
LEMMA OthersDoNotLengthen ==
  ASSUME FlowInv, BatchesFit, BatchesFit',
         NEW p \in Procs, [Next]_vars, ~List(p), ~Step(p)
  PROVE  StepsLeft(p)' <= StepsLeft(p)
<1>1. StepsLeft(p) \in Nat /\ StepsLeft(p)' \in Nat
  BY PostsCost DEF BatchesFit
<1>2. CASE Crash(p)
  <2>1. pc'[p] = "idle"
    BY <1>2 DEF Crash, Exit, FlowInv, TypeOK
  <2>2. StepsLeft(p)' = 0
    BY <2>1, RemainingAt DEF StepsLeft
  <2>3. QED
    BY <1>1, <2>2
<1>3. CASE ~Crash(p)
  <2>1. pc'[p] = pc[p] /\ left'[p] = left[p] /\ attempt'[p] = attempt[p]
    <3>1. ASSUME NEW q \in Procs, q # p, List(q) \/ Step(q) \/ Crash(q)
          PROVE  pc'[p] = pc[p] /\ left'[p] = left[p] /\ attempt'[p] = attempt[p]
      BY <3>1 DEF List, Crash, Step, CheckQuota, Pick, Finish, Exchange, Retry,
                  Erase, EraseFails, RecordSuccess, StopRateLimited,
                  RecordFailure, Exit, Continue, FlowInv, TypeOK
    <3>2. QED
      BY <1>3, <3>1 DEF Next, Fetch, Flush, Tick, vars, process
  <2>2. StepsLeft(p)' = StepsLeft(p)
    BY <2>1 DEF StepsLeft
  <2>3. QED
    BY <1>1, <2>2
<1>4. QED
  BY <1>2, <1>3

\* A batch takes a bounded number of steps, whatever the service answers and
\* whatever runs beside it: Cap * (2 * MaxRetries + 4) + 2 at most.
THEOREM BatchesAreBounded ==
  Spec => /\ []BatchesFit
          /\ [][\A p \in Procs :
                  /\ Step(p) => StepsLeft(p)' < StepsLeft(p)
                  /\ ~List(p) => StepsLeft(p)' <= StepsLeft(p)]_vars
<1>1. FlowInv => BatchesFit
  BY StepsAreBounded DEF BatchesFit
<1>2. FlowInv /\ FlowInv' /\ BatchesFit /\ BatchesFit' /\ [Next]_vars =>
        [\A p \in Procs :
            /\ Step(p) => StepsLeft(p)' < StepsLeft(p)
            /\ ~List(p) => StepsLeft(p)' <= StepsLeft(p)]_vars
  <2> SUFFICES ASSUME FlowInv, FlowInv', BatchesFit, BatchesFit', [Next]_vars,
                      NEW p \in Procs
               PROVE  /\ Step(p) => StepsLeft(p)' < StepsLeft(p)
                      /\ ~List(p) => StepsLeft(p)' <= StepsLeft(p)
    OBVIOUS
  <2>1. Step(p) => StepsLeft(p)' < StepsLeft(p)
    BY StepsDescend
  <2>2. StepsLeft(p)' < StepsLeft(p) => StepsLeft(p)' <= StepsLeft(p)
    BY PostsCost DEF BatchesFit
  <2>3. QED
    BY <2>1, <2>2, OthersDoNotLengthen
<1>3. QED
  BY <1>1, <1>2, FlowInvariant, PTL DEF Spec

=============================================================================
