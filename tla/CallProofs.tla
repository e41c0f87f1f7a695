------------------------------- MODULE CallProofs -------------------------------
(***************************************************************************)
(* Theorems about one call through the HTTP client, and about post create, *)
(* which is made of such calls.  Both promise the same: to be a RemoteCall.*)
(***************************************************************************)
EXTENDS Publish, FiniteSetTheorems, SequenceTheorems, TLAPS

\* The state of one call, under names that post create has not taken.  The
\* service may send any Retry-After.
VARIABLES method, place, sent, delay, last, applied, slept, outcome

Call == INSTANCE HttpCall
          WITH RetryAfters <- Nat, pc <- place, attempt <- sent, answer <- last,
               result <- outcome

-----------------------------------------------------------------------------
(* A call                                                                  *)

\* Requests still allowed, and waits already paid for, at each point of the
\* loop.
Progress ==
  /\ place \in {"ready", "waiting"} =>
       /\ sent <= MaxRetries
       /\ slept <= sent * MaxRetryDelay
  /\ place \in {"answered", "done"} =>
       /\ sent \in 1 .. MaxRetries + 1
       /\ slept <= (sent - 1) * MaxRetryDelay

\* What the history says of a POST and of a success.
History ==
  /\ place \in {"ready", "waiting"} /\ method = "POST" => sent = 0 /\ applied = 0
  /\ method = "POST" => applied <= 1
  /\ method = "POST" /\ place = "answered" /\ last \in Call!Refusals => applied = 0
  /\ place = "answered" /\ last = "2xx" => applied > 0
  /\ place # "done" <=> outcome = Pending

CallInv == Call!TypeOK /\ Progress /\ History

-----------------------------------------------------------------------------

\* A wait never exceeds the cap, whatever the service asks for.
LEMMA WaitsAreCapped ==
  ASSUME NEW base \in FirstDelay .. MaxRetryDelay, NEW ms,
         ms \in Call!Backoffs(base) \cup {Call!RetryAfter(r) : r \in Nat}
  PROVE  ms \in 0 .. MaxRetryDelay
  BY TransportAssumption, PublishAssumption
     DEF Call!Backoffs, Call!RetryAfter, Call!AtMost

LEMMA NextDelayTyped ==
  ASSUME NEW base \in FirstDelay .. MaxRetryDelay
  PROVE  Call!NextDelay(base) \in FirstDelay .. MaxRetryDelay
  BY TransportAssumption DEF Call!NextDelay, Call!AtMost

\* A POST is not retried.
LEMMA PostIsFinal ==
  ASSUME NEW a, NEW n
  PROVE  ~Call!Retries("POST", n, a)
  BY DEF Call!Retries, Call!RetriesStatusErrors

\* Refusals end in the errors that say so, a success in no such error.
LEMMA ResultsTyped ==
  ASSUME NEW a \in Call!Answers
  PROVE  /\ Call!ResultsOf(a) \subseteq Call!Results
         /\ "Ok" \in Call!ResultsOf(a) => a = "2xx"
         /\ \A r \in Call!ResultsOf(a) :
              r \in {"Auth", "PermissionDenied", "NotFound", "RateLimit", "Other"}
                => a \in Call!Refusals
  BY DEF Call!ResultsOf, Call!ErrorOf, Call!Answers, Call!Refusals, Call!Results, Call!Errors

LEMMA ExchangeKeepsInv ==
  ASSUME CallInv, NEW a \in Call!Answers, Call!Exchange(a)
  PROVE  CallInv'
<1>1. /\ place = "ready" /\ place' = "answered"
      /\ sent' = sent + 1
      /\ last' = a
      /\ UNCHANGED <<method, delay, slept, outcome>>
  BY DEF Call!Exchange
<1>2. PICK carried \in Call!Carries(a) :
        applied' = IF carried THEN applied + 1 ELSE applied
  BY DEF Call!Exchange
<1>3. /\ a = "2xx" => carried
      /\ a \in Call!Refusals => ~carried
      /\ carried \in BOOLEAN
  BY <1>2 DEF Call!Carries, Call!Answers, Call!Refusals
<1>4. Call!TypeOK'
  BY <1>1, <1>2, <1>3 DEF CallInv, Call!TypeOK
<1>5. Progress'
  BY <1>1, TransportAssumption DEF CallInv, Call!TypeOK, Progress
<1>6. History'
  BY <1>1, <1>2, <1>3 DEF CallInv, Call!TypeOK, History
<1>7. QED
  BY <1>4, <1>5, <1>6 DEF CallInv

LEMMA WaitKeepsInv ==
  ASSUME CallInv, Call!Wait
  PROVE  CallInv'
<1>1. /\ place = "answered" /\ place' = "waiting"
      /\ Call!Retries(method, sent, last)
      /\ UNCHANGED <<method, sent, delay, last, applied, outcome>>
  BY DEF Call!Wait
<1>2. PICK ms \in 0 .. MaxRetryDelay : slept' = slept + ms
  BY WaitsAreCapped DEF Call!Wait, CallInv, Call!TypeOK
<1>3. sent <= MaxRetries /\ method # "POST"
  BY <1>1, PostIsFinal DEF Call!Retries
<1>4. Call!TypeOK'
  BY <1>1, <1>2, TransportAssumption DEF CallInv, Call!TypeOK
<1>5. Progress'
  <2>1. /\ sent \in Nat /\ sent >= 1 /\ slept \in Nat
        /\ slept <= (sent - 1) * MaxRetryDelay
        /\ MaxRetryDelay \in Nat
    BY <1>1, TransportAssumption DEF CallInv, Call!TypeOK, Progress
  <2>2. (sent - 1) * MaxRetryDelay + MaxRetryDelay = sent * MaxRetryDelay
    BY <2>1
  <2>3. slept' <= sent * MaxRetryDelay
    BY <1>2, <2>1, <2>2
  <2>4. QED
    BY <1>1, <1>3, <2>3 DEF Progress
<1>6. History'
  BY <1>1, <1>3 DEF CallInv, History
<1>7. QED
  BY <1>4, <1>5, <1>6 DEF CallInv

LEMMA WakeKeepsInv ==
  ASSUME CallInv, Call!Wake
  PROVE  CallInv'
  BY NextDelayTyped DEF Call!Wake, CallInv, Call!TypeOK, Progress, History

LEMMA ReturnKeepsInv ==
  ASSUME CallInv, Call!Return
  PROVE  CallInv'
<1>1. outcome' \in Call!Results /\ outcome' # Pending
  BY ResultsTyped, PublishAssumption
     DEF Call!Return, CallInv, Call!TypeOK, Outcomes, Results, Errors, Call!Results,
         Call!Errors
<1>2. QED
  BY <1>1 DEF Call!Return, CallInv, Call!TypeOK, Progress, History

LEMMA InitCallInv == Call!Init => CallInv
  BY TransportAssumption, PublishAssumption
     DEF Call!Init, CallInv, Call!TypeOK, Progress, History, Call!Answers

LEMMA NextKeepsCallInv == CallInv /\ [Call!Next]_(Call!vars) => CallInv'
<1> SUFFICES ASSUME CallInv, [Call!Next]_(Call!vars)
             PROVE  CallInv'
  OBVIOUS
<1>1. CASE \E a \in Call!Answers : Call!Exchange(a)
  BY <1>1, ExchangeKeepsInv
<1>2. CASE Call!Wait
  BY <1>2, WaitKeepsInv
<1>3. CASE Call!Wake
  BY <1>3, WakeKeepsInv
<1>4. CASE Call!Return
  BY <1>4, ReturnKeepsInv
<1>5. CASE Call!Done \/ UNCHANGED Call!vars
  BY <1>5 DEF Call!Done, Call!vars, CallInv, Call!TypeOK, Progress, History
<1>6. QED
  BY <1>1, <1>2, <1>3, <1>4, <1>5 DEF Call!Next

LEMMA CallInvariant == Call!Spec => []CallInv
  BY InitCallInv, NextKeepsCallInv, PTL DEF Call!Spec

-----------------------------------------------------------------------------

\* A call costs at most MaxRetries + 1 requests and MaxRetries capped waits,
\* however long a Retry-After the service sends.
THEOREM CostIsBounded == Call!Spec => []Call!CostBounded
<1>1. CallInv => Call!CostBounded
  <2> SUFFICES ASSUME CallInv
               PROVE  Call!CostBounded
    OBVIOUS
  <2>1. /\ MaxRetries \in Nat /\ MaxRetryDelay \in Nat
        /\ sent \in Nat /\ slept \in Nat
    BY TransportAssumption DEF CallInv, Call!TypeOK
  <2>2. CASE place \in {"ready", "waiting"}
    <3>1. sent <= MaxRetries /\ slept <= sent * MaxRetryDelay
      BY <2>2 DEF CallInv, Progress
    <3>2. sent * MaxRetryDelay <= MaxRetries * MaxRetryDelay
      BY <2>1, <3>1
    <3>3. QED
      BY <2>1, <3>1, <3>2 DEF Call!CostBounded
  <2>3. CASE place \in {"answered", "done"}
    <3>1. /\ sent \in 1 .. MaxRetries + 1
          /\ slept <= (sent - 1) * MaxRetryDelay
      BY <2>3 DEF CallInv, Progress
    <3>2. (sent - 1) * MaxRetryDelay <= MaxRetries * MaxRetryDelay
      BY <2>1, <3>1
    <3>3. QED
      BY <2>1, <3>1, <3>2 DEF Call!CostBounded
  <2>4. QED
    BY <2>2, <2>3 DEF CallInv, Call!TypeOK
<1>2. QED
  BY <1>1, CallInvariant, PTL

\* The retry loop implements the abstract call: a POST is carried out at most
\* once and not at all when refused, and a success has been carried out.
THEOREM CallIsSafe == Call!Spec => Call!Abstract!Safety
<1>1. Call!Init => Call!Abstract!Init
  BY DEF Call!Init, Call!Abstract!Init
<1>2. CallInv /\ [Call!Next]_(Call!vars) => [Call!Abstract!Next]_(Call!Abstract!vars)
  <2> SUFFICES ASSUME CallInv, [Call!Next]_(Call!vars)
               PROVE  [Call!Abstract!Next]_(Call!Abstract!vars)
    OBVIOUS
  <2>1. ASSUME NEW a \in Call!Answers, Call!Exchange(a)
        PROVE  [Call!Abstract!Next]_(Call!Abstract!vars)
    <3>1. PICK carried \in Call!Carries(a) :
            applied' = IF carried THEN applied + 1 ELSE applied
      BY <2>1 DEF Call!Exchange
    <3>2. CASE carried
      <4>1. /\ outcome = Pending
            /\ method = "POST" => applied = 0
        BY <2>1 DEF Call!Exchange, CallInv, History
      <4>2. Call!Abstract!Perform
        BY <2>1, <3>1, <3>2, <4>1 DEF Call!Exchange, Call!Abstract!Perform
      <4>3. QED
        BY <4>2 DEF Call!Abstract!Next
    <3>3. CASE ~carried
      BY <2>1, <3>1, <3>3 DEF Call!Exchange, Call!Abstract!vars
    <3>4. QED
      BY <3>2, <3>3
  <2>2. CASE Call!Return
    <3>1. /\ outcome = Pending
          /\ outcome' \in Call!ResultsOf(last)
          /\ UNCHANGED <<method, applied>>
      BY <2>2 DEF Call!Return, CallInv, History
    <3>2. Call!Abstract!Return(outcome') /\ outcome' \in Call!Results
      BY <2>2, <3>1, ResultsTyped
         DEF Call!Return, Call!Abstract!Return, CallInv, Call!TypeOK, History
    <3>3. QED
      BY <3>2 DEF Call!Abstract!Next
  <2>3. CASE Call!Wait \/ Call!Wake \/ Call!Done \/ UNCHANGED Call!vars
    BY <2>3 DEF Call!Wait, Call!Wake, Call!Done, Call!vars, Call!Abstract!vars
  <2>4. QED
    BY <2>1, <2>2, <2>3 DEF Call!Next
<1>3. QED
  BY <1>1, <1>2, CallInvariant, PTL DEF Call!Spec, Call!Abstract!Safety

-----------------------------------------------------------------------------
(* The command                                                             *)

\* Containers that hold one item each, in order, all seen finished.
Ordered(all, done, parts) ==
  \A i \in DOMAIN parts :
    /\ parts[i] \in done \cap DOMAIN all
    /\ all[parts[i]].item = i

\* How many of them a request needs.
Parts(asked) == IF asked.items > 1 THEN asked.items ELSE 0

\* A container for the post itself is made once every item is finished.
WholePost(asked, all, done, c) ==
  c.item = 0 =>
    /\ c.reply = asked.reply
    /\ Len(c.children) = Parts(asked)
    /\ Ordered(all, done, c.children)

Containers(asked, all, done, parts) ==
  /\ Ordered(all, done, parts)
  /\ Len(parts) <= Parts(asked)
  /\ \A c \in DOMAIN all : WholePost(asked, all, done, all[c])

Publishable(asked, all, done, c) ==
  /\ c \in DOMAIN all
  /\ all[c].item = 0
  /\ asked.items > 0 => c \in done

\* What a command knows of its containers at each place.
Knows(p) ==
  /\ pc[p] = "created" /\ answer[p] = "2xx" =>
       made[p] # <<>> /\ made[p][Len(made[p])] = Wanted(p)
  /\ pc[p] = "poll" =>
       /\ HasMedia(p) /\ polls[p] < MaxPolls
       /\ current[p] \in DOMAIN made[p] /\ made[p][current[p]] = Wanted(p)
  /\ pc[p] = "publish" => Publishable(request[p], made[p], ready[p], current[p])

\* What has been published by then, and what the answer says of it.
Effects(p) ==
  /\ Len(published[p]) <= 1
  /\ \A i \in DOMAIN published[p] :
       Publishable(request[p], made[p], ready[p], published[p][i])
  /\ pc[p] \notin {"published", "store", "done"} => published[p] = <<>>
  /\ pc[p] = "published" /\ answer[p] = "2xx" => published[p] # <<>>
  /\ pc[p] = "published" /\ answer[p] \in Refusals => published[p] = <<>>
  /\ pc[p] = "store" => published[p] # <<>>
  /\ pc[p] # "done" <=> result[p] = Pending

CommandInv(p) ==
  /\ Containers(request[p], made[p], ready[p], children[p])
  /\ Knows(p)
  /\ Effects(p)

\* Commands that have published against a quota, and those that have found room
\* in it and may yet do so.
Spent(k)    == {p \in Procs : QuotaOf(p) = k /\ published[p] # <<>>}
Admitted(k) == {p \in Procs : QuotaOf(p) = k /\ pc[p] \notin {"quota", "done"}}

\* Whoever is admitted has found less than the total; each post since then is one
\* of those spent.
Account(k) ==
  /\ usage[k] <= Total[k] + Cardinality(Spent(k))
  /\ Spent(k) \cup Admitted(k) # {} => usage[k] < Total[k] + Cardinality(Spent(k))

PublishInv ==
  /\ TypeOK
  /\ \A p \in Procs : CommandInv(p)
  /\ \A k \in Quotas : Account(k)

\* A step of a command is its own.
Alone(p) ==
  \A q \in Procs \ {p} :
    /\ made'[q] = made[q] /\ published'[q] = published[q]
    /\ pc'[q] = pc[q] /\ current'[q] = current[q] /\ children'[q] = children[q]
    /\ ready'[q] = ready[q] /\ polls'[q] = polls[q]
    /\ answer'[q] = answer[q] /\ result'[q] = result[q]

Stepped(p) == TypeOK' /\ request' = request /\ CommandInv(p)' /\ Alone(p)

-----------------------------------------------------------------------------
(* Containers                                                              *)

\* The service makes containers and takes none back.
Grown(all, more) ==
  DOMAIN all \subseteq DOMAIN more /\ \A c \in DOMAIN all : more[c] = all[c]

LEMMA OrderedGrows ==
  ASSUME NEW all, NEW more, Grown(all, more),
         NEW done, NEW yet, done \subseteq yet,
         NEW parts, Ordered(all, done, parts)
  PROVE  Ordered(more, yet, parts)
  BY DEF Ordered, Grown

LEMMA WholeGrows ==
  ASSUME NEW asked, NEW all, NEW more, Grown(all, more),
         NEW done, NEW yet, done \subseteq yet,
         NEW c, WholePost(asked, all, done, c)
  PROVE  WholePost(asked, more, yet, c)
  BY OrderedGrows DEF WholePost

LEMMA PublishableGrows ==
  ASSUME NEW asked, NEW all, NEW more, Grown(all, more),
         NEW done, NEW yet, done \subseteq yet,
         NEW c, Publishable(asked, all, done, c)
  PROVE  Publishable(asked, more, yet, c)
  BY DEF Publishable, Grown

\* A container that is seen finished changes nothing of the others.
LEMMA FinishingKeeps ==
  ASSUME NEW asked, NEW all, NEW done, NEW yet, done \subseteq yet, NEW parts,
         Containers(asked, all, done, parts)
  PROVE  Containers(asked, all, yet, parts)
<1>1. Grown(all, all)
  BY DEF Grown
<1>2. QED
  BY <1>1, OrderedGrows, WholeGrows DEF Containers

LEMMA MakingKeeps ==
  ASSUME NEW asked, NEW all \in Seq(Container), NEW done, NEW parts, NEW c \in Container,
         Containers(asked, all, done, parts), WholePost(asked, all, done, c)
  PROVE  /\ Grown(all, Append(all, c))
         /\ Containers(asked, Append(all, c), done, parts)
<1> DEFINE more == Append(all, c)
<1>1. /\ more \in Seq(Container) /\ Len(all) \in Nat
      /\ DOMAIN all = 1 .. Len(all) /\ DOMAIN more = 1 .. Len(all) + 1
      /\ \A i \in DOMAIN all : more[i] = all[i]
      /\ more[Len(all) + 1] = c
  BY AppendProperties, LenProperties
<1> HIDE DEF more
<1>2. Grown(all, more)
  BY <1>1 DEF Grown
<1>3. \A d \in DOMAIN more : WholePost(asked, more, done, more[d])
  <2> SUFFICES ASSUME NEW d \in DOMAIN more
               PROVE  WholePost(asked, more, done, more[d])
    OBVIOUS
  <2>1. more[d] = c \/ (d \in DOMAIN all /\ more[d] = all[d])
    BY <1>1
  <2>2. WholePost(asked, all, done, more[d])
    BY <2>1 DEF Containers
  <2>3. done \subseteq done
    OBVIOUS
  <2>4. QED
    BY <2>2, <2>3, <1>2, WholeGrows
<1>4. Containers(asked, more, done, parts)
  BY <1>2, <1>3, OrderedGrows DEF Containers
<1>5. QED
  BY <1>2, <1>4 DEF more

\* The next item of a carousel.
LEMMA ItemFits ==
  ASSUME NEW asked, NEW all, NEW done, NEW parts \in Seq(Nat), NEW c \in Nat,
         Containers(asked, all, done, parts),
         c \in DOMAIN all, c \in done, all[c].item = Len(parts) + 1,
         Len(parts) < Parts(asked), Parts(asked) \in Nat
  PROVE  Containers(asked, all, done, Append(parts, c))
<1> DEFINE longer == Append(parts, c)
<1>1. /\ longer \in Seq(Nat) /\ Len(parts) \in Nat
      /\ Len(longer) = Len(parts) + 1
      /\ DOMAIN parts = 1 .. Len(parts) /\ DOMAIN longer = 1 .. Len(parts) + 1
      /\ \A i \in DOMAIN parts : longer[i] = parts[i]
      /\ longer[Len(parts) + 1] = c
  BY AppendProperties, LenProperties
<1> HIDE DEF longer
<1>2. Ordered(all, done, longer)
  BY <1>1 DEF Containers, Ordered
<1>3. Containers(asked, all, done, longer)
  BY <1>1, <1>2 DEF Containers
<1>4. QED
  BY <1>3 DEF longer

\* What is made next is an item that is missing, or the post with all of them.
LEMMA WantedFits ==
  ASSUME TypeOK, NEW p \in Procs, CommandInv(p)
  PROVE  /\ Wanted(p) \in Container
         /\ WholePost(request[p], made[p], ready[p], Wanted(p))
<1>1. /\ request[p] \in Requests /\ children[p] \in Seq(Nat)
      /\ Len(children[p]) \in Nat /\ MaxItems \in Nat
      /\ request[p].items \in 0 .. MaxItems /\ request[p].reply \in BOOLEAN
  BY PublishAssumption, LenProperties DEF TypeOK, Requests
<1>2. CASE NeedsItem(p)
  <2>1. Wanted(p) = [item |-> Len(children[p]) + 1, reply |-> FALSE, children |-> <<>>]
    BY <1>2 DEF Wanted, Item
  <2>2. Len(children[p]) + 1 \in 1 .. MaxItems
    BY <1>1, <1>2 DEF NeedsItem
  <2>3. <<>> \in Seq(Nat)
    BY EmptySeq
  <2>4. Len(children[p]) + 1 \in 0 .. MaxItems /\ Len(children[p]) + 1 # 0
    BY <1>1, <2>2
  <2>5. Wanted(p) \in Container /\ Wanted(p).item # 0
    BY <2>1, <2>3, <2>4 DEF Container
  <2>6. QED
    BY <2>5 DEF WholePost
<1>3. CASE ~NeedsItem(p)
  <2>1. Wanted(p) = [item |-> 0, reply |-> request[p].reply, children |-> children[p]]
    BY <1>3 DEF Wanted, Post
  <2>2. Len(children[p]) = Parts(request[p]) /\ Ordered(made[p], ready[p], children[p])
    BY <1>1, <1>3 DEF CommandInv, Containers, NeedsItem, IsCarousel, Parts
  <2>3. Wanted(p) \in Container
    BY <1>1, <2>1, PublishAssumption DEF Container
  <2>4. QED
    BY <2>1, <2>2, <2>3 DEF WholePost
<1>4. QED
  BY <1>2, <1>3

-----------------------------------------------------------------------------
(* The steps of a command                                                  *)

\* Kept: what a command has been asked, has made and has finished.
Material(p) ==
  /\ request' = request
  /\ made'[p] = made[p] /\ ready'[p] = ready[p] /\ children'[p] = children[p]

\* A step that leaves the containers as they are leaves what is said of them.
LEMMA MaterialKept ==
  ASSUME NEW p, CommandInv(p), Material(p), published'[p] = published[p]
  PROVE  /\ Containers(request[p], made[p], ready[p], children[p])'
         /\ Len(published[p])' <= 1
         /\ \A i \in DOMAIN published'[p] :
              Publishable(request'[p], made'[p], ready'[p], published'[p][i])
         /\ Wanted(p)' = Wanted(p)
         /\ HasMedia(p)' = HasMedia(p)
<1>1. /\ Containers(request[p], made[p], ready[p], children[p])'
      /\ Len(published[p])' <= 1
      /\ \A i \in DOMAIN published'[p] :
           Publishable(request'[p], made'[p], ready'[p], published'[p][i])
  BY DEF CommandInv, Effects, Material
<1>2. /\ Wanted(p)' = Wanted(p)
      /\ HasMedia(p)' = HasMedia(p)
  BY DEF Material, Wanted, NeedsItem, IsCarousel, Item, Post, HasMedia
<1>3. QED
  BY <1>1, <1>2

\* The command goes on to another place, or returns.
LEMMA GoesOn ==
  ASSUME TypeOK, NEW p \in Procs, CommandInv(p), Material(p), Alone(p), TypeOK',
         published'[p] = published[p],
         pc'[p] # "done" <=> result'[p] = Pending,
         pc'[p] \in {"quota", "confirm", "create", "poll", "publish"}
           => published[p] = <<>>,
         pc'[p] = "store" => published[p] # <<>>,
         pc'[p] \notin {"created", "published"},
         pc'[p] = "poll" =>
           /\ HasMedia(p) /\ polls'[p] < MaxPolls
           /\ current'[p] \in DOMAIN made[p] /\ made[p][current'[p]] = Wanted(p),
         pc'[p] = "publish"
           => Publishable(request[p], made[p], ready[p], current'[p])
  PROVE  Stepped(p)
<1>1. /\ Containers(request[p], made[p], ready[p], children[p])'
      /\ Len(published[p])' <= 1
      /\ \A i \in DOMAIN published'[p] :
           Publishable(request'[p], made'[p], ready'[p], published'[p][i])
      /\ Wanted(p)' = Wanted(p)
      /\ HasMedia(p)' = HasMedia(p)
  BY MaterialKept
<1>2. /\ request' = request
      /\ made'[p] = made[p] /\ ready'[p] = ready[p] /\ children'[p] = children[p]
  BY DEF Material
<1>3. Knows(p)'
  BY <1>1, <1>2 DEF Knows
<1>4. pc'[p] \in Stages \cup {"done"}
  BY DEF TypeOK
<1>5. Effects(p)'
  BY <1>1, <1>2, <1>4 DEF Effects, Stages
<1>6. QED
  BY <1>1, <1>2, <1>3, <1>5 DEF Stepped, CommandInv

LEMMA OutcomesOpen ==
  /\ Pending \notin Outcomes
  /\ Errors \cup EarlyErrors \cup {"Ok", "NotStored", "Killed"} \subseteq Outcomes
  BY PublishAssumption DEF Outcomes, Results

LEMMA CheckQuotaSteps ==
  ASSUME TypeOK, NEW p \in Procs, CommandInv(p), CheckQuota(p)
  PROVE  Stepped(p)
<1>1. /\ pc[p] = "quota"
      /\ UNCHANGED <<request, usage, made, published, current, children, ready,
                     polls, attempt, answer, stored>>
      /\ \/ \E r \in EarlyErrors : /\ result' = [result EXCEPT ![p] = r]
                                   /\ pc' = [pc EXCEPT ![p] = "done"]
         \/ pc' = [pc EXCEPT ![p] = "confirm"] /\ result' = result
  BY DEF CheckQuota, End, Goto, service, EarlyErrors
<1>2. TypeOK'
  BY <1>1, OutcomesOpen DEF TypeOK, Stages
<1>3. Alone(p) /\ Material(p)
  BY <1>1 DEF Alone, Material, TypeOK
<1>4. pc'[p] \in {"done", "confirm"} /\ (pc'[p] # "done" <=> result'[p] = Pending)
  BY <1>1, OutcomesOpen DEF TypeOK, CommandInv, Effects
<1>5. published[p] = <<>>
  BY <1>1 DEF CommandInv, Effects
<1>6. QED
  BY <1>1, <1>2, <1>3, <1>4, <1>5, GoesOn

LEMMA ConfirmSteps ==
  ASSUME TypeOK, NEW p \in Procs, CommandInv(p), Confirm(p)
  PROVE  Stepped(p)
<1>1. /\ pc[p] = "confirm"
      /\ UNCHANGED <<request, usage, made, published, current, children, ready,
                     polls, attempt, answer, stored>>
      /\ \/ \E r \in EarlyErrors : /\ result' = [result EXCEPT ![p] = r]
                                   /\ pc' = [pc EXCEPT ![p] = "done"]
         \/ pc' = [pc EXCEPT ![p] = "create"] /\ result' = result
  BY DEF Confirm, End, Goto, service, EarlyErrors
<1>2. TypeOK'
  BY <1>1, OutcomesOpen DEF TypeOK, Stages
<1>3. Alone(p) /\ Material(p)
  BY <1>1 DEF Alone, Material, TypeOK
<1>4. pc'[p] \in {"done", "create"} /\ (pc'[p] # "done" <=> result'[p] = Pending)
  BY <1>1, OutcomesOpen DEF TypeOK, CommandInv, Effects
<1>5. published[p] = <<>>
  BY <1>1 DEF CommandInv, Effects
<1>6. QED
  BY <1>1, <1>2, <1>3, <1>4, <1>5, GoesOn

\* No POST is sent again.
LEMMA CommandsPostOnce ==
  ASSUME NEW p, NEW a, NEW again, NEW after, Exchange(p, a, again, after)
  PROVE  /\ attempt' = [attempt EXCEPT ![p] = @ + 1]
         /\ answer' = [answer EXCEPT ![p] = a]
         /\ pc' = [pc EXCEPT ![p] = after]
<1>1. ~Retries("POST", attempt[p] + 1, a)
  BY DEF Retries, RetriesStatusErrors
<1>2. QED
  BY <1>1 DEF Exchange, Goto

LEMMA CreateSteps ==
  ASSUME TypeOK, NEW p \in Procs, CommandInv(p), NEW a \in Answers, Create(p, a)
  PROVE  Stepped(p)
<1> SUFFICES ASSUME NEW w, w = Wanted(p)
             PROVE  Stepped(p)
  OBVIOUS
<1>1. /\ pc[p] = "create"
      /\ attempt' = [attempt EXCEPT ![p] = @ + 1]
      /\ answer' = [answer EXCEPT ![p] = a]
      /\ pc' = [pc EXCEPT ![p] = "created"]
      /\ UNCHANGED <<request, usage, published, current, children, ready, polls,
                     result, stored>>
  BY CommandsPostOnce DEF Create
<1>2. \/ made' = [made EXCEPT ![p] = Append(@, w)]
      \/ a # "2xx" /\ made' = made
  <2>1. PICK carried \in Carries(a) :
          made' = IF carried THEN [made EXCEPT ![p] = Append(@, Wanted(p))] ELSE made
    BY DEF Create
  <2>2. a = "2xx" => carried
    BY DEF Carries, Refusals
  <2>3. QED
    BY <2>1, <2>2
<1>3. /\ made[p] \in Seq(Container) /\ Len(made[p]) \in Nat /\ pc \in [Procs -> Stages \cup {"done"}]
      /\ w \in Container /\ WholePost(request[p], made[p], ready[p], w)
  BY WantedFits, LenProperties DEF TypeOK
<1>4. /\ made'[p] \in Seq(Container)
      /\ Grown(made[p], made'[p])
      /\ Containers(request[p], made'[p], ready[p], children[p])
      /\ Len(made[p]) <= Len(made'[p])
      /\ a = "2xx" => made'[p] # <<>> /\ made'[p][Len(made'[p])] = w
  <2>1. CASE made' = [made EXCEPT ![p] = Append(@, w)]
    <3>1. made'[p] = Append(made[p], w)
      BY <2>1 DEF TypeOK
    <3>2. /\ Grown(made[p], Append(made[p], w))
          /\ Containers(request[p], Append(made[p], w), ready[p], children[p])
      BY <1>3, MakingKeeps DEF CommandInv
    <3>3. QED
      BY <3>1, <3>2, <1>3, AppendProperties
  <2>2. CASE a # "2xx" /\ made' = made
    BY <2>2, <1>3 DEF Grown, CommandInv
  <2>3. QED
    BY <1>2, <2>1, <2>2
<1>5. made' \in [Procs -> Seq(Container)] /\ \A q \in Procs \ {p} : made'[q] = made[q]
  BY <1>2, <1>4 DEF TypeOK
<1>6. \A q \in Procs : current'[q] \in 0 .. Len(made'[q])
  <2> SUFFICES ASSUME NEW q \in Procs
               PROVE  current'[q] \in 0 .. Len(made'[q])
    OBVIOUS
  <2>1. current'[q] \in 0 .. Len(made[q]) /\ Len(made[q]) \in Nat /\ Len(made'[q]) \in Nat
    BY <1>1, <1>5, LenProperties DEF TypeOK
  <2>2. Len(made[q]) <= Len(made'[q])
    BY <1>4, <1>5, <2>1
  <2>3. QED
    BY <2>1, <2>2
<1>7. TypeOK'
  <2>1. /\ attempt' \in [Procs -> Nat] /\ answer' \in [Procs -> Answers]
        /\ pc' \in [Procs -> Stages \cup {"done"}]
    BY <1>1 DEF TypeOK, Stages
  <2>2. QED
    BY <1>1, <1>5, <1>6, <2>1 DEF TypeOK
<1>8. Alone(p)
  BY <1>1, <1>5 DEF Alone, TypeOK
<1>9. /\ pc'[p] = "created" /\ answer'[p] = a
      /\ request' = request /\ published' = published /\ result' = result
      /\ children' = children /\ ready' = ready
  BY <1>1 DEF TypeOK
<1>10. Wanted(p)' = w
  BY <1>1 DEF Wanted, NeedsItem, IsCarousel, Item, Post
<1>11. Knows(p)'
  <2>1. answer'[p] = "2xx" => made'[p] # <<>> /\ made'[p][Len(made'[p])] = Wanted(p)'
    BY <1>4, <1>9, <1>10
  <2>2. QED
    BY <1>9, <2>1 DEF Knows
<1>12. published[p] = <<>> /\ result[p] = Pending
  BY <1>1 DEF CommandInv, Effects
<1>13. Effects(p)'
  <2>1. published'[p] = <<>> /\ Len(published'[p]) = 0 /\ DOMAIN published'[p] = {}
    BY <1>9, <1>12
  <2>2. result'[p] = Pending
    BY <1>9, <1>12
  <2>3. QED
    BY <1>9, <2>1, <2>2 DEF Effects
<1>14. QED
  BY <1>1, <1>4, <1>7, <1>8, <1>11, <1>13 DEF Stepped, CommandInv

\* What an answer that ends a call tells.
LEMMA AnswersTell ==
  ASSUME NEW a \in Answers
  PROVE  /\ "Ok" \in ResultsOf(a) => a = "2xx"
         /\ \A e \in Errors : e \in ResultsOf(a) /\ e \in SafeToRepeat => a \in Refusals
  BY DEF ResultsOf, ErrorOf, Answers, Refusals, Errors, SafeToRepeat, EarlyErrors

LEMMA CreatedSteps ==
  ASSUME TypeOK, NEW p \in Procs, CommandInv(p), Created(p)
  PROVE  Stepped(p)
<1>1. /\ pc[p] = "created"
      /\ attempt' = [attempt EXCEPT ![p] = 0]
      /\ answer' = [answer EXCEPT ![p] = "lost"]
      /\ UNCHANGED <<request, usage, made, published, children, ready, stored>>
  BY DEF Created, Forget, service
<1>2. Alone(p) /\ Material(p)
  BY <1>1 DEF Created, Goto, End, Alone, Material, TypeOK
<1>3. published[p] = <<>> /\ result[p] = Pending
  BY <1>1 DEF CommandInv, Effects
<1>4. /\ attempt' \in [Procs -> Nat]
      /\ answer' \in [Procs -> Answers]
  BY <1>1 DEF TypeOK, Answers
<1>5. CASE Returned(p, "Ok")
           /\ current' = [current EXCEPT ![p] = Len(made[p])]
           /\ polls' = [polls EXCEPT ![p] = 0]
           /\ pc' = [pc EXCEPT ![p] = IF HasMedia(p) THEN "poll" ELSE "publish"]
           /\ result' = result
  <2>1. answer[p] = "2xx"
    BY <1>5, AnswersTell DEF Returned, TypeOK
  <2>2. /\ made[p] # <<>> /\ made[p][Len(made[p])] = Wanted(p)
    BY <1>1, <2>1 DEF CommandInv, Knows
  <2>3. /\ Len(made[p]) \in Nat /\ DOMAIN made[p] = 1 .. Len(made[p])
        /\ Len(made[p]) \in DOMAIN made[p]
    <3>1. made[p] \in Seq(Container)
      BY DEF TypeOK
    <3>2. QED
      BY <2>2, <3>1, LenProperties, EmptySeq
  <2>4. TypeOK'
    <3>1. /\ current' \in [Procs -> Nat]
          /\ \A q \in Procs : current'[q] \in 0 .. Len(made[q])
      BY <1>5, <2>3 DEF TypeOK
    <3>2. /\ polls' \in [Procs -> 0 .. MaxPolls]
          /\ pc' \in [Procs -> Stages \cup {"done"}]
      BY <1>5, PublishAssumption DEF TypeOK, Stages
    <3>3. QED
      BY <1>1, <1>4, <1>5, <3>1, <3>2 DEF TypeOK
  <2>5. /\ current'[p] = Len(made[p]) /\ polls'[p] = 0
        /\ pc'[p] = (IF HasMedia(p) THEN "poll" ELSE "publish")
    BY <1>5 DEF TypeOK
  <2>6. ~HasMedia(p) => Publishable(request[p], made[p], ready[p], current'[p])
    <3>1. request[p].items \in Nat
      BY PublishAssumption DEF TypeOK, Requests
    <3>2. ~HasMedia(p) => Wanted(p).item = 0
      BY <3>1 DEF HasMedia, Wanted, NeedsItem, IsCarousel, Post
    <3>3. QED
      BY <2>2, <2>3, <2>5, <3>2 DEF Publishable, HasMedia
  <2>7. 0 < MaxPolls
    BY PublishAssumption
  <2>8. QED
    BY <1>1, <1>2, <1>3, <1>5, <2>2, <2>3, <2>4, <2>5, <2>6, <2>7, GoesOn
<1>6. CASE /\ result' = [result EXCEPT ![p] = "NotCreated"]
           /\ pc' = [pc EXCEPT ![p] = "done"]
           /\ UNCHANGED <<current, polls>>
  <2>1. "NotCreated" \in Outcomes /\ "NotCreated" # Pending
    BY OutcomesOpen DEF EarlyErrors
  <2>2. TypeOK'
    BY <1>1, <1>4, <1>6, <2>1 DEF TypeOK
  <2>3. pc'[p] = "done" /\ result'[p] # Pending
    BY <1>6, <2>1 DEF TypeOK
  <2>4. QED
    BY <1>1, <1>2, <2>2, <2>3, GoesOn
<1>7. QED
  BY <1>5, <1>6 DEF Created, End, Goto

LEMMA PollSteps ==
  ASSUME TypeOK, NEW p \in Procs, CommandInv(p), NEW status, Poll(p, status)
  PROVE  Stepped(p)
<1> SUFFICES ASSUME NEW c, c = current[p]
             PROVE  Stepped(p)
  OBVIOUS
<1>1. /\ pc[p] = "poll"
      /\ UNCHANGED <<request, usage, made, published, current, attempt, answer, stored>>
  BY DEF Poll, service
<1>2. /\ c \in DOMAIN made[p] /\ made[p][c] = Wanted(p) /\ polls[p] < MaxPolls
      /\ published[p] = <<>> /\ result[p] = Pending /\ c \in Nat
  BY <1>1 DEF CommandInv, Knows, Effects, TypeOK
<1>3. CASE GoOn(p)
  <2>1. /\ ready' = [ready EXCEPT ![p] = @ \cup {c}]
        /\ UNCHANGED <<polls, result>>
    BY <1>3 DEF GoOn
  <2>2. /\ ready'[p] = ready[p] \cup {c} /\ ready' \in [Procs -> SUBSET Nat]
        /\ Containers(request[p], made[p], ready'[p], children[p])
    <3>1. ready'[p] = ready[p] \cup {c} /\ ready' \in [Procs -> SUBSET Nat]
      BY <1>2, <2>1 DEF TypeOK
    <3>2. QED
      BY <3>1, FinishingKeeps DEF CommandInv
  <2>3. /\ request[p].items \in Nat /\ Len(children[p]) \in Nat /\ children[p] \in Seq(Nat)
    BY PublishAssumption, LenProperties DEF TypeOK, Requests
  <2>4. /\ pc'[p] \in {"create", "publish"} /\ pc' \in [Procs -> Stages \cup {"done"}]
        /\ \A q \in Procs \ {p} : pc'[q] = pc[q]
    BY <1>3 DEF GoOn, Goto, TypeOK, Stages
  <2>5. /\ children' \in [Procs -> Seq(Nat)]
        /\ \A q \in Procs \ {p} : children'[q] = children[q]
        /\ Containers(request[p], made[p], ready'[p], children'[p])
        /\ pc'[p] = "publish" => Publishable(request[p], made[p], ready'[p], c)
    <3>1. CASE IsItem(p, c)
      <4>1. /\ children' = [children EXCEPT ![p] = Append(@, c)]
            /\ pc' = [pc EXCEPT ![p] = "create"]
        BY <1>3, <3>1 DEF GoOn, Goto
      <4>2. NeedsItem(p) /\ Wanted(p).item = Len(children[p]) + 1
        BY <1>2, <3>1 DEF IsItem, Wanted, Post, Item
      <4>3. Len(children[p]) < Parts(request[p]) /\ Parts(request[p]) \in Nat
        BY <2>3, <4>2 DEF NeedsItem, IsCarousel, Parts
      <4>4. Containers(request[p], made[p], ready'[p], Append(children[p], c))
        BY <1>2, <2>2, <2>3, <4>2, <4>3, ItemFits
      <4>5. Append(children[p], c) \in Seq(Nat)
        BY <1>2, <2>3, AppendProperties
      <4>6. pc'[p] = "create" /\ children'[p] = Append(children[p], c)
        BY <4>1 DEF TypeOK
      <4>7. QED
        BY <4>1, <4>4, <4>5, <4>6 DEF TypeOK
    <3>2. CASE ~IsItem(p, c)
      <4>1. children' = children
        BY <1>3, <3>2 DEF GoOn
      <4>2. made[p][c].item = 0
        <5>1. made[p][c].item \in 0 .. MaxItems
          BY <1>2, WantedFits DEF Container
        <5>2. QED
          BY <3>2, <5>1, PublishAssumption DEF IsItem
      <4>3. Publishable(request[p], made[p], ready'[p], c)
        BY <1>2, <2>2, <4>2 DEF Publishable
      <4>4. QED
        BY <2>2, <4>1, <4>3 DEF TypeOK
    <3>3. QED
      BY <3>1, <3>2
  <2>6. TypeOK'
    BY <1>1, <2>1, <2>2, <2>4, <2>5 DEF TypeOK
  <2>7. Alone(p)
    BY <1>1, <2>1, <2>4, <2>5 DEF Alone, TypeOK
  <2>8. Knows(p)'
    BY <1>1, <2>4, <2>5 DEF Knows
  <2>9. Effects(p)'
    <3>1. published'[p] = <<>> /\ Len(published'[p]) = 0 /\ DOMAIN published'[p] = {}
      BY <1>1, <1>2
    <3>2. QED
      BY <1>2, <2>1, <2>4, <3>1 DEF Effects
  <2>10. Containers(request[p], made[p], ready[p], children[p])'
    BY <1>1, <2>5
  <2>11. QED
    BY <1>1, <2>6, <2>7, <2>8, <2>9, <2>10 DEF Stepped, CommandInv
<1>4. CASE /\ UNCHANGED <<children, ready, pc, result>>
           /\ polls' = [polls EXCEPT ![p] = @ + 1]
           /\ polls[p] + 1 < MaxPolls
  <2>1. polls' \in [Procs -> 0 .. MaxPolls] /\ polls'[p] < MaxPolls
    BY <1>4, PublishAssumption DEF TypeOK
  <2>2. TypeOK'
    BY <1>1, <1>4, <2>1 DEF TypeOK
  <2>3. Alone(p) /\ Material(p)
    BY <1>1, <1>4 DEF Alone, Material, TypeOK
  <2>4. HasMedia(p)
    BY <1>1 DEF CommandInv, Knows
  <2>5. QED
    BY <1>1, <1>2, <1>4, <2>1, <2>2, <2>3, <2>4, GoesOn
<1>5. CASE /\ UNCHANGED <<children, ready>>
           /\ polls' = [polls EXCEPT ![p] = @ + 1] \/ polls' = polls
           /\ result' = [result EXCEPT ![p] = "NotFinished"]
           /\ pc' = [pc EXCEPT ![p] = "done"]
  <2>1. "NotFinished" \in Outcomes /\ "NotFinished" # Pending
    BY OutcomesOpen DEF EarlyErrors
  <2>2. polls' \in [Procs -> 0 .. MaxPolls]
    <3>1. polls \in [Procs -> 0 .. MaxPolls] /\ polls[p] + 1 \in 0 .. MaxPolls
      BY <1>2, PublishAssumption DEF TypeOK
    <3>2. QED
      BY <1>5, <3>1
  <2>3. TypeOK'
    BY <1>1, <1>5, <2>1, <2>2 DEF TypeOK
  <2>4. Alone(p) /\ Material(p)
    BY <1>1, <1>5 DEF Alone, Material, TypeOK
  <2>5. pc'[p] = "done" /\ result'[p] # Pending
    BY <1>5, <2>1 DEF TypeOK
  <2>6. QED
    BY <1>1, <2>3, <2>4, <2>5, GoesOn
<1>6. QED
  BY <1>3, <1>4, <1>5 DEF Poll, StillInProgress, End, Goto

LEMMA PublishContainerSteps ==
  ASSUME TypeOK, NEW p \in Procs, CommandInv(p), NEW a \in Answers,
         PublishContainer(p, a)
  PROVE  Stepped(p)
<1> SUFFICES ASSUME NEW c, c = current[p]
             PROVE  Stepped(p)
  OBVIOUS
<1>1. /\ pc[p] = "publish"
      /\ attempt' = [attempt EXCEPT ![p] = @ + 1]
      /\ answer' = [answer EXCEPT ![p] = a]
      /\ pc' = [pc EXCEPT ![p] = "published"]
      /\ UNCHANGED <<request, made, current, children, ready, polls, result, stored>>
  BY CommandsPostOnce DEF PublishContainer
<1>2. /\ published[p] = <<>> /\ result[p] = Pending
      /\ Publishable(request[p], made[p], ready[p], c)
      /\ c \in Nat /\ Containers(request[p], made[p], ready[p], children[p])
  BY <1>1 DEF CommandInv, Knows, Effects, TypeOK
<1>3. \/ /\ a \notin Refusals
         /\ published' = [published EXCEPT ![p] = Append(@, c)]
         /\ \E k \in Quotas : usage' = [usage EXCEPT ![k] = @ + 1]
      \/ a # "2xx" /\ UNCHANGED <<published, usage>>
  <2>1. PICK carried \in Carries(a) :
          IF carried
          THEN /\ published' = [published EXCEPT ![p] = Append(@, current[p])]
               /\ LET k == IF made[p][current[p]].reply THEN "reply" ELSE "post"
                  IN  usage' = [usage EXCEPT ![k] = @ + 1]
          ELSE UNCHANGED <<published, usage>>
    BY <1>1 DEF PublishContainer
  <2>2. /\ a = "2xx" => carried
        /\ a \in Refusals => ~carried
    BY DEF Carries, Refusals
  <2>3. {"post", "reply"} = Quotas
    BY DEF Quotas
  <2>4. QED
    BY <2>1, <2>2, <2>3
<1>4. /\ published'[p] \in {<<>>, <<c>>}
      /\ published' \in [Procs -> Seq(Nat)]
      /\ \A q \in Procs \ {p} : published'[q] = published[q]
      /\ a = "2xx" => published'[p] # <<>>
      /\ a \in Refusals => published'[p] = <<>>
      /\ usage' \in [Quotas -> Nat]
  <2>1. /\ Append(<<>>, c) = <<c>> /\ <<c>> # <<>>
        /\ <<c>> \in Seq(Nat)
    BY <1>2
  <2>2. "2xx" \notin Refusals
    BY DEF Refusals
  <2>3. CASE /\ a \notin Refusals
             /\ published' = [published EXCEPT ![p] = Append(@, c)]
             /\ \E k \in Quotas : usage' = [usage EXCEPT ![k] = @ + 1]
    <3>1. published'[p] = <<c>> /\ usage' \in [Quotas -> Nat]
      BY <1>2, <2>1, <2>3 DEF TypeOK
    <3>2. /\ published' \in [Procs -> Seq(Nat)]
          /\ \A q \in Procs \ {p} : published'[q] = published[q]
      BY <2>1, <2>3, <3>1 DEF TypeOK
    <3>3. QED
      BY <2>1, <2>3, <3>1, <3>2
  <2>4. CASE a # "2xx" /\ UNCHANGED <<published, usage>>
    BY <1>2, <2>4 DEF TypeOK
  <2>5. QED
    BY <1>3, <2>3, <2>4
<1>5. TypeOK'
  <2>1. /\ attempt' \in [Procs -> Nat] /\ answer' \in [Procs -> Answers]
        /\ pc' \in [Procs -> Stages \cup {"done"}]
    BY <1>1 DEF TypeOK, Stages
  <2>2. QED
    BY <1>1, <1>4, <2>1 DEF TypeOK
<1>6. Alone(p)
  BY <1>1, <1>4 DEF Alone, TypeOK
<1>7. pc'[p] = "published" /\ answer'[p] = a
  BY <1>1 DEF TypeOK
<1>8. Knows(p)'
  BY <1>7 DEF Knows
<1>9. Effects(p)'
  <2>1. /\ Len(published'[p]) <= 1
        /\ \A i \in DOMAIN published'[p] : published'[p][i] = c
    <3>1. CASE published'[p] = <<>>
      BY <3>1
    <3>2. CASE published'[p] = <<c>>
      BY <3>2
    <3>3. QED
      BY <1>4, <3>1, <3>2
  <2>2. QED
    BY <1>1, <1>2, <1>4, <1>7, <2>1 DEF Effects
<1>10. QED
  BY <1>1, <1>2, <1>5, <1>6, <1>8, <1>9 DEF Stepped, CommandInv

LEMMA PublishedSteps ==
  ASSUME TypeOK, NEW p \in Procs, CommandInv(p), Published(p)
  PROVE  Stepped(p)
<1>1. /\ pc[p] = "published"
      /\ attempt' = [attempt EXCEPT ![p] = 0]
      /\ answer' = [answer EXCEPT ![p] = "lost"]
      /\ UNCHANGED <<request, usage, made, published, current, children, ready,
                     polls, stored>>
  BY DEF Published, Forget, service
<1>2. \/ /\ answer[p] = "2xx"
         /\ pc' = [pc EXCEPT ![p] = "store"] /\ result' = result
      \/ \E e \in Errors : /\ result' = [result EXCEPT ![p] = e]
                           /\ pc' = [pc EXCEPT ![p] = "done"]
  BY AnswersTell DEF Published, Returned, End, Goto, TypeOK
<1>3. /\ attempt' \in [Procs -> Nat] /\ answer' \in [Procs -> Answers]
  BY <1>1 DEF TypeOK, Answers
<1>4. TypeOK'
  BY <1>1, <1>2, <1>3, OutcomesOpen DEF TypeOK, Stages
<1>5. Alone(p) /\ Material(p)
  BY <1>1, <1>2 DEF Alone, Material, TypeOK
<1>6. /\ pc'[p] \in {"store", "done"}
      /\ pc'[p] = "store" => answer[p] = "2xx"
      /\ pc'[p] # "done" <=> result'[p] = Pending
  BY <1>1, <1>2, OutcomesOpen DEF TypeOK, CommandInv, Effects
<1>7. pc'[p] = "store" => published[p] # <<>>
  BY <1>1, <1>6 DEF CommandInv, Effects
<1>8. QED
  BY <1>1, <1>4, <1>5, <1>6, <1>7, GoesOn

LEMMA StoreSteps ==
  ASSUME TypeOK, NEW p \in Procs, CommandInv(p), Store(p)
  PROVE  Stepped(p)
<1>1. /\ UNCHANGED <<request, usage, made, published, current, children, ready,
                     polls, attempt, answer>>
      /\ pc' = [pc EXCEPT ![p] = "done"]
      /\ stored' \subseteq Procs
      /\ \E r \in {"Ok", "NotStored"} : result' = [result EXCEPT ![p] = r]
  BY DEF Store, End, Goto, service, TypeOK
<1>2. TypeOK'
  BY <1>1, OutcomesOpen DEF TypeOK
<1>3. Alone(p) /\ Material(p)
  BY <1>1 DEF Alone, Material, TypeOK
<1>4. pc'[p] = "done" /\ result'[p] # Pending
  BY <1>1, OutcomesOpen DEF TypeOK
<1>5. QED
  BY <1>1, <1>2, <1>3, <1>4, GoesOn

LEMMA KillSteps ==
  ASSUME TypeOK, NEW p \in Procs, CommandInv(p), Kill(p)
  PROVE  Stepped(p)
<1>1. /\ UNCHANGED <<request, usage, made, published, current, children, ready,
                     polls, attempt, answer, stored>>
      /\ pc' = [pc EXCEPT ![p] = "done"]
      /\ result' = [result EXCEPT ![p] = "Killed"]
  BY DEF Kill, End, Goto, service
<1>2. TypeOK'
  BY <1>1, OutcomesOpen DEF TypeOK
<1>3. Alone(p) /\ Material(p)
  BY <1>1 DEF Alone, Material, TypeOK
<1>4. pc'[p] = "done" /\ result'[p] # Pending
  BY <1>1, OutcomesOpen DEF TypeOK
<1>5. QED
  BY <1>1, <1>2, <1>3, <1>4, GoesOn

LEMMA CommandSteps ==
  ASSUME TypeOK, NEW p \in Procs, CommandInv(p), Step(p) \/ Kill(p)
  PROVE  Stepped(p)
  BY CheckQuotaSteps, ConfirmSteps, CreateSteps, CreatedSteps, PollSteps,
     PublishContainerSteps, PublishedSteps, StoreSteps, KillSteps DEF Step

\* What a command knows, no step of another changes.
LEMMA OthersKeep ==
  ASSUME NEW q, CommandInv(q), request' = request,
         made'[q] = made[q], published'[q] = published[q],
         pc'[q] = pc[q], current'[q] = current[q], children'[q] = children[q],
         ready'[q] = ready[q], polls'[q] = polls[q],
         answer'[q] = answer[q], result'[q] = result[q]
  PROVE  CommandInv(q)'
<1>1. Wanted(q)' = Wanted(q) /\ HasMedia(q)' = HasMedia(q)
  BY DEF Wanted, NeedsItem, IsCarousel, Item, Post, HasMedia
<1>2. Knows(q)'
  BY <1>1 DEF CommandInv, Knows
<1>3. Effects(q)'
  BY DEF CommandInv, Effects
<1>4. QED
  BY <1>2, <1>3 DEF CommandInv

-----------------------------------------------------------------------------
(* The quota                                                               *)

LEMMA SpentIsFinite ==
  ASSUME NEW k
  PROVE  IsFiniteSet(Spent(k)) /\ Cardinality(Spent(k)) \in Nat
<1>1. IsFiniteSet(Procs) /\ Spent(k) \subseteq Procs
  BY PublishAssumption DEF Spent
<1>2. QED
  BY <1>1, FS_Subset, FS_CardinalityType

\* A step that publishes nothing and admits nobody keeps the account.
LEMMA AccountKept ==
  ASSUME TypeOK, TypeOK', NEW k \in Quotas, Account(k),
         Spent(k)' = Spent(k), usage'[k] <= usage[k],
         Admitted(k)' \subseteq Admitted(k) \/ usage[k] < Total[k]
  PROVE  Account(k)'
<1>1. /\ usage[k] \in Nat /\ usage'[k] \in Nat /\ Total[k] \in Nat
      /\ Cardinality(Spent(k)) \in Nat
  BY PublishAssumption, SpentIsFinite DEF TypeOK
<1>2. usage'[k] <= Total[k] + Cardinality(Spent(k))
  BY <1>1 DEF Account
<1>3. (Spent(k) \cup Admitted(k))' # {} => usage'[k] < Total[k] + Cardinality(Spent(k))
  BY <1>1 DEF Account
<1>4. QED
  BY <1>2, <1>3 DEF Account

\* What is published counts for the quota that was checked.
LEMMA PublishingIsCounted ==
  ASSUME TypeOK, NEW p \in Procs, CommandInv(p), NEW a \in Answers,
         PublishContainer(p, a)
  PROVE  \/ UNCHANGED <<published, usage>>
         \/ /\ published[p] = <<>> /\ published'[p] # <<>>
            /\ \A q \in Procs \ {p} : published'[q] = published[q]
            /\ usage' = [usage EXCEPT ![QuotaOf(p)] = @ + 1]
<1> SUFFICES ASSUME NEW c, c = current[p]
             PROVE  \/ UNCHANGED <<published, usage>>
                    \/ /\ published[p] = <<>> /\ published'[p] # <<>>
                       /\ \A q \in Procs \ {p} : published'[q] = published[q]
                       /\ usage' = [usage EXCEPT ![QuotaOf(p)] = @ + 1]
  OBVIOUS
<1>1. PICK carried \in Carries(a) :
        IF carried
        THEN /\ published' = [published EXCEPT ![p] = Append(@, current[p])]
             /\ LET k == IF made[p][current[p]].reply THEN "reply" ELSE "post"
                IN  usage' = [usage EXCEPT ![k] = @ + 1]
        ELSE UNCHANGED <<published, usage>>
  BY DEF PublishContainer
<1>2. /\ published[p] = <<>>
      /\ Publishable(request[p], made[p], ready[p], c)
      /\ Containers(request[p], made[p], ready[p], children[p])
  BY DEF PublishContainer, CommandInv, Knows, Effects
<1>3. made[p][c].reply = request[p].reply
  BY <1>2 DEF Publishable, Containers, WholePost
<1>4. CASE carried
  <2>1. /\ published' = [published EXCEPT ![p] = Append(@, c)]
        /\ usage' = [usage EXCEPT ![QuotaOf(p)] = @ + 1]
    BY <1>1, <1>3, <1>4 DEF QuotaOf
  <2>2. Append(<<>>, c) # <<>>
    BY DEF TypeOK
  <2>3. QED
    BY <1>2, <2>1, <2>2 DEF TypeOK
<1>5. CASE ~carried
  BY <1>1, <1>5
<1>6. QED
  BY <1>4, <1>5

LEMMA CommandsKeepAccount ==
  ASSUME TypeOK, NEW p \in Procs, CommandInv(p), Step(p) \/ Kill(p), Stepped(p),
         NEW k \in Quotas, Account(k)
  PROVE  Account(k)'
<1>1. \A q \in Procs \ {p} : pc'[q] = pc[q]
  BY DEF Stepped, Alone
<1>2. /\ request' = request /\ TypeOK'
      /\ \A q \in Procs : QuotaOf(q)' = QuotaOf(q)
  BY DEF Stepped, QuotaOf
<1>3. CASE CheckQuota(p)
  <2>1. UNCHANGED <<usage, published>>
    BY <1>3 DEF CheckQuota, service
  <2>2. Spent(k)' = Spent(k)
    BY <1>2, <2>1 DEF Spent
  <2>3. usage'[k] <= usage[k]
    BY <2>1 DEF TypeOK
  <2>4. CASE Exhausted(p) \/ k # QuotaOf(p)
    <3>1. k = QuotaOf(p) => pc'[p] = "done"
      BY <1>3, <2>4 DEF CheckQuota, End, Goto, TypeOK
    <3>2. Admitted(k)' \subseteq Admitted(k)
      BY <1>1, <1>2, <3>1 DEF Admitted
    <3>3. QED
      BY <1>2, <2>2, <2>3, <3>2, AccountKept
  <2>5. CASE ~Exhausted(p) /\ k = QuotaOf(p)
    <3>1. usage[k] < Total[k]
      BY <2>5, PublishAssumption DEF Exhausted, TypeOK
    <3>2. QED
      BY <1>2, <2>2, <2>3, <3>1, AccountKept
  <2>6. QED
    BY <2>4, <2>5
<1>4. ASSUME ~CheckQuota(p)
      PROVE  Admitted(k)' \subseteq Admitted(k)
  <2>1. pc[p] \notin {"quota", "done"}  \/ pc'[p] = "done"
    BY <1>4 DEF Step, Confirm, Create, Created, Poll, PublishContainer, Published,
                Store, Kill, End, Goto, TypeOK
  <2>2. QED
    BY <1>1, <1>2, <2>1 DEF Admitted
<1>5. CASE ~CheckQuota(p) /\ UNCHANGED <<usage, published>>
  <2>1. Spent(k)' = Spent(k)
    BY <1>2, <1>5 DEF Spent
  <2>2. usage'[k] <= usage[k]
    BY <1>5 DEF TypeOK
  <2>3. QED
    BY <1>2, <1>4, <1>5, <2>1, <2>2, AccountKept
<1>6. CASE \E a \in Answers : PublishContainer(p, a) /\ ~UNCHANGED <<usage, published>>
  <2>1. /\ published[p] = <<>> /\ published'[p] # <<>>
        /\ \A q \in Procs \ {p} : published'[q] = published[q]
        /\ usage' = [usage EXCEPT ![QuotaOf(p)] = @ + 1]
        /\ pc[p] = "publish"
    BY <1>6, PublishingIsCounted DEF PublishContainer
  <2>2. ~CheckQuota(p)
    BY <2>1 DEF CheckQuota
  <2>3. CASE k # QuotaOf(p)
    <3>1. Spent(k)' = Spent(k)
      BY <1>2, <2>1, <2>3 DEF Spent
    <3>2. usage'[k] <= usage[k]
      BY <2>1, <2>3 DEF TypeOK
    <3>3. QED
      BY <1>2, <1>4, <2>2, <3>1, <3>2, AccountKept
  <2>4. CASE k = QuotaOf(p)
    <3>1. Spent(k)' = Spent(k) \cup {p} /\ p \notin Spent(k)
      BY <1>2, <2>1, <2>4 DEF Spent
    <3>2. Cardinality(Spent(k)') = Cardinality(Spent(k)) + 1
      BY <3>1, SpentIsFinite, FS_AddElement
    <3>3. p \in Admitted(k)
      BY <2>1, <2>4 DEF Admitted
    <3>4. /\ usage[k] \in Nat /\ usage'[k] = usage[k] + 1 /\ Total[k] \in Nat
          /\ Cardinality(Spent(k)) \in Nat
      BY <2>1, <2>4, PublishAssumption, SpentIsFinite DEF TypeOK
    <3>5. usage[k] < Total[k] + Cardinality(Spent(k))
      BY <3>3 DEF Account
    <3>6. usage'[k] < Total[k] + Cardinality(Spent(k)')
      BY <3>2, <3>4, <3>5
    <3>7. usage'[k] <= Total[k] + Cardinality(Spent(k)')
      BY <3>2, <3>4, <3>6
    <3>8. QED
      BY <3>6, <3>7 DEF Account
  <2>5. QED
    BY <2>3, <2>4
<1>7. \/ CheckQuota(p) \/ UNCHANGED <<usage, published>>
      \/ \E a \in Answers : PublishContainer(p, a)
  BY DEF Step, Confirm, Create, Created, Poll, Published, Store, Kill, service
<1>8. QED
  BY <1>3, <1>5, <1>6, <1>7

LEMMA AgeKeeps ==
  ASSUME PublishInv, NEW k \in Quotas, Age(k)
  PROVE  PublishInv'
<1>1. /\ usage' = [usage EXCEPT ![k] = @ - 1] /\ usage[k] > 0
      /\ UNCHANGED <<request, made, published, pc, current, children, ready, polls,
                     attempt, answer, result, stored>>
  BY DEF Age, process
<1>2. TypeOK'
  BY <1>1 DEF PublishInv, TypeOK
<1>3. \A q \in Procs : CommandInv(q)'
  BY <1>1, OthersKeep DEF PublishInv
<1>4. ASSUME NEW j \in Quotas
      PROVE  Account(j)'
  <2>1. Spent(j)' = Spent(j) /\ Admitted(j)' = Admitted(j)
    BY <1>1 DEF Spent, Admitted, QuotaOf
  <2>2. usage'[j] <= usage[j]
    BY <1>1 DEF PublishInv, TypeOK
  <2>3. QED
    BY <1>2, <2>1, <2>2, AccountKept DEF PublishInv
<1>5. QED
  BY <1>2, <1>3, <1>4 DEF PublishInv

-----------------------------------------------------------------------------
(* Theorems                                                                *)

LEMMA InitPublishInv == Init => PublishInv
<1> SUFFICES ASSUME Init
             PROVE  PublishInv
  OBVIOUS
<1>1. /\ \A p \in Procs : /\ made[p] = <<>> /\ published[p] = <<>> /\ children[p] = <<>>
                          /\ pc[p] = "quota" /\ result[p] = Pending /\ current[p] = 0
      /\ request \in [Procs -> Requests]
  BY DEF Init
<1>2. <<>> \in Seq(Container) /\ <<>> \in Seq(Nat) /\ Len(<<>>) = 0 /\ DOMAIN <<>> = {}
  BY EmptySeq
<1>3. usage \in [Quotas -> Nat] /\ \A k \in Quotas : usage[k] <= Total[k]
  BY PublishAssumption DEF Init
<1>4. TypeOK
  <2>1. /\ made \in [Procs -> Seq(Container)] /\ published \in [Procs -> Seq(Nat)]
        /\ children \in [Procs -> Seq(Nat)] /\ current \in [Procs -> Nat]
        /\ \A p \in Procs : current[p] \in 0 .. Len(made[p])
    BY <1>2 DEF Init
  <2>2. /\ pc \in [Procs -> Stages \cup {"done"}]
        /\ ready \in [Procs -> SUBSET Nat] /\ polls \in [Procs -> 0 .. MaxPolls]
        /\ attempt \in [Procs -> Nat] /\ answer \in [Procs -> Answers]
        /\ result \in [Procs -> Outcomes \cup {Pending}] /\ stored \subseteq Procs
    BY PublishAssumption DEF Init, Stages, Answers
  <2>3. QED
    BY <1>1, <1>3, <2>1, <2>2 DEF TypeOK
<1>5. ASSUME NEW p \in Procs
      PROVE  CommandInv(p)
  <2>1. request[p].items \in Nat
    BY <1>1, PublishAssumption DEF Requests
  <2>2. Containers(request[p], made[p], ready[p], children[p])
    BY <1>1, <1>2, <2>1 DEF Containers, Ordered, Parts
  <2>3. Knows(p) /\ Effects(p)
    BY <1>1, <1>2 DEF Knows, Effects
  <2>4. QED
    BY <2>2, <2>3 DEF CommandInv
<1>6. ASSUME NEW k \in Quotas
      PROVE  Account(k)
  <2>1. Spent(k) = {} /\ Admitted(k) = {}
    BY <1>1 DEF Spent, Admitted
  <2>2. Cardinality(Spent(k)) = 0
    BY <2>1, FS_EmptySet
  <2>3. QED
    BY <1>3, <2>1, <2>2, PublishAssumption DEF Account
<1>7. QED
  BY <1>4, <1>5, <1>6 DEF PublishInv

LEMMA NextKeepsPublishInv == PublishInv /\ [Next]_vars => PublishInv'
<1> SUFFICES ASSUME PublishInv, [Next]_vars
             PROVE  PublishInv'
  OBVIOUS
<1>1. ASSUME NEW p \in Procs, Step(p) \/ Kill(p)
      PROVE  PublishInv'
  <2>1. Stepped(p)
    BY <1>1, CommandSteps DEF PublishInv
  <2>2. \A q \in Procs : CommandInv(q)'
    <3> SUFFICES ASSUME NEW q \in Procs
                 PROVE  CommandInv(q)'
      OBVIOUS
    <3>1. CASE q = p
      BY <2>1, <3>1 DEF Stepped
    <3>2. CASE q # p
      BY <2>1, <3>2, OthersKeep DEF Stepped, Alone, PublishInv
    <3>3. QED
      BY <3>1, <3>2
  <2>3. \A k \in Quotas : Account(k)'
    BY <1>1, <2>1, CommandsKeepAccount DEF PublishInv
  <2>4. QED
    BY <2>1, <2>2, <2>3 DEF PublishInv, Stepped
<1>2. ASSUME NEW k \in Quotas, Age(k)
      PROVE  PublishInv'
  BY <1>2, AgeKeeps
<1>3. CASE UNCHANGED vars
  <2>1. UNCHANGED <<request, usage, made, published, pc, current, children, ready,
                    polls, attempt, answer, result, stored>>
    BY <1>3 DEF vars, service, process
  <2>2. TypeOK'
    BY <2>1 DEF PublishInv, TypeOK
  <2>3. \A q \in Procs : CommandInv(q)'
    BY <2>1, OthersKeep DEF PublishInv
  <2>4. \A k \in Quotas : Account(k)'
    BY <2>1 DEF PublishInv, Account, Spent, Admitted, QuotaOf
  <2>5. QED
    BY <2>2, <2>3, <2>4 DEF PublishInv
<1>4. QED
  BY <1>1, <1>2, <1>3 DEF Next, Quiet

LEMMA PublishInvariant == Spec => []PublishInv
  BY InitPublishInv, NextKeepsPublishInv, PTL DEF Spec

\* Every variable of the commands and of the service has its type.
THEOREM PublishTypeCorrect == Spec => []TypeOK
<1>1. PublishInv => TypeOK
  BY DEF PublishInv
<1>2. QED
  BY <1>1, PublishInvariant, PTL

\* However many commands check the quota before the others have published, they
\* overshoot it by less than a post each (check_quota, publish_flow).
THEOREM OvershootIsBounded == Spec => []QuotaOvershoot
<1>1. PublishInv => QuotaOvershoot
  <2> SUFFICES ASSUME PublishInv, NEW k \in Quotas
               PROVE  usage[k] < Total[k] + Cardinality(Procs)
    BY DEF QuotaOvershoot
  <2>1. Account(k) /\ usage[k] \in Nat /\ Total[k] \in Nat
    BY PublishAssumption DEF PublishInv, TypeOK
  <2>2. /\ Cardinality(Spent(k)) <= Cardinality(Procs)
        /\ Cardinality(Procs) \in Nat /\ Cardinality(Spent(k)) \in Nat
    <3>1. IsFiniteSet(Procs) /\ Spent(k) \subseteq Procs
      BY PublishAssumption DEF Spent
    <3>2. QED
      BY <3>1, FS_Subset, FS_CardinalityType, SpentIsFinite
  <2>3. CASE Spent(k) = {}
    <3>1. Cardinality(Spent(k)) = 0
      BY <2>3, FS_EmptySet
    <3>2. Cardinality(Procs) # 0
      BY PublishAssumption, FS_EmptySet
    <3>3. QED
      BY <2>1, <2>2, <3>1, <3>2 DEF Account
  <2>4. CASE Spent(k) # {}
    BY <2>1, <2>2, <2>4 DEF Account
  <2>5. QED
    BY <2>3, <2>4
<1>2. QED
  BY <1>1, PublishInvariant, PTL

\* Whatever is published is whole: a reply if one was asked for, every item of a
\* carousel once, in order, and finished, however many answers were lost.
THEOREM NothingIsHalfPublished == Spec => []PublishedPostsAreWhole
<1>1. PublishInv => PublishedPostsAreWhole
  <2> SUFFICES ASSUME PublishInv, NEW p \in Procs, NEW i \in DOMAIN published[p]
               PROVE  Whole(p, published[p][i])
    BY DEF PublishedPostsAreWhole
  <2> DEFINE c == published[p][i]
  <2>1. /\ Publishable(request[p], made[p], ready[p], c)
        /\ Containers(request[p], made[p], ready[p], children[p])
    BY DEF PublishInv, CommandInv, Effects
  <2> HIDE DEF c
  <2>2. WholePost(request[p], made[p], ready[p], made[p][c]) /\ made[p][c].item = 0
    BY <2>1 DEF Publishable, Containers
  <2>3. /\ made[p][c].reply = request[p].reply
        /\ Len(made[p][c].children) = (IF IsCarousel(p) THEN request[p].items ELSE 0)
        /\ Ordered(made[p], ready[p], made[p][c].children)
    BY <2>2 DEF WholePost, Parts, IsCarousel
  <2>4. Whole(p, c)
    BY <2>1, <2>2, <2>3 DEF Whole, Ordered, Publishable, HasMedia
  <2>5. QED
    BY <2>4 DEF c
<1>2. QED
  BY <1>1, PublishInvariant, PTL

\* When a command returns, what it says of its effect is so.
LEMMA ReturnsAreTrue ==
  ASSUME TypeOK, NEW p \in Procs, CommandInv(p), Step(p) \/ Kill(p),
         result'[p] # result[p]
  PROVE  /\ published' = published
         /\ result[p] = Pending
         /\ result'[p] = "Ok" => published[p] # <<>>
         /\ result'[p] \in SafeToRepeat => published[p] = <<>>
<1>1. result[p] = Pending
  <2>1. pc[p] # "done"
    BY DEF Step, CheckQuota, Confirm, Create, Created, Poll, PublishContainer,
           Published, Store, Kill
  <2>2. QED
    BY <2>1 DEF CommandInv, Effects
<1>2. {"Killed", "NotStored", "Ok"} \cap SafeToRepeat = {} /\ "Ok" \notin EarlyErrors
  BY DEF SafeToRepeat, EarlyErrors
<1>3. CASE /\ pc[p] \notin {"published", "store", "done"}
           /\ published' = published
           /\ result'[p] \in EarlyErrors \cup {"Killed"}
  BY <1>1, <1>2, <1>3 DEF CommandInv, Effects
<1>4. CASE Published(p)
  <2>1. PICK e \in Errors : e \in ResultsOf(answer[p]) /\ result'[p] = e
    BY <1>4 DEF Published, Returned, End, TypeOK
  <2>2. e \in SafeToRepeat => answer[p] \in Refusals
    BY <2>1, AnswersTell DEF TypeOK
  <2>3. pc[p] = "published" /\ published' = published /\ e # "Ok"
    BY <1>4 DEF Published, service, Errors
  <2>4. QED
    BY <1>1, <2>1, <2>2, <2>3 DEF CommandInv, Effects
<1>5. CASE Store(p)
  <2>1. /\ pc[p] = "store" /\ published' = published
        /\ result'[p] \in {"Ok", "NotStored"}
    BY <1>5 DEF Store, End, service, TypeOK
  <2>2. QED
    BY <1>1, <1>2, <2>1 DEF CommandInv, Effects
<1>6. CASE Kill(p)
  <2>1. published' = published /\ result'[p] = "Killed"
    BY <1>6 DEF Kill, End, service, TypeOK
  <2>2. QED
    BY <1>1, <1>2, <2>1
<1>7. CASE CheckQuota(p) \/ Confirm(p) \/ Created(p)
  <2>1. /\ pc[p] \in {"quota", "confirm", "created"} /\ published' = published
        /\ result'[p] \in EarlyErrors
    BY <1>7 DEF CheckQuota, Confirm, Created, End, service, EarlyErrors, TypeOK
  <2>2. QED
    BY <1>3, <2>1
<1>8. CASE \E status \in Statuses \cup {"none"} : Poll(p, status)
  <2>1. /\ pc[p] = "poll" /\ published' = published
        /\ result'[p] \in EarlyErrors
    BY <1>8 DEF Poll, GoOn, StillInProgress, End, service, EarlyErrors, TypeOK
  <2>2. QED
    BY <1>3, <2>1
<1>9. \A a \in Answers : ~Create(p, a) /\ ~PublishContainer(p, a)
  BY DEF Create, PublishContainer
<1>10. QED
  BY <1>4, <1>5, <1>6, <1>7, <1>8, <1>9 DEF Step

\* A command, however many POSTs and polls it takes, is a RemoteCall that is a
\* single POST: it publishes once at most, and what it returns is so.
THEOREM CommandsAreCalls == Spec => CommandsAreSafe
<1>1. Init => \A p \in Procs : Command(p)!Init
  <2> SUFFICES ASSUME Init, NEW p \in Procs
               PROVE  Command(p)!Init
    OBVIOUS
  <2>1. published[p] = <<>> /\ result[p] = Pending
    BY DEF Init
  <2>2. QED
    BY <2>1 DEF Command!Init
<1> DEFINE P == \A p \in Procs : [Command(p)!Next]_(Command(p)!vars)
<1>2. PublishInv /\ [Next]_vars => [P]_vars
  <2> SUFFICES ASSUME PublishInv, [Next]_vars, NEW p \in Procs
               PROVE  [Command(p)!Next]_(Command(p)!vars)
    OBVIOUS
  <2>1. CASE published'[p] = published[p] /\ result'[p] = result[p]
    BY <2>1 DEF Command!vars
  <2>2. CASE Step(p) \/ Kill(p)
    <3>1. CommandInv(p) /\ TypeOK /\ Stepped(p)
      BY <2>2, CommandSteps DEF PublishInv
    <3>2. CASE result'[p] # result[p]
      <4>1. /\ published' = published /\ result[p] = Pending
            /\ result'[p] = "Ok" => published[p] # <<>>
            /\ result'[p] \in SafeToRepeat => published[p] = <<>>
        BY <2>2, <3>1, <3>2, ReturnsAreTrue
      <4>2. result'[p] \in Outcomes
        BY <3>1, <3>2, <4>1 DEF Stepped, TypeOK
      <4>3. published[p] # <<>> => Len(published[p]) > 0
        BY <3>1, EmptySeq DEF TypeOK
      <4>4. Command(p)!Return(result'[p])
        BY <4>1, <4>3 DEF Command!Return
      <4>5. QED
        BY <4>2, <4>4 DEF Command!Next
    <3>3. CASE result'[p] = result[p] /\ published'[p] # published[p]
      <4>1. PICK a \in Answers : PublishContainer(p, a)
        BY <2>2, <3>3 DEF Step, CheckQuota, Confirm, Create, Created, Poll, Published,
                          Store, Kill, service
      <4>2. pc[p] = "publish" /\ published[p] = <<>> /\ result[p] = Pending
        BY <3>1, <4>1 DEF PublishContainer, CommandInv, Effects
      <4>3. published'[p] # <<>>
        BY <3>3, <4>2
      <4>4. Len(published[p]) = 0 /\ Len(published'[p]) = 1
        <5>1. Len(published'[p]) <= 1 /\ published'[p] \in Seq(Nat)
          BY <3>1 DEF Stepped, CommandInv, Effects, TypeOK
        <5>2. Len(published'[p]) \in Nat /\ Len(published'[p]) # 0
          BY <4>3, <5>1, EmptySeq
        <5>3. \A n \in Nat : n <= 1 /\ n # 0 => n = 1
          OBVIOUS
        <5>4. Len(published'[p]) = 1
          BY <5>1, <5>2, <5>3
        <5>5. Len(published[p]) = 0
          BY <4>2, EmptySeq
        <5>6. QED
          BY <5>4, <5>5
      <4>5. Command(p)!Perform
        BY <3>3, <4>2, <4>4 DEF Command!Perform
      <4>6. QED
        BY <4>5 DEF Command!Next
    <3>4. QED
      BY <2>1, <3>2, <3>3
  <2>3. ASSUME NEW q \in Procs \ {p}, Step(q) \/ Kill(q)
        PROVE  published'[p] = published[p] /\ result'[p] = result[p]
    BY <2>3, CommandSteps DEF PublishInv, Stepped, Alone
  <2>4. CASE UNCHANGED vars \/ \E k \in Quotas : Age(k)
    BY <2>1, <2>4 DEF Age, vars, service, process
  <2>5. QED
    BY <2>1, <2>2, <2>3, <2>4 DEF Next, Quiet
<1>3. QED
  BY <1>1, <1>2, PublishInvariant, PTL DEF Spec, CommandsAreSafe

-----------------------------------------------------------------------------
(* How long a call and a command can go on                                 *)

\* The most steps a call at `at`, with k requests sent, still has ahead of it: a
\* round of the loop is a request, a wait and its end.
RoundsLeft(at, k) ==
  CASE at = "ready"    -> 3 * (MaxRetries + 1 - k) - 1
    [] at = "waiting"  -> 3 * (MaxRetries + 1 - k)
    [] at = "answered" -> 3 * (MaxRetries + 1 - k) + 1
    [] at = "done"     -> 0

CallStepsLeft == RoundsLeft(place, sent)

LEMMA CallDescends ==
  ASSUME CallInv, [Call!Next]_(Call!vars), Call!vars' # Call!vars
  PROVE  CallStepsLeft' < CallStepsLeft
<1>1. MaxRetries \in Nat /\ sent \in Nat
  BY TransportAssumption DEF CallInv, Call!TypeOK
<1>2. \A k : /\ RoundsLeft("ready", k) = 3 * (MaxRetries + 1 - k) - 1
             /\ RoundsLeft("waiting", k) = 3 * (MaxRetries + 1 - k)
             /\ RoundsLeft("answered", k) = 3 * (MaxRetries + 1 - k) + 1
             /\ RoundsLeft("done", k) = 0
  BY DEF RoundsLeft
<1>3. /\ CallStepsLeft = RoundsLeft(place, sent)
      /\ CallStepsLeft' = RoundsLeft(place', sent')
  BY DEF CallStepsLeft
<1>4. ASSUME NEW a \in Call!Answers, Call!Exchange(a)
      PROVE  CallStepsLeft' < CallStepsLeft
  <2>1. place = "ready" /\ place' = "answered" /\ sent' = sent + 1
    BY <1>4 DEF Call!Exchange
  <2>2. QED
    BY <1>1, <1>2, <1>3, <2>1
<1>5. CASE Call!Wait
  <2>1. place = "answered" /\ place' = "waiting" /\ sent' = sent
    BY <1>5 DEF Call!Wait
  <2>2. QED
    BY <1>1, <1>2, <1>3, <2>1
<1>6. CASE Call!Wake
  <2>1. place = "waiting" /\ place' = "ready" /\ sent' = sent
    BY <1>6 DEF Call!Wake
  <2>2. QED
    BY <1>1, <1>2, <1>3, <2>1
<1>7. CASE Call!Return
  <2>1. place = "answered" /\ place' = "done"
    BY <1>7 DEF Call!Return
  <2>2. sent <= MaxRetries + 1
    BY <1>1, <2>1 DEF CallInv, Progress
  <2>3. QED
    BY <1>1, <1>2, <1>3, <2>1, <2>2
<1>8. QED
  BY <1>4, <1>5, <1>6, <1>7 DEF Call!Next, Call!Done

\* A call ends after a bounded number of steps, whatever the service answers:
\* every step of it, of which there are 3 * (MaxRetries + 1) at most, brings its
\* end nearer (transport::execute).
THEOREM CallsAreShort ==
  Call!Spec => /\ [](CallStepsLeft \in 0 .. 3 * (MaxRetries + 1))
               /\ [][CallStepsLeft' < CallStepsLeft]_(Call!vars)
<1>1. CallInv => CallStepsLeft \in 0 .. 3 * (MaxRetries + 1)
  <2> SUFFICES ASSUME CallInv
               PROVE  CallStepsLeft \in 0 .. 3 * (MaxRetries + 1)
    OBVIOUS
  <2>1. MaxRetries \in Nat /\ sent \in Nat
    BY TransportAssumption DEF CallInv, Call!TypeOK
  <2>2. /\ place \in {"ready", "waiting", "answered", "done"}
        /\ place \in {"ready", "waiting"} => sent <= MaxRetries
        /\ place \in {"answered", "done"} => 1 <= sent /\ sent <= MaxRetries + 1
    BY <2>1 DEF CallInv, Call!TypeOK, Progress
  <2>3. QED
    BY <2>1, <2>2 DEF CallStepsLeft, RoundsLeft
<1>2. CallInv /\ [Call!Next]_(Call!vars) => [CallStepsLeft' < CallStepsLeft]_(Call!vars)
  BY CallDescends
<1>3. QED
  BY <1>1, <1>2, CallInvariant, PTL DEF Call!Spec

\* A container costs its request, the answer and its polls, one of which may
\* start the next.
StepsPerContainer == MaxPolls + 3

\* The items of a carousel a command has not yet seen finished.
Missing(p) == Parts(request[p]) - Len(children[p])

\* The most steps a command at `at` still has ahead of it when n items are missing
\* and the current container was polled m times.
Ahead(at, n, m) ==
  CASE at = "quota"     -> n * StepsPerContainer + StepsPerContainer + 6
    [] at = "confirm"   -> n * StepsPerContainer + StepsPerContainer + 5
    [] at = "create"    -> n * StepsPerContainer + StepsPerContainer + 4
    [] at = "created"   -> n * StepsPerContainer + StepsPerContainer + 3
    [] at = "poll"      -> n * StepsPerContainer + 5 + (MaxPolls - m)
    [] at = "publish"   -> 3
    [] at = "published" -> 2
    [] at = "store"     -> 1
    [] at = "done"      -> 0

StepsAhead(p) == Ahead(pc[p], Missing(p), polls[p])

CommandCost == MaxItems * StepsPerContainer + StepsPerContainer + 6

CommandsFit == \A p \in Procs : StepsAhead(p) \in 0 .. CommandCost

LEMMA AheadAt ==
  ASSUME NEW n, NEW m
  PROVE  /\ Ahead("quota", n, m) = n * StepsPerContainer + StepsPerContainer + 6
         /\ Ahead("confirm", n, m) = n * StepsPerContainer + StepsPerContainer + 5
         /\ Ahead("create", n, m) = n * StepsPerContainer + StepsPerContainer + 4
         /\ Ahead("created", n, m) = n * StepsPerContainer + StepsPerContainer + 3
         /\ Ahead("poll", n, m) = n * StepsPerContainer + 5 + (MaxPolls - m)
         /\ Ahead("publish", n, m) = 3
         /\ Ahead("published", n, m) = 2
         /\ Ahead("store", n, m) = 1
         /\ Ahead("done", n, m) = 0
  BY DEF Ahead

\* The products, which the arithmetic below treats as numbers.
LEMMA ContainersCost ==
  /\ StepsPerContainer \in Nat /\ StepsPerContainer = MaxPolls + 3
  /\ \A n \in Nat : n * StepsPerContainer \in Nat
  /\ \A n \in Nat : (n + 1) * StepsPerContainer = n * StepsPerContainer + StepsPerContainer
  /\ \A m, n \in Nat : m <= n => m * StepsPerContainer <= n * StepsPerContainer
  /\ CommandCost \in Nat
<1>1. StepsPerContainer \in Nat /\ StepsPerContainer = MaxPolls + 3
  BY PublishAssumption DEF StepsPerContainer
<1>2. ASSUME NEW n \in Nat
      PROVE  /\ n * StepsPerContainer \in Nat
             /\ (n + 1) * StepsPerContainer = n * StepsPerContainer + StepsPerContainer
  BY <1>1
<1>3. ASSUME NEW m \in Nat, NEW n \in Nat, m <= n
      PROVE  m * StepsPerContainer <= n * StepsPerContainer
  <2>1. PICK d \in Nat : n = m + d
    <3>1. n - m \in Nat /\ n = m + (n - m)
      BY <1>3
    <3>2. QED
      BY <3>1
  <2>2. /\ m * StepsPerContainer \in Nat /\ d * StepsPerContainer \in Nat
        /\ (m + d) * StepsPerContainer = m * StepsPerContainer + d * StepsPerContainer
    BY <1>1
  <2>3. QED
    BY <2>1, <2>2
<1>4. CommandCost \in Nat
  <2>1. MaxItems * StepsPerContainer \in Nat
    BY <1>2, PublishAssumption
  <2>2. QED
    BY <1>1, <2>1 DEF CommandCost
<1>5. QED
  BY <1>1, <1>2, <1>3, <1>4

LEMMA MissingTyped ==
  ASSUME PublishInv, NEW p \in Procs
  PROVE  /\ Missing(p) \in 0 .. MaxItems
         /\ Missing(p) * StepsPerContainer \in Nat
         /\ Missing(p) * StepsPerContainer <= MaxItems * StepsPerContainer
         /\ polls[p] \in Nat /\ polls[p] <= MaxPolls /\ MaxPolls \in Nat
<1>1. /\ request[p].items \in 0 .. MaxItems /\ Len(children[p]) \in Nat
      /\ MaxItems \in Nat /\ MaxPolls \in Nat /\ polls[p] \in 0 .. MaxPolls
  BY PublishAssumption, LenProperties DEF PublishInv, TypeOK, Requests
<1>2. Len(children[p]) <= Parts(request[p])
  BY DEF PublishInv, CommandInv, Containers
<1>3. Parts(request[p]) \in 0 .. MaxItems
  BY <1>1 DEF Parts
<1>4. Missing(p) \in 0 .. MaxItems
  BY <1>1, <1>2, <1>3 DEF Missing
<1>5. /\ Missing(p) * StepsPerContainer \in Nat
      /\ Missing(p) * StepsPerContainer <= MaxItems * StepsPerContainer
  <2>1. Missing(p) \in Nat /\ Missing(p) <= MaxItems
    BY <1>1, <1>4
  <2>2. QED
    BY <1>1, <2>1, ContainersCost
<1>6. QED
  BY <1>1, <1>4, <1>5

LEMMA CommandsAreBounded ==
  ASSUME PublishInv, NEW p \in Procs
  PROVE  StepsAhead(p) \in 0 .. CommandCost
<1> DEFINE n == Missing(p)
<1>1. /\ n * StepsPerContainer \in Nat
      /\ n * StepsPerContainer <= MaxItems * StepsPerContainer
      /\ polls[p] \in Nat /\ polls[p] <= MaxPolls /\ MaxPolls \in Nat
  BY MissingTyped
<1>2. /\ StepsPerContainer \in Nat /\ StepsPerContainer = MaxPolls + 3
      /\ MaxItems * StepsPerContainer \in Nat
      /\ CommandCost = MaxItems * StepsPerContainer + StepsPerContainer + 6
  BY ContainersCost, PublishAssumption DEF CommandCost
<1>3. pc[p] \in Stages \cup {"done"}
  BY DEF PublishInv, TypeOK
<1>4. StepsAhead(p) = Ahead(pc[p], n, polls[p])
  BY DEF StepsAhead
<1> HIDE DEF n
<1>5. CASE pc[p] \in {"quota", "confirm", "create", "created"}
  BY <1>1, <1>2, <1>4, <1>5, AheadAt
<1>6. CASE pc[p] = "poll"
  BY <1>1, <1>2, <1>4, <1>6, AheadAt
<1>7. CASE pc[p] \in {"publish", "published", "store", "done"}
  BY <1>1, <1>2, <1>4, <1>7, AheadAt
<1>8. QED
  BY <1>3, <1>5, <1>6, <1>7 DEF Stages

LEMMA CommandDescends ==
  ASSUME PublishInv, NEW p \in Procs, Step(p)
  PROVE  StepsAhead(p)' < StepsAhead(p)
<1> DEFINE n == Missing(p)
<1>1. /\ n \in Nat /\ n * StepsPerContainer \in Nat
      /\ polls[p] \in Nat /\ polls[p] <= MaxPolls /\ MaxPolls \in Nat
      /\ StepsPerContainer \in Nat /\ StepsPerContainer = MaxPolls + 3
  BY MissingTyped, ContainersCost
<1>2. /\ StepsAhead(p) = Ahead(pc[p], n, polls[p])
      /\ StepsAhead(p)' = Ahead(pc'[p], Missing(p)', polls'[p])
  BY DEF StepsAhead
<1>3. request' = request /\ children'[p] = children[p] => Missing(p)' = n
  BY DEF Missing
<1>4. TypeOK /\ CommandInv(p)
  BY DEF PublishInv
<1>5. CASE CheckQuota(p) \/ Confirm(p)
  <2>1. /\ \/ pc[p] = "quota" /\ pc'[p] \in {"confirm", "done"}
           \/ pc[p] = "confirm" /\ pc'[p] \in {"create", "done"}
        /\ request' = request /\ children'[p] = children[p]
    BY <1>4, <1>5 DEF CheckQuota, Confirm, End, Goto, TypeOK
  <2>2. Missing(p)' = n
    BY <1>3, <2>1
  <2> HIDE DEF n
  <2>3. QED
    BY <1>1, <1>2, <2>1, <2>2, AheadAt
<1>6. ASSUME NEW a \in Answers, Create(p, a)
      PROVE  StepsAhead(p)' < StepsAhead(p)
  <2>1. /\ pc[p] = "create" /\ pc'[p] = "created"
        /\ request' = request /\ children'[p] = children[p]
    BY <1>4, <1>6, CommandsPostOnce DEF Create, TypeOK
  <2>2. Missing(p)' = n
    BY <1>3, <2>1
  <2> HIDE DEF n
  <2>3. QED
    BY <1>1, <1>2, <2>1, <2>2, AheadAt
<1>7. CASE Created(p)
  <2>1. /\ pc[p] = "created"
        /\ \/ pc'[p] = "poll" /\ polls'[p] = 0
           \/ pc'[p] \in {"publish", "done"}
        /\ request' = request /\ children'[p] = children[p]
    BY <1>4, <1>7 DEF Created, End, Goto, TypeOK
  <2>2. Missing(p)' = n
    BY <1>3, <2>1
  <2> HIDE DEF n
  <2>3. QED
    BY <1>1, <1>2, <2>1, <2>2, AheadAt
<1>8. ASSUME NEW status, Poll(p, status)
      PROVE  StepsAhead(p)' < StepsAhead(p)
  <2>1. pc[p] = "poll" /\ request' = request
    BY <1>8 DEF Poll
  <2>2. StepsAhead(p) = n * StepsPerContainer + 5 + (MaxPolls - polls[p])
    BY <1>2, <2>1, AheadAt
  <2>3. CASE pc'[p] \in {"publish", "done"}
    <3> HIDE DEF n
    <3>1. QED
      BY <1>1, <1>2, <2>2, <2>3, AheadAt
  <2>4. CASE /\ UNCHANGED <<children, pc>>
             /\ polls' = [polls EXCEPT ![p] = @ + 1]
             /\ polls[p] + 1 < MaxPolls
    <3>1. pc'[p] = "poll" /\ polls'[p] = polls[p] + 1 /\ Missing(p)' = n
      BY <1>3, <1>4, <2>1, <2>4 DEF TypeOK
    <3> HIDE DEF n
    <3>2. StepsAhead(p)' = n * StepsPerContainer + 5 + (MaxPolls - (polls[p] + 1))
      BY <1>2, <3>1, AheadAt
    <3>3. QED
      BY <1>1, <2>2, <3>2
  <2>5. CASE GoOn(p) /\ IsItem(p, current[p])
    <3>1. /\ children'[p] = Append(children[p], current[p])
          /\ pc'[p] = "create"
      BY <1>4, <2>5 DEF GoOn, Goto, TypeOK
    <3>2. Len(children'[p]) = Len(children[p]) + 1 /\ Len(children[p]) \in Nat
      BY <1>4, <3>1, AppendProperties, LenProperties DEF TypeOK
    <3>3. NeedsItem(p)
      BY <1>4, <2>1, <2>5 DEF CommandInv, Knows, IsItem, Wanted, Post
    <3>4. n = Missing(p)' + 1 /\ Missing(p)' \in Nat
      <4>1. request[p].items \in Nat
        BY <1>4, PublishAssumption DEF TypeOK, Requests
      <4>2. Parts(request[p]) = request[p].items /\ Len(children[p]) < request[p].items
        BY <3>3 DEF NeedsItem, IsCarousel, Parts
      <4>3. /\ n = request[p].items - Len(children[p])
            /\ Missing(p)' = request[p].items - Len(children'[p])
        BY <2>1, <4>2 DEF Missing
      <4> HIDE DEF n
      <4>4. QED
        BY <3>2, <4>1, <4>2, <4>3
    <3>5. StepsAhead(p)' = Missing(p)' * StepsPerContainer + StepsPerContainer + 4
      BY <1>2, <3>1, AheadAt
    <3>6. SUFFICES ASSUME NEW m \in Nat, n = m + 1,
                          StepsAhead(p)' = m * StepsPerContainer + StepsPerContainer + 4
                   PROVE  StepsAhead(p)' < StepsAhead(p)
      BY <3>4, <3>5
    <3> HIDE DEF n
    <3>7. /\ n * StepsPerContainer = m * StepsPerContainer + StepsPerContainer
          /\ m * StepsPerContainer \in Nat
      BY <3>6, ContainersCost
    <3>8. QED
      BY <1>1, <2>2, <3>6, <3>7
  <2>6. GoOn(p) => IsItem(p, current[p]) \/ pc'[p] = "publish"
    BY <1>4 DEF GoOn, Goto, TypeOK
  <2>7. StillInProgress(p) =>
          \/ pc'[p] = "done"
          \/ /\ UNCHANGED <<children, pc>>
             /\ polls' = [polls EXCEPT ![p] = @ + 1]
             /\ polls[p] + 1 < MaxPolls
    BY <1>4 DEF StillInProgress, End, Goto, TypeOK
  <2>8. QED
    BY <1>4, <1>8, <2>3, <2>4, <2>5, <2>6, <2>7 DEF Poll, End, Goto, TypeOK
<1>9. ASSUME NEW a \in Answers, PublishContainer(p, a)
      PROVE  StepsAhead(p)' < StepsAhead(p)
  <2>1. pc[p] = "publish" /\ pc'[p] = "published"
    BY <1>4, <1>9, CommandsPostOnce DEF PublishContainer, TypeOK
  <2> HIDE DEF n
  <2>2. QED
    BY <1>2, <2>1, AheadAt
<1>10. CASE Published(p) \/ Store(p)
  <2>1. \/ pc[p] = "published" /\ pc'[p] \in {"store", "done"}
        \/ pc[p] = "store" /\ pc'[p] = "done"
    BY <1>4, <1>10 DEF Published, Store, End, Goto, TypeOK
  <2> HIDE DEF n
  <2>2. QED
    BY <1>2, <2>1, AheadAt
<1>11. QED
  BY <1>5, <1>6, <1>7, <1>8, <1>9, <1>10 DEF Step

\* A command takes a bounded number of steps, whatever the service answers and
\* whatever runs beside it (publish_flow, poll_until_finished): its steps bring
\* its end nearer, and nothing moves it away.
THEOREM CommandsAreShort ==
  Spec => /\ []CommandsFit
          /\ [][\A p \in Procs :
                  /\ Step(p) => StepsAhead(p)' < StepsAhead(p)
                  /\ StepsAhead(p)' <= StepsAhead(p)]_vars
<1>1. PublishInv => CommandsFit
  BY CommandsAreBounded DEF CommandsFit
<1>2. PublishInv /\ CommandsFit /\ CommandsFit' /\ [Next]_vars =>
        [\A p \in Procs :
            /\ Step(p) => StepsAhead(p)' < StepsAhead(p)
            /\ StepsAhead(p)' <= StepsAhead(p)]_vars
  <2> SUFFICES ASSUME PublishInv, CommandsFit, CommandsFit', [Next]_vars,
                      NEW p \in Procs
               PROVE  /\ Step(p) => StepsAhead(p)' < StepsAhead(p)
                      /\ StepsAhead(p)' <= StepsAhead(p)
    OBVIOUS
  <2>1. Step(p) => StepsAhead(p)' < StepsAhead(p)
    BY CommandDescends
  <2>2. StepsAhead(p) \in Nat /\ StepsAhead(p)' \in Nat
    BY ContainersCost DEF CommandsFit
  <2>3. CASE Kill(p)
    <3>1. pc'[p] = "done"
      BY <2>3 DEF Kill, End, Goto, PublishInv, TypeOK
    <3>2. StepsAhead(p)' = 0
      BY <3>1, AheadAt DEF StepsAhead
    <3>3. QED
      BY <2>1, <2>2, <3>2
  <2>4. CASE ~Step(p) /\ ~Kill(p)
    <3>1. request' = request /\ pc'[p] = pc[p] /\ polls'[p] = polls[p]
          /\ children'[p] = children[p]
      <4>1. ASSUME NEW q \in Procs \ {p}, Step(q) \/ Kill(q)
            PROVE  /\ request' = request /\ pc'[p] = pc[p] /\ polls'[p] = polls[p]
                   /\ children'[p] = children[p]
        BY <4>1, CommandSteps DEF PublishInv, Stepped, Alone
      <4>2. QED
        BY <2>4, <4>1 DEF Next, Quiet, Age, vars, process
    <3>2. StepsAhead(p)' = StepsAhead(p)
      BY <3>1 DEF StepsAhead, Missing
    <3>3. QED
      BY <2>1, <2>2, <3>2
  <2>5. QED
    BY <2>1, <2>2, <2>3, <2>4
<1>3. QED
  BY <1>1, <1>2, PublishInvariant, PTL DEF Spec

=============================================================================
