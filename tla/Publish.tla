-------------------------------- MODULE Publish --------------------------------
(***************************************************************************)
(* `post create` (crates/threads-cli/src/commands/post.rs): any number of  *)
(* invocations for one account.  Each checks the quota, asks for           *)
(* confirmation, creates its containers one POST at a time, polls the ones *)
(* that hold media, publishes the last, and stores what it published.      *)
(* Every await is a point where the others may run, the service may refuse *)
(* or its answer be lost, and the process may be killed.                   *)
(***************************************************************************)
EXTENDS Transport, Sequences, FiniteSets

CONSTANTS Procs,     \* invocations of the command
          MaxItems,  \* bound on the --image-url and --video-url of one
          Total,     \* posts, and replies, allowed in 24 h
          MaxPolls,  \* 5: `for attempt in 1..=5`
          Pending

Quotas == {"post", "reply"}

\* Of a container, as container_status reads them.
Statuses == {"FINISHED", "PUBLISHED", "IN_PROGRESS", "EXPIRED", "ERROR"}

\* How a command ends: the errors before it publishes, and the others.
EarlyErrors == {"LimitsUnknown", "QuotaExhausted", "Cancelled", "NotCreated",
                "NotFinished"}
Outcomes == Results \cup EarlyErrors \cup {"NotStored", "Killed"}

ASSUME PublishAssumption ==
  /\ IsFiniteSet(Procs) /\ Procs # {}
  /\ Pending \notin Outcomes
  /\ MaxItems \in Nat
  /\ Total \in [Quotas -> Nat \ {0}]
  /\ MaxPolls \in Nat \ {0}

VARIABLES
  request,   \* what each invocation is asked to publish
  usage,     \* what the service counts against each quota
  made,      \* the containers the service has made for each invocation
  published, \* and those it has published, each time
  pc,        \* where it is
  current,   \* the container it is about to poll or publish
  children,  \* the carousel items it has seen finished
  ready,     \* history: containers it has seen finished
  polls,     \* status polls of the current container
  attempt,   \* requests sent for the current call
  answer,    \* to the last of them
  result,    \* how it ended
  stored     \* the invocations whose post is in the store

service == <<usage, made, published>>
process == <<pc, current, children, ready, polls, attempt, answer, result>>
vars    == <<request, service, process, stored>>

\* The items are the media inputs; the type is inferred from their number.
Requests == [items : 0 .. MaxItems, reply : BOOLEAN]

HasMedia(p)   == request[p].items > 0
IsCarousel(p) == request[p].items > 1
QuotaOf(p)    == IF request[p].reply THEN "reply" ELSE "post"

\* A container stands for one item of a carousel, or for the post (item 0), which
\* carries reply_to_id; what it is asked to be decides which quota it counts for.
Container == [item : 0 .. MaxItems, reply : BOOLEAN, children : Seq(Nat)]

NeedsItem(p) == IsCarousel(p) /\ Len(children[p]) < request[p].items

\* publish_params::carousel_item
Item(p) == [item |-> Len(children[p]) + 1, reply |-> FALSE, children |-> <<>>]

\* Slips for the mutation runs, here and below.
PostForgettingReply(p) ==
  [item |-> 0, reply |-> request[p].reply /\ ~IsCarousel(p),
   children |-> children[p]]

\* publish_params::create, carousel_parent
Post(p) == [item |-> 0, reply |-> request[p].reply, children |-> children[p]]

\* The next container to create.
Wanted(p) == IF NeedsItem(p) THEN Item(p) ELSE Post(p)

IsItem(p, c) == made[p][c].item > 0

-----------------------------------------------------------------------------

Init ==
  /\ request \in [Procs -> Requests]
  /\ usage \in [Quotas -> UNION {0 .. Total[k] : k \in Quotas}]
  /\ \A k \in Quotas : usage[k] <= Total[k]
  /\ made = [p \in Procs |-> <<>>]
  /\ published = [p \in Procs |-> <<>>]
  /\ pc = [p \in Procs |-> "quota"]
  /\ current = [p \in Procs |-> 0]
  /\ children = [p \in Procs |-> <<>>]
  /\ ready = [p \in Procs |-> {}]
  /\ polls = [p \in Procs |-> 0]
  /\ attempt = [p \in Procs |-> 0]
  /\ answer = [p \in Procs |-> "lost"]
  /\ result = [p \in Procs |-> Pending]
  /\ stored = {}

Goto(p, place) == pc' = [pc EXCEPT ![p] = place]

\* The command returns.
End(p, r) ==
  /\ result' = [result EXCEPT ![p] = r]
  /\ Goto(p, "done")

\* check_quota
Exhausted(p) == usage[QuotaOf(p)] >= Total[QuotaOf(p)]

\* publishing_limits, then check_quota.
CheckQuota(p) ==
  /\ pc[p] = "quota"
  /\ \/ Exhausted(p) /\ End(p, "QuotaExhausted")
     \/ ~Exhausted(p) /\ Goto(p, "confirm") /\ UNCHANGED result
     \/ End(p, "LimitsUnknown")
  /\ UNCHANGED <<request, service, current, children, ready, polls,
                 attempt, answer, stored>>

Confirm(p) ==
  /\ pc[p] = "confirm"
  /\ \/ Goto(p, "create") /\ UNCHANGED result
     \/ End(p, "Cancelled")
  /\ UNCHANGED <<request, service, current, children, ready, polls,
                 attempt, answer, stored>>

\* A POST and its answer; the client sends it again, or the call returns.
Exchange(p, a, again, after) ==
  /\ attempt' = [attempt EXCEPT ![p] = @ + 1]
  /\ answer' = [answer EXCEPT ![p] = a]
  /\ Goto(p, IF Retries("POST", attempt[p] + 1, a) THEN again ELSE after)

Returned(p, r) == r \in ResultsOf(answer[p])

\* The next call starts afresh.
Forget(p) ==
  /\ attempt' = [attempt EXCEPT ![p] = 0]
  /\ answer' = [answer EXCEPT ![p] = "lost"]

\* create_container, create_carousel_item, create_carousel_container
Create(p, a) ==
  /\ pc[p] = "create"
  /\ \E carried \in Carries(a) :
       made' = IF carried THEN [made EXCEPT ![p] = Append(@, Wanted(p))] ELSE made
  /\ Exchange(p, a, "create", "created")
  /\ UNCHANGED <<request, usage, published, current, children, ready, polls,
                 result, stored>>

\* Only media is polled.
Created(p) ==
  /\ pc[p] = "created"
  /\ \/ /\ Returned(p, "Ok")
        /\ current' = [current EXCEPT ![p] = Len(made[p])]
        /\ polls' = [polls EXCEPT ![p] = 0]
        /\ Goto(p, IF HasMedia(p) THEN "poll" ELSE "publish")
        /\ UNCHANGED result
     \/ /\ \E e \in Errors : Returned(p, e)
        /\ End(p, "NotCreated")
        /\ UNCHANGED <<current, polls>>
  /\ Forget(p)
  /\ UNCHANGED <<request, service, children, ready, stored>>

\* The container is finished: the next one, or the post.
GoOn(p) ==
  LET c == current[p]
  IN  /\ ready' = [ready EXCEPT ![p] = @ \cup {c}]
      /\ IF IsItem(p, c)
         THEN /\ children' = [children EXCEPT ![p] = Append(@, c)]
              /\ Goto(p, "create")
         ELSE Goto(p, "publish") /\ UNCHANGED children
      /\ UNCHANGED <<polls, result>>

\* A slip for the mutation runs.
StillInProgressGivesUpQuietly(p) ==
  IF polls[p] + 1 < MaxPolls
  THEN polls' = [polls EXCEPT ![p] = @ + 1] /\ UNCHANGED <<pc, children, ready, result>>
  ELSE /\ Goto(p, IF IsItem(p, current[p]) THEN "create" ELSE "publish")
       /\ children' = IF IsItem(p, current[p])
                      THEN [children EXCEPT ![p] = Append(@, current[p])] ELSE children
       /\ UNCHANGED <<ready, polls, result>>

\* It is not: one more poll, MaxPolls of them at most.
StillInProgress(p) ==
  /\ polls' = [polls EXCEPT ![p] = @ + 1]
  /\ IF polls[p] + 1 < MaxPolls THEN UNCHANGED <<pc, result>>
                                ELSE End(p, "NotFinished")
  /\ UNCHANGED <<children, ready>>

\* poll_until_finished, one poll; no status is one that could not be read.
Poll(p, status) ==
  /\ pc[p] = "poll"
  /\ \/ status \in {"FINISHED", "PUBLISHED"} /\ GoOn(p)
     \/ status = "IN_PROGRESS" /\ StillInProgress(p)
     \/ /\ status \in {"EXPIRED", "ERROR", "none"}
        /\ End(p, "NotFinished")
        /\ UNCHANGED <<children, ready, polls>>
  /\ UNCHANGED <<request, service, current, attempt, answer, stored>>

\* publish_container
PublishContainer(p, a) ==
  /\ pc[p] = "publish"
  /\ \E carried \in Carries(a) :
       IF carried
       THEN /\ published' = [published EXCEPT ![p] = Append(@, current[p])]
            /\ LET k == IF made[p][current[p]].reply THEN "reply" ELSE "post"
               IN  usage' = [usage EXCEPT ![k] = @ + 1]
       ELSE UNCHANGED <<published, usage>>
  /\ Exchange(p, a, "publish", "published")
  /\ UNCHANGED <<request, made, current, children, ready, polls, result, stored>>

Published(p) ==
  /\ pc[p] = "published"
  /\ \/ Returned(p, "Ok") /\ Goto(p, "store") /\ UNCHANGED result
     \/ \E e \in Errors : Returned(p, e) /\ End(p, e)
  /\ Forget(p)
  /\ UNCHANGED <<request, service, current, children, ready, polls, stored>>

\* fetch_post, whose failure only changes what is stored (see PostStore), then
\* upsert_posts.
Store(p) ==
  /\ pc[p] = "store"
  /\ \/ stored' = stored \cup {p} /\ End(p, "Ok")
     \/ stored' = stored          /\ End(p, "NotStored")
  /\ UNCHANGED <<request, service, current, children, ready, polls, attempt, answer>>

\* The process is killed.
Kill(p) ==
  /\ pc[p] # "done"
  /\ End(p, "Killed")
  /\ UNCHANGED <<request, service, current, children, ready, polls,
                 attempt, answer, stored>>

\* The service: a post leaves the window of 24 h.
Age(k) ==
  /\ usage[k] > 0
  /\ usage' = [usage EXCEPT ![k] = @ - 1]
  /\ UNCHANGED <<request, made, published, process, stored>>

Step(p) ==
  \/ CheckQuota(p)
  \/ Confirm(p)
  \/ \E a \in Answers : Create(p, a) \/ PublishContainer(p, a)
  \/ Created(p)
  \/ Published(p)
  \/ \E status \in Statuses \cup {"none"} : Poll(p, status)
  \/ Store(p)

\* Every invocation has ended.
Quiet == (\A p \in Procs : pc[p] = "done") /\ UNCHANGED vars

Next ==
  \/ \E p \in Procs : Step(p) \/ Kill(p)
  \/ \E k \in Quotas : Age(k)
  \/ Quiet

\* An invocation goes on until it ends: requests time out, sleeps end, store
\* calls return, and the user answers the prompt.
Spec == Init /\ [][Next]_vars /\ \A p \in Procs : WF_vars(Step(p))

-----------------------------------------------------------------------------
(* Properties *)

Stages == {"quota", "confirm", "create", "created", "poll", "publish",
           "published", "store"}

TypeOK ==
  /\ request \in [Procs -> Requests]
  /\ usage \in [Quotas -> Nat]
  /\ made \in [Procs -> Seq(Container)]
  /\ published \in [Procs -> Seq(Nat)]
  /\ pc \in [Procs -> Stages \cup {"done"}]
  /\ current \in [Procs -> Nat]
  /\ \A p \in Procs : current[p] \in 0 .. Len(made[p])
  /\ children \in [Procs -> Seq(Nat)]
  /\ ready \in [Procs -> SUBSET Nat]
  /\ polls \in [Procs -> 0 .. MaxPolls]
  /\ attempt \in [Procs -> Nat]
  /\ answer \in [Procs -> Answers]
  /\ result \in [Procs -> Outcomes \cup {Pending}]
  /\ stored \subseteq Procs

\* Invocations that check the quota before the others have published overshoot
\* it, but by no more than one post each.
QuotaOvershoot == \A k \in Quotas : usage[k] < Total[k] + Cardinality(Procs)

\* Nothing is published half-made: what is published is a reply if one was asked
\* for, its container was seen finished if it has media, and a carousel holds
\* every item of the request once, in order, each seen finished, whatever
\* containers lost answers left behind.
Whole(p, c) ==
  LET parts == made[p][c].children
  IN  /\ made[p][c].item = 0
      /\ made[p][c].reply = request[p].reply
      /\ HasMedia(p) => c \in ready[p]
      /\ Len(parts) = IF IsCarousel(p) THEN request[p].items ELSE 0
      /\ \A i \in DOMAIN parts :
           parts[i] \in ready[p] /\ made[p][parts[i]].item = i

PublishedPostsAreWhole ==
  \A p \in Procs : \A i \in DOMAIN published[p] : Whole(p, published[p][i])

\* A command, however many calls it takes, promises what one POST promises: it
\* publishes at most once, a success is one, and unless the answer to the publish
\* call itself is lost or unreadable, or the process is killed, or the store
\* fails afterwards, an error means that nothing was published and the command
\* may be given again.
SafeToRepeat == EarlyErrors \cup {"Auth", "PermissionDenied", "NotFound",
                                  "RateLimit", "Other"}

Command(p) == INSTANCE RemoteCall
                WITH Methods <- {"POST"}, method <- "POST",
                     Results <- Outcomes, Refused <- SafeToRepeat,
                     effects <- Len(published[p]), result <- result[p]

\* Each step is one of such a call, or none.
CommandsAreSafe ==
  /\ \A p \in Procs : Command(p)!Init
  /\ [][\A p \in Procs : [Command(p)!Next]_(Command(p)!vars)]_vars

\* And each of them returns.
CommandsAreSingleCalls ==
  CommandsAreSafe /\ \A p \in Procs : <>(result[p] # Pending)

=============================================================================
