-------------------------------- MODULE Ingest --------------------------------
(***************************************************************************)
(* `ingest me`, `ingest engagement` and `ingest thread`                    *)
(* (crates/threads-ingest/src/orchestrator): any number of runs, some at   *)
(* the same time, over one store.  Each run reads the edges of the service *)
(* page by page, drops the posts it has seen, and writes the others in     *)
(* batches, one transaction each.  Every await and every transaction is a  *)
(* point where other runs, a publish, a delete or the service may act, and *)
(* where the run may fail or be killed.                                    *)
(***************************************************************************)
EXTENDS Service, Naturals, SequencesExt

CONSTANTS Runs,       \* invocations of the command
          Kinds,      \* of them: "me", "engagement", "thread"
          Published,  \* posts of mine `post create` publishes meanwhile
          HandleOf,   \* the username of each account
          Content,    \* what every post holds
          BatchSize,  \* 100
          MaxDepth,   \* --depth
          PageSize    \* bound on the posts of one page

ASSUME IngestAssumption ==
  /\ Kinds \subseteq {"me", "engagement", "thread"}
  /\ Published \subseteq {p \in PostIds : TrueAuthor[p] = Me}
  /\ HandleOf \in [Accounts -> Names]
  /\ Content \in Contents
  /\ BatchSize \in Nat \ {0} /\ MaxDepth \in Nat /\ PageSize \in Nat \ {0}
  /\ \A p \in PostIds :   \* the root of a thread is where its replies lead
       LET parent == TrueParent[p]
       IN  TrueRoot[p] = IF parent = None THEN None
                         ELSE IF TrueParent[parent] = None THEN parent
                         ELSE TrueRoot[parent]

VARIABLES
  db,        \* the tables of posts
  rows,      \* the fetch_runs table, one row at most for each run
  remote,    \* posts the service has
  unwritten, \* published posts their command has yet to store
  erased,    \* history: posts `delete` took out of the store
  unlinked,  \* history: replies a publish stored last, without their parent
  pc,        \* where each run is
  kind,      \* what it ingests
  seen,      \* ids it has met
  batch,     \* posts it has not written yet
  total,     \* how many it has written
  frontier,  \* edges it has not read yet
  source,    \* the edge it is reading
  ahead,     \* what the service has still to return for that edge
  more,      \* whether the last page had a next cursor
  page,      \* what it has not looked at of the pages it fetched
  seeds,     \* history: where an engagement run started
  stored     \* history: posts it has written

store == <<db, rows>>
world == <<remote, unwritten, erased, unlinked>>
run   == <<kind, seen, batch, total, frontier, source, ahead, more, page,
           seeds, stored>>
vars  == <<store, world, pc, run>>

-----------------------------------------------------------------------------
(* The edges of the service                                                *)

Edges == [edge : {"threads", "replies", "children", "conversation"},
          of : PostIds \cup {None}, depth : Nat]

EdgeOf(edge, of, depth) == [edge |-> edge, of |-> of, depth |-> depth]

ItemsOf(e) ==
  CASE e.edge = "threads"  -> {p \in remote : TrueAuthor[p] = Me /\ TrueParent[p] = None}
    [] e.edge = "replies"  -> {p \in remote : TrueAuthor[p] = Me /\ TrueParent[p] # None}
    [] e.edge = "children" -> {p \in remote : TrueParent[p] = e.of}
    [] e.edge = "conversation" -> {p \in remote : p = e.of \/ TrueRoot[p] = e.of}

\* The root id a reply lacks is the id the edge was asked for (root_hint).
Fetched(e, p) ==
  DtoToPost(p, IF e.edge = "threads" THEN OwnerFields ELSE ReplyFields,
            HandleOf[TrueAuthor[p]], Content, e.of)

-----------------------------------------------------------------------------
(* The table of runs, and the batches                                      *)

RunRow(state, fetched) == [state |-> state, fetched |-> fetched]

WriteRun(r, state, fetched) == rows' = [rows EXCEPT ![r] = RunRow(state, fetched)]

\* A slip for the mutation runs.
UpsertAllWithParents(tables, posts) ==
  FoldLeft(LAMBDA before, x :
             LET parent == x.post.parent
                 filled == IF parent = None \/ parent \in Stored(before) THEN before
                           ELSE Upsert(before, parent, x.post)
             IN  Upsert(filled, x.id, x.post), tables, posts)

UpsertAll(tables, posts) ==
  LET after[n \in 0 .. Len(posts)] ==
        IF n = 0 THEN tables
        ELSE Upsert(after[n - 1], posts[n].id, posts[n].post)
  IN  after[Len(posts)]

Ids(posts) == {posts[i].id : i \in DOMAIN posts}

Goto(r, place) == pc' = [pc EXCEPT ![r] = place]

-----------------------------------------------------------------------------
(* One run                                                                 *)

\* What `post create` stores of a post, whether it can fetch it back or not.
AfterPublish(p, back) ==
  IF back THEN OwnerPost(p, HandleOf[Me], Content) ELSE SynthesizedPost(p, Content)

\* The store may already hold posts of mine, as publishing leaves them.  Those
\* being published are on the service before their command stores them.
Init ==
  /\ \E before \in SUBSET ({p \in PostIds : TrueAuthor[p] = Me} \ Published) :
       \E back \in SUBSET before, order \in SetToSeqs(before) :
         db = UpsertAll(EmptyTables,
                [i \in DOMAIN order |->
                   [id |-> order[i],
                    post |-> AfterPublish(order[i], order[i] \in back)]])
  /\ unwritten = Published
  /\ unlinked = {}
  /\ rows = [r \in Runs |-> RunRow("none", 0)]
  /\ remote = PostIds
  /\ erased = {}
  /\ pc = [r \in Runs |-> "idle"]
  /\ kind = [r \in Runs |-> "me"]
  /\ seen = [r \in Runs |-> {}]
  /\ batch = [r \in Runs |-> <<>>]
  /\ total = [r \in Runs |-> 0]
  /\ frontier = [r \in Runs |-> <<>>]
  /\ source = [r \in Runs |-> EdgeOf("threads", None, 0)]
  /\ ahead = [r \in Runs |-> {}]
  /\ more = [r \in Runs |-> FALSE]
  /\ page = [r \in Runs |-> <<>>]
  /\ seeds = [r \in Runs |-> {}]
  /\ stored = [r \in Runs |-> {}]

\* start_fetch_run.  A thread run reads one edge, of the top-level post it is
\* given, and needs no account.
Start(r, k, top) ==
  /\ pc[r] = "idle"
  /\ top \in IF k = "thread" THEN {p \in PostIds : TrueParent[p] = None}
                             ELSE {None}
  /\ WriteRun(r, "open", 0)
  /\ kind' = [kind EXCEPT ![r] = k]
  /\ frontier' = [frontier EXCEPT ![r] =
       IF k = "thread" THEN <<EdgeOf("conversation", top, 0)>> ELSE <<>>]
  /\ Goto(r, IF k = "thread" THEN "next" ELSE "me")
  /\ UNCHANGED <<db, world, seen, batch, total, source, ahead, more, page,
                 seeds, stored>>

\* fetch_me, then upsert_user.
RecordMe(r) ==
  /\ pc[r] = "me"
  /\ db' = UpsertUser(db, Me, HandleOf[Me])
  /\ Goto(r, "resolve")
  /\ UNCHANGED <<rows, world, run>>

\* A slip for the mutation runs.
ResolveMeAtFirst(r) ==
  /\ pc[r] = "resolve"
  /\ db' = IF ByAuthor(db, Me) = {} THEN Reconcile(db, HandleOf[Me], Me) ELSE db
  /\ frontier' = [frontier EXCEPT ![r] =
       IF kind[r] = "me" THEN <<EdgeOf("threads", None, 0), EdgeOf("replies", None, 0)>>
                         ELSE <<>>]
  /\ Goto(r, IF kind[r] = "me" THEN "next" ELSE "seeds")
  /\ UNCHANGED <<rows, world, kind, seen, batch, total, source, ahead, more,
                 page, seeds, stored>>

\* resolve_author.  `ingest me` goes on with two edges.
ResolveMe(r) ==
  /\ pc[r] = "resolve"
  /\ db' = Reconcile(db, HandleOf[Me], Me)
  /\ frontier' = [frontier EXCEPT ![r] =
       IF kind[r] = "me" THEN <<EdgeOf("threads", None, 0), EdgeOf("replies", None, 0)>>
                         ELSE <<>>]
  /\ Goto(r, IF kind[r] = "me" THEN "next" ELSE "seeds")
  /\ UNCHANGED <<rows, world, kind, seen, batch, total, source, ahead, more,
                 page, seeds, stored>>

\* posts_by_author: `ingest engagement` starts from every post of mine.
ReadSeeds(r) ==
  LET authored == ByAuthor(db, Me)
  IN  /\ pc[r] = "seeds"
      /\ seeds' = [seeds EXCEPT ![r] = authored]
      /\ seen' = [seen EXCEPT ![r] = authored]
      /\ \E order \in SetToSeqs(authored) :
           frontier' = [frontier EXCEPT ![r] =
             [i \in DOMAIN order |-> EdgeOf("children", order[i], 0)]]
      /\ Goto(r, "next")
      /\ UNCHANGED <<store, world, kind, batch, total, source, ahead, more,
                     page, stored>>

TooDeep(e) == e.edge = "children" /\ e.depth >= MaxDepth

OpenWithoutPop(r) ==
  /\ pc[r] = "next" /\ frontier[r] # <<>>
  /\ LET e == Head(frontier[r])
     IN  IF TooDeep(e)
         THEN UNCHANGED <<pc, source, ahead>>
         ELSE /\ source' = [source EXCEPT ![r] = e]
              /\ ahead' = [ahead EXCEPT ![r] = ItemsOf(e)]
              /\ Goto(r, "fetch")
  /\ UNCHANGED <<store, world, kind, seen, batch, total, frontier, more, page,
                 seeds, stored>>

\* The next edge of the queue, unless it is too deep to be read.
Open(r) ==
  /\ pc[r] = "next" /\ frontier[r] # <<>>
  /\ frontier' = [frontier EXCEPT ![r] = Tail(@)]
  /\ LET e == Head(frontier[r])
     IN  IF TooDeep(e)
         THEN UNCHANGED <<pc, source, ahead>>
         ELSE /\ source' = [source EXCEPT ![r] = e]
              /\ ahead' = [ahead EXCEPT ![r] = ItemsOf(e)]
              /\ Goto(r, "fetch")
  /\ UNCHANGED <<store, world, kind, seen, batch, total, more, page, seeds,
                 stored>>

\* What one request may return: some posts of the edge, in any order, some of
\* them perhaps again.  A page with a next cursor brings something new; one
\* without is the last.  An edge of a post that is gone returns 404 (see Fail).
Answers(r) ==
  {a \in [items : SeqOf(ItemsOf(source[r]), PageSize), next : BOOLEAN] :
     LET new == ToSet(a.items) \cap ahead[r]
     IN  IF a.next THEN new # {} ELSE ahead[r] \cap remote \subseteq ToSet(a.items)}

\* fetch_thread collects all the pages before any post is looked at; the other
\* edges are looked at page by page.
FetchPage(r) ==
  /\ pc[r] = "fetch"
  /\ source[r].of \in remote \cup {None}
  /\ \E a \in Answers(r) :
       /\ page' = [page EXCEPT ![r] = @ \o a.items]
       /\ ahead' = [ahead EXCEPT ![r] = @ \ ToSet(a.items)]
       /\ more' = [more EXCEPT ![r] = a.next]
       /\ Goto(r, IF a.next /\ kind[r] = "thread" THEN "fetch" ELSE "take")
  /\ UNCHANGED <<store, world, kind, seen, batch, total, frontier, source,
                 seeds, stored>>

\* Slips for the mutation runs.
KeepAgain(r, p) ==
  /\ seen' = [seen EXCEPT ![r] = @ \cup {p}]
  /\ batch' = [batch EXCEPT ![r] =
                 Append(@, [id |-> p, post |-> Fetched(source[r], p)])]
  /\ UNCHANGED frontier

\* The next post of the page: dropped when its id was seen, else kept for the
\* batch, and an engagement run will read its replies too.
Keep(r, p) ==
  IF p \in seen[r]
  THEN UNCHANGED <<seen, batch, frontier>>
  ELSE /\ seen' = [seen EXCEPT ![r] = @ \cup {p}]
       /\ batch' = [batch EXCEPT ![r] =
                      Append(@, [id |-> p, post |-> Fetched(source[r], p)])]
       /\ frontier' = [frontier EXCEPT ![r] =
            IF kind[r] = "engagement"
            THEN Append(@, EdgeOf("children", p, source[r].depth + 1)) ELSE @]

Full(posts) == Len(posts) >= BatchSize

Take(r) ==
  /\ pc[r] = "take" /\ page[r] # <<>>
  /\ Keep(r, Head(page[r]))
  /\ page' = [page EXCEPT ![r] = Tail(@)]
  /\ Goto(r, IF Full(batch'[r]) THEN "flush" ELSE "take")
  /\ UNCHANGED <<store, world, kind, total, source, ahead, more, seeds, stored>>

\* The page is done: the next one, or the next edge.
Turn(r) ==
  /\ pc[r] = "take" /\ page[r] = <<>>
  /\ Goto(r, IF more[r] THEN "fetch" ELSE "next")
  /\ UNCHANGED <<store, world, run>>

\* upsert_posts, when the batch is full or nothing is left to read.
Flush(r) ==
  /\ \/ pc[r] = "flush"
     \/ pc[r] = "next" /\ frontier[r] = <<>> /\ batch[r] # <<>>
  /\ db' = UpsertAll(db, batch[r])
  /\ stored' = [stored EXCEPT ![r] = @ \cup Ids(batch[r])]
  /\ total' = [total EXCEPT ![r] = @ + Len(batch[r])]
  /\ batch' = [batch EXCEPT ![r] = <<>>]
  /\ unlinked' = unlinked \ Ids(batch[r])
  /\ Goto(r, IF pc[r] = "flush" THEN "take" ELSE "next")
  /\ UNCHANGED <<rows, remote, unwritten, erased, kind, seen, frontier, source,
                 ahead, more, page, seeds>>

FinishWithoutFlush(r) ==
  /\ pc[r] = "next" /\ frontier[r] = <<>>
  /\ WriteRun(r, "ok", total[r])
  /\ Goto(r, "done")
  /\ UNCHANGED <<db, world, run>>

\* finish_fetch_run, Ok.
Finish(r) ==
  /\ pc[r] = "next" /\ frontier[r] = <<>> /\ batch[r] = <<>>
  /\ WriteRun(r, "ok", total[r])
  /\ Goto(r, "done")
  /\ UNCHANGED <<db, world, run>>

\* A request or a transaction fails: the run stops where it is.
Fail(r) ==
  /\ pc[r] \in {"me", "resolve", "seeds", "fetch", "flush", "next"}
  /\ pc[r] = "next" => frontier[r] = <<>> /\ batch[r] # <<>>
  /\ Goto(r, "failed")
  /\ UNCHANGED <<store, world, run>>

\* finish_fetch_run, Err: the row says 0, whatever was written before.
FinishFailed(r) ==
  /\ pc[r] = "failed"
  /\ WriteRun(r, "failed", 0)
  /\ Goto(r, "done")
  /\ UNCHANGED <<db, world, run>>

\* The process is killed, or its last statement fails: the row stays open.
Kill(r) ==
  /\ pc[r] \notin {"idle", "done", "killed"}
  /\ Goto(r, "killed")
  /\ UNCHANGED <<store, world, run>>

-----------------------------------------------------------------------------
(* The others                                                              *)

\* post create writes what it published, however late and whatever the runs have
\* stored of it: what it fetched back does not say what it replies to.
Publish(p, back) ==
  /\ p \in unwritten
  /\ db' = Upsert(db, p, AfterPublish(p, back))
  /\ unwritten' = unwritten \ {p}
  /\ unlinked' = IF back /\ TrueParent[p] # None THEN unlinked \cup {p}
                                                ELSE unlinked
  /\ UNCHANGED <<rows, remote, erased, pc, run>>

\* A post disappears from the service ...
Vanish(p) ==
  /\ p \in remote
  /\ remote' = remote \ {p}
  /\ UNCHANGED <<store, unwritten, erased, unlinked, pc, run>>

\* ... and, when `delete` did it, from the store.
Erase(p) ==
  /\ p \in ByAuthor(db, Me) \ remote
  /\ db' = DeleteRow(db, p)
  /\ erased' = erased \cup {p}
  /\ UNCHANGED <<rows, remote, unwritten, unlinked, pc, run>>

Step(r) ==
  \/ Fail(r)
  \/ RecordMe(r)
  \/ ResolveMe(r)
  \/ ReadSeeds(r)
  \/ Open(r)
  \/ FetchPage(r)
  \/ Take(r)
  \/ Turn(r)
  \/ Flush(r)
  \/ Finish(r)
  \/ FinishFailed(r)

\* Every run has ended.
Quiet ==
  /\ \A r \in Runs : pc[r] \in {"done", "killed"}
  /\ UNCHANGED vars

Next ==
  \/ Quiet
  \/ \E r \in Runs :
       \/ \E k \in Kinds, top \in OptionOf(PostIds) : Start(r, k, top)
       \/ Step(r)
       \/ Kill(r)
  \/ \E p \in PostIds :
       \/ \E back \in BOOLEAN : Publish(p, back)
       \/ Vanish(p)
       \/ Erase(p)

\* A run that was started goes on until it ends: its requests time out (a
\* failure), its transactions return.
Spec == Init /\ [][Next]_vars /\ \A r \in Runs : WF_vars(Step(r))

-----------------------------------------------------------------------------
(* Properties *)

TypeOK ==
  /\ db \in Tables
  /\ rows \in [Runs -> [state : {"none", "open", "ok", "failed"}, fetched : Nat]]
  /\ remote \subseteq PostIds
  /\ unwritten \subseteq Published
  /\ erased \subseteq PostIds
  /\ unlinked \subseteq PostIds
  /\ pc \in [Runs -> {"idle", "me", "resolve", "seeds", "next", "fetch", "take",
                      "flush", "failed", "done", "killed"}]
  /\ kind \in [Runs -> {"me", "engagement", "thread"}]
  /\ seen \in [Runs -> SUBSET PostIds]
  /\ batch \in [Runs -> Seq([id : PostIds, post : Post])]
  /\ \A r \in Runs : Len(batch[r]) <= BatchSize
  /\ total \in [Runs -> Nat]
  /\ frontier \in [Runs -> Seq(Edges)]
  /\ source \in [Runs -> Edges]
  /\ ahead \in [Runs -> SUBSET PostIds]
  /\ more \in [Runs -> BOOLEAN]
  /\ page \in [Runs -> Seq(PostIds)]
  /\ seeds \in [Runs -> SUBSET PostIds]
  /\ stored \in [Runs -> SUBSET PostIds]

\* fetch_runs tells the truth: the row of a run that ended is closed, and a row
\* without an error counts the posts the run wrote, each once, which are all it
\* has met.
RunsAreAccounted ==
  \A r \in Runs :
    /\ pc[r] = "done" => rows[r].state \in {"ok", "failed"}
    /\ rows[r].state = "ok" =>
         /\ rows[r].fetched = Cardinality(stored[r])
         /\ stored[r] = seen[r] \ seeds[r]

\* What a run has written stays in the store, whatever the others resolve,
\* merge and rewrite, until a delete takes it out.
WrittenPostsAreKept ==
  \A r \in Runs : stored[r] \subseteq Stored(db) \cup erased

\* The replies within n levels of a set of posts.
Below(top, depth) ==
  LET level[n \in 0 .. depth] ==
        IF n = 0 THEN top
        ELSE level[n - 1] \cup {p \in remote : TrueParent[p] \in level[n - 1]}
  IN  level[depth]

Wanted(r) ==
  CASE kind[r] = "me"         -> {p \in remote : TrueAuthor[p] = Me}
    [] kind[r] = "engagement" -> Below(seeds[r], MaxDepth)
    [] kind[r] = "thread"     -> ItemsOf(source[r])

\* A run that ends without an error has missed nothing: every post of mine, of
\* the conversation, or of the reply trees below my posts down to the depth
\* asked for, that was on the service throughout.
CompleteRunsMissNothing ==
  [][\A r \in Runs : Finish(r) => Wanted(r) \subseteq stored[r] \cup seeds[r]]_vars

\* Every run ends.
RunEnds == \A r \in Runs : pc[r] = "me" \/ pc[r] = "next" ~> pc[r] \in {"done", "killed"}

\* Whatever an earlier run stored under the placeholder of my username, a run
\* that resolves it gives to me: afterwards every post of mine in the store is
\* among my posts, whichever edge and run wrote it and whatever came in between.
\* Only what is stored without any author is left there: the posts `post create`
\* synthesized, and those that merging such a post with a later fetch of it, which
\* brings my username, has moved from the placeholder to the empty author.
LateAttribution ==
  [][\A r \in Runs : ResolveMe(r) =>
       {p \in Stored(db) : TrueAuthor[p] = Me} \subseteq
         ByAuthor(db', Me) \cup ByAuthor(db, Nobody)]_vars

Held(r) == Ids(batch[r]) \cup ToSet(page[r])

\* A post that `delete` took out of the store comes back only through a run that
\* had fetched it before or the command that published it: neither another post
\* that points to it, nor a merge, nor a later page can.
DeletedPostsStayAway ==
  [][\A p \in erased \ (Stored(db) \cup unwritten \cup UNION {Held(r) : r \in Runs}) :
       /\ p \notin Stored(db')
       /\ \A r \in Runs : p \notin Held(r)']_vars

\* What a run has written hangs under the post it replies to, whatever the others
\* write again, merge, resolve and delete: upsert_post_tx replaces the edges that
\* leave a post and none that lead to it.  Only the command that published a reply
\* unlinks it, until a run writes it again.
RepliesHang ==
  \A r \in Runs : \A p \in (stored[r] \cap Stored(db)) \ unlinked :
    LET parent == TrueParent[p]
    IN  parent # None =>
          /\ db.posts[p].parent = parent
          /\ \/ [from |-> p, to |-> parent, kind |-> "reply"] \in db.edges
             \/ parent \in erased

\* `ingest thread`, then `show --thread`: when the run ends without an error, the
\* recursive query finds every post of the conversation that hangs, by posts that
\* are on the service, under the post the run was given, unless the command that
\* published one of them has unlinked it since the run wrote it.
ThreadsAreShown ==
  [][\A r \in Runs :
       LET top    == source[r].of
           thread == Below({top}, Cardinality(PostIds))
       IN  Finish(r) /\ kind[r] = "thread" /\ top \in remote /\ thread \cap unlinked = {}
             => thread \subseteq ThreadRootedAt(db, top)]_vars

=============================================================================
