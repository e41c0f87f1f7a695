------------------------------ MODULE PostTables -----------------------------
(***************************************************************************)
(* The users, posts (with its child tables) and edges tables of            *)
(* crates/threads-store, and the statements the store runs on them, each   *)
(* as an operator from the tables before to the tables after one SQLite    *)
(* transaction.  Modules that own the tables apply these operators.        *)
(***************************************************************************)
EXTENDS PostModel, Naturals, FiniteSets

CONSTANT Absent   \* there is no row under this key


\* A row of posts with its mentions; the username lives in users.
Row == [author   : AuthorIds,
        content  : OptionOf(Contents),
        parent   : OptionOf(PostIds),
        root     : OptionOf(PostIds),
        quote    : BOOLEAN,
        mentions : SUBSET Accounts]

ASSUME PostTablesAssumption == Absent \notin OptionOf(Names) \cup Row

Edge == [from : PostIds,
         to   : PostIds \cup Accounts,
         kind : {"reply", "root", "mention", "quote"}]

Tables == [users : [AuthorIds -> OptionOf(Names) \cup {Absent}],
           posts : [PostIds -> Row \cup {Absent}],
           edges : SUBSET Edge]

EmptyTables == [users |-> [a \in AuthorIds |-> Absent],
                posts |-> [p \in PostIds |-> Absent],
                edges |-> {}]

-----------------------------------------------------------------------------
(* Reads *)

Stored(db) == {p \in PostIds : db.posts[p] # Absent}

\* load_post joins users for the username.
LoadPost(db, p) ==
  LET row == db.posts[p]
  IN  [author  |-> row.author,  name   |-> db.users[row.author],
       content |-> row.content, parent |-> row.parent,
       root    |-> row.root,    quote  |-> row.quote,
       mentions |-> row.mentions]

ByAuthor(db, author) == {p \in Stored(db) : db.posts[p].author = author}

\* posts_in_window: kind is told by parent_id alone, and a post without a
\* created_at is never a candidate.
InWindow(db, author, kind) ==
  {p \in ByAuthor(db, author) :
     /\ db.posts[p].content # None
     /\ (kind = "post") <=> (db.posts[p].parent = None)}

\* The recursive query of thread_rooted_at, by depth; ids that are not stored
\* are passed through.
RepliesTo(db, targets) ==
  {e.from : e \in {x \in db.edges : x.kind = "reply" /\ x.to \in targets}}

Reached(db, root) ==
  LET level[d \in 0 .. Cardinality(PostIds)] ==
        IF d = 0 THEN {root} ELSE RepliesTo(db, level[d - 1])
  IN  UNION {level[d] : d \in DOMAIN level}

ThreadRootedAt(db, root) == Reached(db, root) \cap Stored(db)

\* A slip for the mutation runs.
RepliesInThreadsOf(db, account, author) ==
  {p \in ByAuthor(db, author) \ ByAuthor(db, account) :
     /\ db.posts[p].root \in ByAuthor(db, account)
     /\ ~db.posts[p].quote}

\* The two counts of rank_engaged_accounts: what an author wrote in reply to
\* the account, and what it wrote mentioning it.
RepliesBy(db, account, author) ==
  {p \in ByAuthor(db, author) \ ByAuthor(db, account) :
     /\ db.posts[p].parent \in ByAuthor(db, account)
     /\ ~db.posts[p].quote}

MentionsBy(db, account, author) ==
  {p \in ByAuthor(db, author) \ ByAuthor(db, account) :
     /\ account \in db.posts[p].mentions
     /\ ~db.posts[p].quote}

\* The ranking without its order and limit.
EngagedAccounts(db, account) ==
  {[author   |-> a,
    replies  |-> Cardinality(RepliesBy(db, account, a)),
    mentions |-> Cardinality(MentionsBy(db, account, a))] :
     a \in {b \in AuthorIds : \/ RepliesBy(db, account, b) # {}
                              \/ MentionsBy(db, account, b) # {}}}

-----------------------------------------------------------------------------
(* Users *)

\* Slips for the mutation runs.
ReconcileBeforeMove(db, name, id) ==
  [db EXCEPT !.users = [@ EXCEPT ![id] = name, ![At(name)] = Absent],
             !.posts = [p \in PostIds |->
                IF p \in ByAuthor(db, At(name)) THEN Absent ELSE db.posts[p]]]

ReconcileKeepsEveryHandle(db, name, id) ==
  [db EXCEPT !.users[id] = name,
             !.posts = [p \in PostIds |->
                IF p \in Stored(db) /\ IsHandle(db.posts[p].author)
                THEN [db.posts[p] EXCEPT !.author = id] ELSE db.posts[p]]]

UpsertUser(db, id, name) == [db EXCEPT !.users[id] = name]

\* DELETE FROM users, with the ON DELETE CASCADE of posts.author_id.
DropUser(db, id) ==
  [db EXCEPT !.users[id] = Absent,
             !.posts = [p \in PostIds |->
                IF p \in ByAuthor(db, id) THEN Absent ELSE db.posts[p]]]

MovePosts(db, from, to) ==
  [db EXCEPT !.posts = [p \in PostIds |->
     IF p \in ByAuthor(db, from) THEN [db.posts[p] EXCEPT !.author = to]
                                 ELSE db.posts[p]]]

\* reconcile_author_tx, also the whole of resolve_author.
Reconcile(db, name, id) ==
  DropUser(MovePosts(UpsertUser(db, id, name), At(name), id), At(name))

-----------------------------------------------------------------------------
(* Posts *)

\* The edges upsert_post_tx derives from the post it writes.
EdgesOf(p, post) ==
     {[from |-> p, to |-> q, kind |-> "reply"] : q \in {post.parent} \ {None}}
\cup {[from |-> p, to |-> q, kind |-> "root"]  : q \in {post.root} \ {None}}
\cup {[from |-> p, to |-> a, kind |-> "mention"] : a \in post.mentions}
\cup {[from |-> p, to |-> q, kind |-> "quote"] :
        q \in IF post.quote THEN {post.parent} \ {None} ELSE {}}

RowOf(post) ==
  [author |-> post.author, content |-> post.content, parent |-> post.parent,
   root |-> post.root, quote |-> post.quote, mentions |-> post.mentions]

\* Slips for the mutation runs.
WriteRowKeepsEdges(db, p, post) ==
  [users |-> [db.users EXCEPT ![post.author] =
                IF post.name # None \/ @ = Absent THEN post.name ELSE @],
   posts |-> [db.posts EXCEPT ![p] = RowOf(post)],
   edges |-> db.edges \cup EdgesOf(p, post)]

WriteRowWithoutUser(db, p, post) ==
  [db EXCEPT !.posts[p] = RowOf(post),
             !.edges = {e \in @ : e.from # p} \cup EdgesOf(p, post)]

WriteRowDropsReplies(db, p, post) ==
  [users |-> [db.users EXCEPT ![post.author] =
                IF post.name # None \/ @ = Absent THEN post.name ELSE @],
   posts |-> [db.posts EXCEPT ![p] = RowOf(post)],
   edges |-> {e \in db.edges : e.from # p /\ e.to # p} \cup EdgesOf(p, post)]

\* Only a placeholder-authored fetch is merged with what is stored.
Effective(db, p, post) ==
  IF IsHandle(post.author) /\ p \in Stored(db)
  THEN Merge(LoadPost(db, p), post)
  ELSE post

\* The INSERTs: the author's users row keeps its username when the post
\* carries none (COALESCE), the post's row and children are replaced, and so
\* are the edges that leave it.
WriteRow(db, p, post) ==
  [users |-> [db.users EXCEPT ![post.author] =
                IF post.name # None \/ @ = Absent THEN post.name ELSE @],
   posts |-> [db.posts EXCEPT ![p] = RowOf(post)],
   edges |-> {e \in db.edges : e.from # p} \cup EdgesOf(p, post)]

\* upsert_post_tx
Upsert(db, p, fetched) ==
  LET post  == Effective(db, p, fetched)
      known == IF ~IsHandle(post.author) /\ post.name # None
               THEN Reconcile(db, post.name, post.author)
               ELSE db
  IN  WriteRow(known, p, post)

\* delete_post: the edges table has no foreign key, so both directions go.
DeleteRow(db, p) ==
  [users |-> db.users,
   posts |-> [db.posts EXCEPT ![p] = Absent],
   edges |-> {e \in db.edges : e.from # p /\ e.to # p}]

=============================================================================
