----------------------------- MODULE IngestProofs -----------------------------
(***************************************************************************)
(* Theorems about Ingest, for any finite set of posts, any accounts,       *)
(* usernames and contents, any number of runs at the same time, any batch  *)
(* size, page size and depth.                                              *)
(***************************************************************************)
EXTENDS Ingest, PostTablesProofs, SequenceTheorems

Written == [id : PostIds, post : Post]

\* A post as this program fetches it: it names its author, by id only when the
\* author is me.
NamesItsAuthor(p, post) ==
  /\ post.name = HandleOf[TrueAuthor[p]]
  /\ \/ post.author = At(HandleOf[TrueAuthor[p]])
     \/ post.author = Me /\ TrueAuthor[p] = Me

\* ... or as it makes one up of a post of mine.
Signed(p, post) ==
  \/ NamesItsAuthor(p, post)
  \/ post.name = None /\ post.author = Nobody /\ TrueAuthor[p] = Me

\* A table in which no post of mine is under another account or username.
Mine(t) ==
  \A p \in Stored(t) :
    /\ t.posts[p].author \in {Me, Nobody} \cup Handles
    /\ TrueAuthor[p] = Me => t.posts[p].author \in {Me, Nobody, At(HandleOf[Me])}

Good(t) == t \in Tables /\ Joined(t) /\ Mine(t)

-----------------------------------------------------------------------------
(* upsert_posts *)

\* The tables after each post of a batch.
IsHistory(h, n, t, posts) ==
  h = [i \in 0 .. n |->
         IF i = 0 THEN t ELSE Upsert(h[i - 1], posts[i].id, posts[i].post)]

LEMMA HistoryExists ==
  ASSUME NEW n \in Nat, NEW t, NEW posts
  PROVE  \E h : IsHistory(h, n, t, posts)
<1> DEFINE S == {i \in Nat : ~ \E h : IsHistory(h, i, t, posts)}
<1>1. SUFFICES S = {}
  OBVIOUS
<1>2. SUFFICES ASSUME S # {}
               PROVE  FALSE
  OBVIOUS
<1>3. PICK i \in S : \A j \in S : i <= j
  BY <1>2, LeastNumber
<1>4. i # 0
  <2>1. IsHistory([j \in 0 .. 0 |-> t], 0, t, posts)
    BY DEF IsHistory
  <2>2. QED
    BY <2>1, <1>3
<1>5. i - 1 \in Nat /\ i - 1 \notin S /\ i \in Nat
  BY <1>3, <1>4
<1>6. PICK h : IsHistory(h, i - 1, t, posts)
  BY <1>5
<1> DEFINE g == [j \in 0 .. i |->
                   IF j = i THEN Upsert(h[i - 1], posts[i].id, posts[i].post)
                            ELSE h[j]]
<1>7. IsHistory(g, i, t, posts)
  <2>1. ASSUME NEW j \in 0 .. i
        PROVE  g[j] = IF j = 0 THEN t
                      ELSE Upsert(g[j - 1], posts[j].id, posts[j].post)
    <3>1. CASE j = i
      BY <3>1, <1>4, <1>5
    <3>2. CASE j # i
      <4>1. j \in 0 .. i - 1
        BY <3>2, <1>5
      <4>2. h[j] = IF j = 0 THEN t
                   ELSE Upsert(h[j - 1], posts[j].id, posts[j].post)
        BY <4>1, <1>6 DEF IsHistory
      <4>3. j # 0 => j - 1 \in 0 .. i /\ j - 1 # i
        BY <4>1, <1>5
      <4>4. QED
        BY <3>2, <4>2, <4>3
    <3>3. QED
      BY <3>1, <3>2
  <2>2. QED
    BY <2>1 DEF IsHistory
<1>8. QED
  BY <1>3, <1>7

\* One post of a batch.
LEMMA UpsertKeepsGood ==
  ASSUME NEW t, Good(t), NEW p \in PostIds, NEW fetched \in Post, Signed(p, fetched)
  PROVE  /\ Good(Upsert(t, p, fetched))
         /\ Stored(Upsert(t, p, fetched)) = Stored(t) \cup {p}
<1> DEFINE post == Effective(t, p, fetched)
           u == Upsert(t, p, fetched)
           resolves == ~IsHandle(post.author) /\ post.name # None
           mine == TrueAuthor[p]
<1>1. t \in Tables /\ Joined(t)
  BY DEF Good
<1>2. /\ u \in Tables
      /\ Joined(u)
      /\ Stored(u) = Stored(t) \cup {p}
      /\ u.posts[p] = RowOf(post)
      /\ \A q \in Stored(t) \ {p} :
           u.posts[q] = IF resolves /\ t.posts[q].author = At(post.name)
                        THEN [t.posts[q] EXCEPT !.author = post.author]
                        ELSE t.posts[q]
  BY <1>1, UpsertEffect
<1>3. /\ Me \in Accounts
      /\ mine \in Accounts
      /\ HandleOf[mine] \in Names
      /\ HandleOf[Me] \in Names
      /\ HandleOf[mine] # None
  BY ServiceAssumption, IngestAssumption, PostModelAssumption
<1>4. /\ Me \in AuthorIds /\ ~IsHandle(Me)
      /\ IsHandle(At(HandleOf[mine])) /\ At(HandleOf[mine]) \in Handles
  BY <1>3, HandleOrReal DEF RealIds, IsHandle
<1>4a. Nobody \notin Handles
  BY HandleOrReal DEF RealIds, IsHandle
<1>5. /\ post.author \in {Me, Nobody} \cup Handles
      /\ mine = Me => post.author \in {Me, Nobody, At(HandleOf[Me])}
  <2>1. CASE p \in Stored(t) /\ IsHandle(fetched.author)
    <3>1. post.author = PreferReal(fetched.author, t.posts[p].author)
      BY <2>1 DEF Effective, Merge, LoadPost
    <3>2. fetched.author = At(HandleOf[mine])
      BY <2>1, <1>4, <1>4a DEF Signed, NamesItsAuthor, IsHandle
    <3> HIDE DEF post
    <3>3. QED
      BY <3>1, <3>2, <2>1, <1>4 DEF PreferReal, Good, Mine
  <2>2. CASE ~(p \in Stored(t) /\ IsHandle(fetched.author))
    <3>1. post = fetched
      BY <2>2 DEF Effective
    <3>2. QED
      BY <3>1, <1>4 DEF Signed, NamesItsAuthor
  <2>3. QED
    BY <2>1, <2>2
<1> HIDE DEF post, u
<1>6. u.posts[p].author = post.author
  BY <1>2 DEF RowOf
<1>7. ASSUME NEW q \in Stored(t) \ {p}
      PROVE  /\ u.posts[q].author \in {Me, Nobody} \cup Handles
             /\ TrueAuthor[q] = Me =>
                  u.posts[q].author \in {Me, Nobody, At(HandleOf[Me])}
  <2>1. CASE resolves /\ t.posts[q].author = At(post.name)
    <3>1. post.author \in {Me, Nobody}
      BY <2>1, <1>5 DEF IsHandle
    <3>2. u.posts[q] = [t.posts[q] EXCEPT !.author = post.author] /\ t.posts[q] \in Row
      BY <2>1, <1>1, <1>2, TablesFields
    <3>3. u.posts[q].author = post.author
      BY <3>2 DEF Row
    <3>4. QED
      BY <3>1, <3>3
  <2>2. CASE ~(resolves /\ t.posts[q].author = At(post.name))
    <3>1. u.posts[q] = t.posts[q]
      BY <2>2, <1>2
    <3>2. QED
      BY <3>1 DEF Good, Mine
  <2>3. QED
    BY <2>1, <2>2
<1>8. Mine(u)
  BY <1>2, <1>5, <1>6, <1>7 DEF Mine
<1>9. QED
  BY <1>2, <1>8 DEF u, Good

\* A batch writes every one of its posts, takes none away, and keeps the tables
\* joined and mine.
LEMMA UpsertAllKeepsGood ==
  ASSUME NEW t, Good(t), NEW posts \in Seq(Written),
         \A i \in 1 .. Len(posts) : Signed(posts[i].id, posts[i].post)
  PROVE  /\ Good(UpsertAll(t, posts))
         /\ Stored(UpsertAll(t, posts)) = Stored(t) \cup Ids(posts)
<1> DEFINE n == Len(posts)
           h == CHOOSE h : IsHistory(h, n, t, posts)
           IdsTo(i) == {posts[j].id : j \in 1 .. i}
           Right(i) == Good(h[i]) /\ Stored(h[i]) = Stored(t) \cup IdsTo(i)
           S == {i \in 0 .. n : ~Right(i)}
<1>1. n \in Nat /\ DOMAIN posts = 1 .. n
  BY LenProperties
<1>2. IsHistory(h, n, t, posts)
  BY <1>1, HistoryExists
<1>3. UpsertAll(t, posts) = h[n]
  BY DEF UpsertAll, IsHistory
<1> HIDE DEF h
<1>4. /\ h[0] = t
      /\ \A i \in 1 .. n : h[i] = Upsert(h[i - 1], posts[i].id, posts[i].post)
  <2> HIDE DEF n
  <2>1. \A i \in 0 .. n : h[i] = IF i = 0 THEN t
                          ELSE Upsert(h[i - 1], posts[i].id, posts[i].post)
    BY <1>2 DEF IsHistory
  <2>2. QED
    BY <2>1, <1>1
<1> HIDE DEF n
<1>5. Right(0)
  BY <1>4
<1>6. ASSUME NEW i \in 1 .. n, Right(i - 1)
      PROVE  Right(i)
  <2>1. posts[i] \in Written
    BY <1>1, ElementOfSeq DEF n
  <2>2. posts[i].id \in PostIds /\ posts[i].post \in Post
    BY <2>1 DEF Written
  <2>3. Signed(posts[i].id, posts[i].post)
    BY DEF n
  <2>4. /\ Good(h[i])
        /\ Stored(h[i]) = Stored(h[i - 1]) \cup {posts[i].id}
    BY <1>4, <1>6, <2>2, <2>3, UpsertKeepsGood
  <2>5. IdsTo(i) = IdsTo(i - 1) \cup {posts[i].id}
    <3>1. 1 .. i = (1 .. i - 1) \cup {i}
      BY <1>1
    <3>2. QED
      BY <3>1
  <2>6. QED
    BY <2>4, <2>5, <1>6
<1> HIDE DEF Right
<1>7. S = {}
  <2> SUFFICES ASSUME S # {}
               PROVE  FALSE
    OBVIOUS
  <2>1. PICK i \in S : \A j \in S : i <= j
    <3>1. S \in SUBSET Nat
      BY <1>1
    <3> HIDE DEF S
    <3>2. QED
      BY <3>1, LeastNumber
  <2>2. i # 0
    BY <2>1, <1>5
  <2>3. i \in 1 .. n /\ i - 1 \in 0 .. n /\ i - 1 \notin S
    BY <2>1, <2>2, <1>1
  <2>4. QED
    BY <2>1, <2>3, <1>6
<1>8. Right(n)
  BY <1>7, <1>1
<1>9. IdsTo(n) = Ids(posts)
  BY <1>1 DEF Ids
<1>10. QED
  BY <1>3, <1>8, <1>9 DEF Right

-----------------------------------------------------------------------------
(* The inductive invariant *)

\* A run that has not begun to read has met and written nothing.
Fresh(r) ==
  pc[r] \in {"idle", "me", "resolve", "seeds"} =>
    /\ seen[r] = {} /\ seeds[r] = {} /\ stored[r] = {}
    /\ batch[r] = <<>> /\ total[r] = 0

\* Whatever a run has met, other than what it started from, it has written or
\* holds in its batch, once.
Counted(r) ==
  /\ seeds[r] \subseteq seen[r]
  /\ stored[r] \cup Ids(batch[r]) = seen[r] \ seeds[r]
  /\ total[r] + Len(batch[r]) = Cardinality(seen[r] \ seeds[r])

\* The batch is written as soon as it is full.
Room(r) ==
  /\ Len(batch[r]) <= BatchSize
  /\ pc[r] \in {"idle", "me", "resolve", "seeds", "next", "fetch", "take"}
       => Len(batch[r]) < BatchSize

\* A run is reported as successful only when it has nothing left to write.
Reported(r) ==
  /\ pc[r] = "done" => rows[r].state \in {"ok", "failed"}
  /\ rows[r].state = "ok" =>
       /\ pc[r] = "done" /\ batch[r] = <<>>
       /\ rows[r].fetched = total[r]

\* Pages hold posts of the edge they come from: only me/threads, which lists
\* posts of mine, names owners.
Fitting(r) ==
  /\ pc[r] \in {"idle", "me", "resolve", "seeds", "next"} => page[r] = <<>>
  /\ source[r].edge = "threads" =>
       \A i \in 1 .. Len(page[r]) : TrueAuthor[page[r][i]] = Me
  /\ \A i \in 1 .. Len(batch[r]) : Signed(batch[r][i].id, batch[r][i].post)

RunInv(r) == Fresh(r) /\ Counted(r) /\ Room(r) /\ Reported(r) /\ Fitting(r)

IngestInv ==
  /\ TypeOK
  /\ Good(db)
  /\ erased \cap remote = {}
  /\ WrittenPostsAreKept
  /\ \A r \in Runs : RunInv(r)

-----------------------------------------------------------------------------
(* What is fetched, and the other writes *)

LEMMA FetchedIsSigned ==
  ASSUME NEW e \in Edges, NEW p \in PostIds
  PROVE  /\ Fetched(e, p) \in Post
         /\ (e.edge = "threads" => TrueAuthor[p] = Me) => Signed(p, Fetched(e, p))
<1>1. /\ TrueAuthor[p] \in Accounts
      /\ HandleOf[TrueAuthor[p]] \in Names
      /\ TrueParent[p] \in OptionOf(PostIds)
      /\ TrueRoot[p] \in OptionOf(PostIds)
      /\ TrueQuote[p] \in BOOLEAN
      /\ e.of \in OptionOf(PostIds)
      /\ Content \in OptionOf(Contents)
  BY ServiceAssumption, IngestAssumption DEF Edges, OptionOf
<1>2. /\ TrueAuthor[p] \in AuthorIds
      /\ At(HandleOf[TrueAuthor[p]]) \in AuthorIds
      /\ HandleOf[TrueAuthor[p]] \in OptionOf(Names)
      /\ None \in OptionOf(PostIds)
  BY <1>1 DEF AuthorIds, RealIds, Handles, OptionOf
<1>3. Fetched(e, p) \in Post
  BY <1>1, <1>2 DEF Fetched, DtoToPost, OrElse, Post
<1>4. /\ Fetched(e, p).name = HandleOf[TrueAuthor[p]]
      /\ Fetched(e, p).author = IF e.edge = "threads" THEN TrueAuthor[p]
                                ELSE At(HandleOf[TrueAuthor[p]])
  BY DEF Fetched, DtoToPost, OwnerFields, ReplyFields
<1>5. QED
  BY <1>3, <1>4 DEF Signed, NamesItsAuthor

\* What a publish stores.
LEMMA AfterPublishIsSigned ==
  ASSUME NEW p \in PostIds, TrueAuthor[p] = Me, NEW back \in BOOLEAN
  PROVE  AfterPublish(p, back) \in Post /\ Signed(p, AfterPublish(p, back))
<1>1. CASE back
  <2> DEFINE e == EdgeOf("threads", None, 0)
  <2>1. e \in Edges /\ e.edge = "threads"
    BY DEF EdgeOf, Edges
  <2>2. Fetched(e, p) = AfterPublish(p, back)
    BY <1>1 DEF Fetched, AfterPublish, OwnerPost, EdgeOf
  <2> HIDE DEF e
  <2>3. QED
    BY <2>1, <2>2, FetchedIsSigned
<1>2. CASE ~back
  <2>1. AfterPublish(p, back) = SynthesizedPost(p, Content)
    BY <1>2 DEF AfterPublish
  <2>2. /\ TrueParent[p] \in OptionOf(PostIds)
        /\ Content \in OptionOf(Contents)
        /\ Nobody \in AuthorIds
        /\ None \in OptionOf(Names)
    BY ServiceAssumption, IngestAssumption DEF OptionOf, AuthorIds, RealIds
  <2>3. SynthesizedPost(p, Content) \in Post
    BY <2>2 DEF SynthesizedPost, Post
  <2>4. /\ SynthesizedPost(p, Content).name = None
        /\ SynthesizedPost(p, Content).author = Nobody
    BY DEF SynthesizedPost
  <2>5. QED
    BY <2>1, <2>3, <2>4 DEF Signed
<1>3. QED
  BY <1>1, <1>2

LEMMA ItemsAreRemote ==
  ASSUME NEW e \in Edges
  PROVE  /\ ItemsOf(e) \subseteq remote
         /\ e.edge = "threads" => \A p \in ItemsOf(e) : TrueAuthor[p] = Me
  BY DEF ItemsOf, Edges

LEMMA MyIds ==
  /\ Me \in Accounts /\ Me \in RealIds /\ Me \in AuthorIds
  /\ HandleOf[Me] \in Names
  BY ServiceAssumption, IngestAssumption DEF RealIds, AuthorIds

LEMMA ResolveMeEffect ==
  ASSUME NEW t \in Tables
  PROVE  LET u == Reconcile(t, HandleOf[Me], Me)
         IN  /\ u \in Tables
             /\ Stored(u) = Stored(t)
             /\ u.edges = t.edges
             /\ \A p \in Stored(t) :
                  u.posts[p] = IF t.posts[p].author = At(HandleOf[Me])
                               THEN [t.posts[p] EXCEPT !.author = Me]
                               ELSE t.posts[p]
<1> DEFINE name == HandleOf[Me]
<1>1. name \in Names /\ Me \in RealIds
  BY MyIds
<1> HIDE DEF name
<1>2. LET u == Reconcile(t, name, Me)
      IN  /\ u \in Tables
          /\ Stored(u) = Stored(t)
          /\ u.edges = t.edges
          /\ \A p \in Stored(t) :
               u.posts[p] = IF t.posts[p].author = At(name)
                            THEN [t.posts[p] EXCEPT !.author = Me]
                            ELSE t.posts[p]
  BY <1>1, ReconcileEffect
<1>3. QED
  BY <1>2 DEF name

LEMMA RecordMeKeepsGood ==
  ASSUME NEW t, Good(t)
  PROVE  /\ Good(UpsertUser(t, Me, HandleOf[Me]))
         /\ Stored(UpsertUser(t, Me, HandleOf[Me])) = Stored(t)
<1> DEFINE u == UpsertUser(t, Me, HandleOf[Me])
<1>1. t \in Tables
  BY DEF Good
<1>2. u = [users |-> [t.users EXCEPT ![Me] = HandleOf[Me]],
           posts |-> t.posts, edges |-> t.edges]
  BY <1>1, TablesFields DEF UpsertUser
<1>3. [t.users EXCEPT ![Me] = HandleOf[Me]]
        \in [AuthorIds -> OptionOf(Names) \cup {Absent}]
  BY <1>1, TablesFields, MyIds DEF OptionOf
<1>4. HandleOf[Me] # Absent
  BY MyIds, PostTablesAssumption DEF OptionOf
<1>5. /\ u \in Tables
      /\ Stored(u) = Stored(t)
      /\ u.posts = t.posts
      /\ \A a \in AuthorIds : t.users[a] # Absent => u.users[a] # Absent
  <2>1. u \in Tables
    BY <1>1, <1>2, <1>3, TablesFields DEF Tables
  <2>2. u.posts = t.posts /\ u.users = [t.users EXCEPT ![Me] = HandleOf[Me]]
    BY <1>2
  <2> HIDE DEF u
  <2>3. QED
    BY <1>1, <1>4, <2>1, <2>2, TablesFields DEF Stored
<1> HIDE DEF u
<1>6. Joined(u)
  <2>1. ASSUME NEW p \in Stored(t)
        PROVE  u.users[t.posts[p].author] # Absent
    BY <1>1, <1>5, TablesFields, RowFields DEF Good, Joined
  <2>2. QED
    BY <1>5, <2>1 DEF Joined
<1>7. Mine(u)
  BY <1>5 DEF Good, Mine
<1>8. QED
  BY <1>5, <1>6, <1>7 DEF u, Good

\* Resolving the placeholder of my username gives me all of my posts but those
\* that have no author.
LEMMA ResolveMeKeepsGood ==
  ASSUME NEW t, Good(t)
  PROVE  LET u == Reconcile(t, HandleOf[Me], Me)
         IN  /\ Good(u)
             /\ Stored(u) = Stored(t)
             /\ {p \in Stored(t) : TrueAuthor[p] = Me}
                  \subseteq ByAuthor(u, Me) \cup ByAuthor(t, Nobody)
<1> DEFINE u == Reconcile(t, HandleOf[Me], Me)
<1>1. t \in Tables /\ Joined(t)
  BY DEF Good
<1>2. /\ u \in Tables
      /\ Stored(u) = Stored(t)
      /\ \A p \in Stored(t) :
           u.posts[p] = IF t.posts[p].author = At(HandleOf[Me])
                        THEN [t.posts[p] EXCEPT !.author = Me]
                        ELSE t.posts[p]
  BY <1>1, ResolveMeEffect
<1>3. Joined(u)
  BY <1>1, MyIds, ReconcileJoined
<1> HIDE DEF u
<1>4. ASSUME NEW p \in Stored(t)
      PROVE  u.posts[p].author = IF t.posts[p].author = At(HandleOf[Me])
                                 THEN Me ELSE t.posts[p].author
  <2>1. t.posts[p] \in Row
    BY <1>1, TablesFields
  <2>2. CASE t.posts[p].author = At(HandleOf[Me])
    <3>1. u.posts[p] = [t.posts[p] EXCEPT !.author = Me]
      BY <1>2, <2>2
    <3>2. QED
      BY <2>1, <2>2, <3>1 DEF Row
  <2>3. CASE t.posts[p].author # At(HandleOf[Me])
    BY <1>2, <2>3
  <2>4. QED
    BY <2>2, <2>3
<1>5. Mine(u)
  BY <1>2, <1>4 DEF Good, Mine
<1>6. {p \in Stored(t) : TrueAuthor[p] = Me}
        \subseteq ByAuthor(u, Me) \cup ByAuthor(t, Nobody)
  BY <1>2, <1>4 DEF Good, Mine, ByAuthor
<1>7. QED
  BY <1>2, <1>3, <1>5, <1>6 DEF u, Good

LEMMA DeleteRowKeepsGood ==
  ASSUME NEW t, Good(t), NEW p \in PostIds
  PROVE  /\ Good(DeleteRow(t, p))
         /\ Stored(DeleteRow(t, p)) = Stored(t) \ {p}
<1> DEFINE d == DeleteRow(t, p)
<1>1. t \in Tables
  BY DEF Good
<1>2. /\ d \in Tables
      /\ d.users = t.users
      /\ d.posts = [t.posts EXCEPT ![p] = Absent]
      /\ Stored(d) = Stored(t) \ {p}
  BY <1>1, DeleteRowEffect
<1> HIDE DEF d
<1>3. \A q \in Stored(d) : q \in Stored(t) /\ d.posts[q] = t.posts[q]
  BY <1>1, <1>2, TablesFields DEF Stored
<1>4. Joined(d) /\ Mine(d)
  BY <1>2, <1>3 DEF Good, Joined, Mine
<1>5. QED
  BY <1>2, <1>4 DEF d, Good

-----------------------------------------------------------------------------
(* The tables and the service *)

\* Sequences without repetition of a finite set of posts.
LEMMA OrdersTyped ==
  ASSUME NEW posts \in SUBSET PostIds, NEW order \in SetToSeqs(posts)
  PROVE  /\ Cardinality(posts) \in Nat
         /\ order \in [1 .. Cardinality(posts) -> posts]
         /\ order \in Seq(posts)
<1>1. Cardinality(posts) \in Nat
  BY ServiceAssumption, FS_Subset, FS_CardinalityType
<1>2. order \in [1 .. Cardinality(posts) -> posts]
  BY DEF SetToSeqs
<1>3. QED
  BY <1>1, <1>2, SeqDef

LEMMA InitTables ==
  Init => Good(db) /\ erased \cap remote = {} /\ WrittenPostsAreKept
<1> SUFFICES ASSUME Init
             PROVE  Good(db) /\ erased \cap remote = {} /\ WrittenPostsAreKept
  OBVIOUS
<1>1. Good(EmptyTables)
  <2>1. EmptyTables \in Tables
    BY DEF EmptyTables, Tables
  <2>2. Stored(EmptyTables) = {}
    BY DEF EmptyTables, Stored
  <2>3. QED
    BY <2>1, <2>2 DEF Good, Joined, Mine
<1>2. PICK before \in SUBSET ({p \in PostIds : TrueAuthor[p] = Me} \ Published) :
        \E back \in SUBSET before, order \in SetToSeqs(before) :
          db = UpsertAll(EmptyTables,
                 [i \in DOMAIN order |->
                    [id |-> order[i],
                     post |-> AfterPublish(order[i], order[i] \in back)]])
  BY DEF Init
<1>3. PICK back \in SUBSET before, order \in SetToSeqs(before) :
        db = UpsertAll(EmptyTables,
               [i \in DOMAIN order |->
                  [id |-> order[i],
                   post |-> AfterPublish(order[i], order[i] \in back)]])
  BY <1>2
<1> DEFINE n == Cardinality(before)
           posts == [i \in DOMAIN order |->
                       [id |-> order[i],
                        post |-> AfterPublish(order[i], order[i] \in back)]]
<1>4. n \in Nat /\ order \in [1 .. n -> before]
  BY OrdersTyped
<1>5. \A p \in before :
        /\ AfterPublish(p, p \in back) \in Post
        /\ Signed(p, AfterPublish(p, p \in back))
  <2> TAKE p \in before
  <2>1. (p \in back) \in BOOLEAN
    OBVIOUS
  <2>2. QED
    BY <2>1, AfterPublishIsSigned
<1>6. \A i \in 1 .. n :
        /\ posts[i].id \in PostIds
        /\ posts[i] \in Written
        /\ Signed(posts[i].id, posts[i].post)
  <2> TAKE i \in 1 .. n
  <2> DEFINE x == AfterPublish(order[i], order[i] \in back)
  <2>1. posts[i] = [id |-> order[i], post |-> x]
    BY <1>4
  <2>2. order[i] \in before /\ order[i] \in PostIds
    BY <1>4
  <2>3. x \in Post /\ Signed(order[i], x)
    BY <1>5, <2>2
  <2> HIDE DEF x, posts
  <2>4. QED
    BY <2>1, <2>2, <2>3 DEF Written
<1>7. posts \in [1 .. n -> Written]
  BY <1>4, <1>6
<1>8. posts \in Seq(Written) /\ Len(posts) = n
  <2> HIDE DEF posts, n
  <2>1. posts \in Seq(Written)
    BY <1>4, <1>7, SeqDef
  <2>2. QED
    BY <2>1, <1>4, <1>7, LenProperties
<1> HIDE DEF posts, n
<1>9. Good(db)
  BY <1>1, <1>3, <1>6, <1>8, UpsertAllKeepsGood DEF posts
<1>10. erased \cap remote = {} /\ WrittenPostsAreKept
  BY DEF Init, WrittenPostsAreKept
<1>11. QED
  BY <1>9, <1>10

LEMMA NextKeepsTables ==
  ASSUME IngestInv, [Next]_vars
  PROVE  Good(db)' /\ (erased \cap remote = {})' /\ WrittenPostsAreKept'
<1> DEFINE Kept == Good(db)' /\ (erased \cap remote = {})' /\ WrittenPostsAreKept'
<1>0. /\ Good(db)
      /\ erased \cap remote = {}
      /\ \A r \in Runs : stored[r] \subseteq Stored(db) \cup erased
      /\ stored \in [Runs -> SUBSET PostIds]
  BY DEF IngestInv, WrittenPostsAreKept, TypeOK
<1>1. CASE UNCHANGED <<db, remote, erased, stored>>
  BY <1>0, <1>1 DEF WrittenPostsAreKept
<1>2. ASSUME NEW r \in Runs, RecordMe(r)
      PROVE  Kept
  <2>1. db' = UpsertUser(db, Me, HandleOf[Me])
        /\ UNCHANGED <<remote, erased, stored>>
    BY <1>2 DEF RecordMe, world, run
  <2>2. QED
    BY <1>0, <2>1, RecordMeKeepsGood DEF WrittenPostsAreKept
<1>3. ASSUME NEW r \in Runs, ResolveMe(r)
      PROVE  Kept
  <2>1. db' = Reconcile(db, HandleOf[Me], Me)
        /\ UNCHANGED <<remote, erased, stored>>
    BY <1>3 DEF ResolveMe, world
  <2>2. Good(db') /\ Stored(db') = Stored(db)
    BY <1>0, <2>1, ResolveMeKeepsGood
  <2>3. QED
    BY <1>0, <2>1, <2>2 DEF WrittenPostsAreKept
<1>4. ASSUME NEW r \in Runs, Flush(r)
      PROVE  Kept
  <2>1. /\ db' = UpsertAll(db, batch[r])
        /\ stored' = [stored EXCEPT ![r] = @ \cup Ids(batch[r])]
        /\ UNCHANGED <<remote, erased>>
    BY <1>4 DEF Flush, world
  <2>2. /\ batch[r] \in Seq(Written)
        /\ \A i \in 1 .. Len(batch[r]) : Signed(batch[r][i].id, batch[r][i].post)
    BY DEF IngestInv, TypeOK, RunInv, Fitting, Written
  <2>3. Good(db') /\ Stored(db') = Stored(db) \cup Ids(batch[r])
    BY <1>0, <2>1, <2>2, UpsertAllKeepsGood
  <2>4. QED
    BY <1>0, <2>1, <2>3 DEF WrittenPostsAreKept
<1>4a. ASSUME NEW p \in PostIds, NEW back \in BOOLEAN, Publish(p, back)
       PROVE  Kept
  <2>1. /\ p \in Published
        /\ db' = Upsert(db, p, AfterPublish(p, back))
        /\ UNCHANGED <<remote, erased, stored>>
    BY <1>4a DEF Publish, run, IngestInv, TypeOK
  <2>2. AfterPublish(p, back) \in Post /\ Signed(p, AfterPublish(p, back))
    BY <2>1, IngestAssumption, AfterPublishIsSigned
  <2>3. Good(db') /\ Stored(db') = Stored(db) \cup {p}
    BY <1>0, <2>1, <2>2, UpsertKeepsGood
  <2>4. QED
    BY <1>0, <2>1, <2>3 DEF WrittenPostsAreKept
<1>5. ASSUME NEW p \in PostIds, Vanish(p)
      PROVE  Kept
  <2>1. remote' = remote \ {p} /\ UNCHANGED <<db, erased, stored>>
    BY <1>5 DEF Vanish, store, run
  <2>2. QED
    BY <1>0, <2>1 DEF WrittenPostsAreKept
<1>6. ASSUME NEW p \in PostIds, Erase(p)
      PROVE  Kept
  <2>1. /\ p \notin remote
        /\ db' = DeleteRow(db, p)
        /\ erased' = erased \cup {p}
        /\ UNCHANGED <<remote, stored>>
    BY <1>6 DEF Erase, run
  <2>2. Good(db') /\ Stored(db') = Stored(db) \ {p}
    BY <1>0, <2>1, DeleteRowKeepsGood
  <2>3. QED
    BY <1>0, <2>1, <2>2 DEF WrittenPostsAreKept
<1>7. ASSUME NEW r \in Runs,
             \/ \E k \in Kinds, top \in OptionOf(PostIds) : Start(r, k, top)
             \/ ReadSeeds(r) \/ Open(r) \/ FetchPage(r) \/ Take(r) \/ Turn(r)
             \/ Finish(r) \/ Fail(r) \/ FinishFailed(r) \/ Kill(r)
      PROVE  UNCHANGED <<db, remote, erased, stored>>
  BY <1>7 DEF Start, ReadSeeds, Open, FetchPage, Take, Turn, Finish, Fail,
              FinishFailed, Kill, store, world, run
<1>8. CASE UNCHANGED vars
  BY <1>1, <1>8 DEF vars, store, world, run
<1>9. QED
  BY <1>1, <1>2, <1>3, <1>4, <1>4a, <1>5, <1>6, <1>7, <1>8 DEF Next, Step, Quiet

-----------------------------------------------------------------------------
(* Types *)

LEMMA InitType == Init => TypeOK
<1> SUFFICES ASSUME Init
             PROVE  TypeOK
  OBVIOUS
<1>1. db \in Tables
  BY InitTables DEF Good
<1>2. EdgeOf("threads", None, 0) \in Edges
  BY DEF EdgeOf, Edges
<1>3. RunRow("none", 0) \in [state : {"none", "open", "ok", "failed"}, fetched : Nat]
  BY DEF RunRow
<1>4. BatchSize \in Nat
  BY IngestAssumption
<1>5. QED
  BY <1>1, <1>2, <1>3, <1>4, IngestAssumption DEF Init, TypeOK

\* What the edge of a run returns joins the posts it has fetched.
LEMMA FetchPageEffect ==
  ASSUME TypeOK, NEW r \in Runs, FetchPage(r)
  PROVE  \E items \in Seq(PostIds), again \in BOOLEAN :
           /\ \A i \in 1 .. Len(items) : items[i] \in ItemsOf(source[r])
           /\ again \/ ahead[r] \cap remote \subseteq ToSet(items)
           /\ page' = [page EXCEPT ![r] = @ \o items]
           /\ ahead' = [ahead EXCEPT ![r] = @ \ ToSet(items)]
           /\ more' = [more EXCEPT ![r] = again]
           /\ pc' = [pc EXCEPT ![r] = IF again /\ kind[r] = "thread"
                                      THEN "fetch" ELSE "take"]
<1>1. PICK a \in [items : SeqOf(ItemsOf(source[r]), PageSize), next : BOOLEAN] :
        /\ a.next \/ ahead[r] \cap remote \subseteq ToSet(a.items)
        /\ page' = [page EXCEPT ![r] = @ \o a.items]
        /\ ahead' = [ahead EXCEPT ![r] = @ \ ToSet(a.items)]
        /\ more' = [more EXCEPT ![r] = a.next]
        /\ pc' = [pc EXCEPT ![r] = IF a.next /\ kind[r] = "thread"
                                   THEN "fetch" ELSE "take"]
  BY DEF FetchPage, Answers, Goto
<1>2. ItemsOf(source[r]) \subseteq PostIds
  BY ItemsAreRemote DEF TypeOK
<1>3. PICK n \in 0 .. PageSize : a.items \in [1 .. n -> ItemsOf(source[r])]
  BY DEF SeqOf
<1>4. n \in Nat
  BY IngestAssumption
<1>5. a.items \in Seq(PostIds) /\ Len(a.items) = n
  <2>1. a.items \in [1 .. n -> PostIds]
    BY <1>2, <1>3
  <2>2. a.items \in Seq(PostIds)
    BY <1>4, <2>1, SeqDef
  <2>3. QED
    BY <2>1, <2>2, <1>4, LenProperties
<1>6. QED
  BY <1>1, <1>3, <1>5

\* A post is taken: nothing happens when it was met before, else it is met and
\* joins the batch.
LEMMA TakeEffect ==
  ASSUME TypeOK, NEW r \in Runs, Take(r)
  PROVE  LET p == Head(page[r])
             x == [id |-> p, post |-> Fetched(source[r], p)]
         IN  /\ pc[r] = "take"
             /\ page[r] # <<>>
             /\ p \in PostIds
             /\ x \in Written
             /\ page' = [page EXCEPT ![r] = Tail(@)]
             /\ pc' = [pc EXCEPT ![r] = IF Full(batch'[r]) THEN "flush" ELSE "take"]
             /\ UNCHANGED <<db, rows, remote, unwritten, erased, unlinked, kind,
                            total, source, ahead, more, seeds, stored>>
             /\ \/ p \in seen[r] /\ UNCHANGED <<seen, batch, frontier>>
                \/ /\ p \notin seen[r]
                   /\ seen' = [seen EXCEPT ![r] = @ \cup {p}]
                   /\ batch' = [batch EXCEPT ![r] = Append(@, x)]
                   /\ \/ kind[r] # "engagement" /\ UNCHANGED frontier
                      \/ /\ kind[r] = "engagement"
                         /\ frontier' = [frontier EXCEPT ![r] =
                              Append(@, EdgeOf("children", p, source[r].depth + 1))]
<1> DEFINE p == Head(page[r])
           x == [id |-> p, post |-> Fetched(source[r], p)]
<1>1. page[r] \in Seq(PostIds) /\ source[r] \in Edges
  BY DEF TypeOK
<1>2. p \in PostIds
  BY <1>1, HeadTailProperties DEF Take
<1>3. x \in Written
  BY <1>1, <1>2, FetchedIsSigned DEF Written
<1>4. \/ p \in seen[r] /\ UNCHANGED <<seen, batch, frontier>>
      \/ /\ p \notin seen[r]
         /\ seen' = [seen EXCEPT ![r] = @ \cup {p}]
         /\ batch' = [batch EXCEPT ![r] = Append(@, x)]
         /\ frontier' = [frontier EXCEPT ![r] =
              IF kind[r] = "engagement"
              THEN Append(@, EdgeOf("children", p, source[r].depth + 1)) ELSE @]
  BY DEF Take, Keep
<1>5. [frontier EXCEPT ![r] = frontier[r]] = frontier
  BY DEF TypeOK
<1> HIDE DEF p, x
<1>6. \/ p \in seen[r] /\ UNCHANGED <<seen, batch, frontier>>
      \/ /\ p \notin seen[r]
         /\ seen' = [seen EXCEPT ![r] = @ \cup {p}]
         /\ batch' = [batch EXCEPT ![r] = Append(@, x)]
         /\ \/ kind[r] # "engagement" /\ UNCHANGED frontier
            \/ /\ kind[r] = "engagement"
               /\ frontier' = [frontier EXCEPT ![r] =
                    Append(@, EdgeOf("children", p, source[r].depth + 1))]
  BY <1>4, <1>5
<1>7. /\ pc[r] = "take"
      /\ page[r] # <<>>
      /\ page' = [page EXCEPT ![r] = Tail(@)]
      /\ pc' = [pc EXCEPT ![r] = IF Full(batch'[r]) THEN "flush" ELSE "take"]
      /\ UNCHANGED <<db, rows, remote, unwritten, erased, unlinked, kind, total,
                     source, ahead, more, seeds, stored>>
  BY DEF Take, Goto, store, world
<1>8. QED
  BY <1>2, <1>3, <1>6, <1>7 DEF p, x

LEMMA NextKeepsType ==
  ASSUME IngestInv, [Next]_vars
  PROVE  TypeOK'
<1> USE DEF IngestInv
<1>1. /\ TypeOK
      /\ db' \in Tables
      /\ BatchSize \in Nat /\ BatchSize > 0
      /\ Kinds \subseteq {"me", "engagement", "thread"}
  BY NextKeepsTables, IngestAssumption DEF Good
<1> DEFINE Places == {"idle", "me", "resolve", "seeds", "next", "fetch", "take",
                      "flush", "failed", "done", "killed"}
<1>a. pc \in [Runs -> Places]
  BY <1>1 DEF TypeOK
<1>b. /\ batch \in [Runs -> Seq(Written)]
      /\ \A q \in Runs : Len(batch[q]) <= BatchSize
  BY <1>1 DEF TypeOK, Written
<1>c. frontier \in [Runs -> Seq(Edges)]
  BY <1>1 DEF TypeOK
<1>d. page \in [Runs -> Seq(PostIds)]
  BY <1>1 DEF TypeOK
<1>e. /\ seen \in [Runs -> SUBSET PostIds]
      /\ ahead \in [Runs -> SUBSET PostIds]
      /\ stored \in [Runs -> SUBSET PostIds]
  BY <1>1 DEF TypeOK
<1>f. source \in [Runs -> Edges]
  BY <1>1 DEF TypeOK
<1>g. total \in [Runs -> Nat]
  BY <1>1 DEF TypeOK
<1>2. ASSUME NEW r \in Runs, NEW k \in Kinds, NEW top \in OptionOf(PostIds),
             Start(r, k, top)
      PROVE  TypeOK'
  <2>1. RunRow("open", 0) \in [state : {"none", "open", "ok", "failed"}, fetched : Nat]
    BY DEF RunRow
  <2>2. /\ <<>> \in Seq(Edges)
        /\ k = "thread" => <<EdgeOf("conversation", top, 0)>> \in Seq(Edges)
    BY DEF EdgeOf, Edges, OptionOf
  <2>3. frontier' \in [Runs -> Seq(Edges)]
    BY <1>1, <1>2, <2>2 DEF Start, TypeOK
  <2>4. /\ rows' \in [Runs -> [state : {"none", "open", "ok", "failed"}, fetched : Nat]]
        /\ kind' \in [Runs -> {"me", "engagement", "thread"}]
        /\ pc' = [pc EXCEPT ![r] = IF k = "thread" THEN "next" ELSE "me"]
        /\ UNCHANGED <<db, remote, unwritten, erased, unlinked, seen, batch,
                       total, source, ahead, more, page, seeds, stored>>
    BY <1>1, <1>2, <2>1 DEF Start, WriteRun, Goto, world, TypeOK
  <2>5. QED
    BY <1>1, <2>3, <2>4 DEF TypeOK
<1>3. ASSUME NEW r \in Runs, RecordMe(r)
      PROVE  TypeOK'
  BY <1>1, <1>3 DEF RecordMe, Goto, world, run, TypeOK
<1>4. ASSUME NEW r \in Runs, ResolveMe(r)
      PROVE  TypeOK'
  <2>1. /\ <<>> \in Seq(Edges)
        /\ <<EdgeOf("threads", None, 0), EdgeOf("replies", None, 0)>> \in Seq(Edges)
    BY DEF EdgeOf, Edges
  <2>2. frontier' \in [Runs -> Seq(Edges)]
    BY <1>1, <1>4, <2>1 DEF ResolveMe, TypeOK
  <2>3. /\ pc' = [pc EXCEPT ![r] = IF kind[r] = "me" THEN "next" ELSE "seeds"]
        /\ UNCHANGED <<rows, remote, unwritten, erased, unlinked, kind, seen,
                       batch, total, source, ahead, more, page, seeds, stored>>
    BY <1>4 DEF ResolveMe, Goto, world
  <2>4. QED
    BY <1>1, <2>2, <2>3 DEF TypeOK
<1>5. ASSUME NEW r \in Runs, ReadSeeds(r)
      PROVE  TypeOK'
  <2> DEFINE authored == ByAuthor(db, Me)
  <2>1. authored \in SUBSET PostIds
    BY DEF ByAuthor, Stored
  <2>2. PICK order \in SetToSeqs(authored) :
          frontier' = [frontier EXCEPT ![r] =
            [i \in DOMAIN order |-> EdgeOf("children", order[i], 0)]]
    BY <1>5 DEF ReadSeeds
  <2>3. /\ Cardinality(authored) \in Nat
        /\ order \in [1 .. Cardinality(authored) -> PostIds]
    BY <2>1, OrdersTyped
  <2>4. [i \in DOMAIN order |-> EdgeOf("children", order[i], 0)]
          \in [1 .. Cardinality(authored) -> Edges]
    BY <2>3 DEF EdgeOf, Edges
  <2>5. [i \in DOMAIN order |-> EdgeOf("children", order[i], 0)] \in Seq(Edges)
    BY <2>3, <2>4, SeqDef
  <2>6. frontier' \in [Runs -> Seq(Edges)]
    BY <1>1, <2>2, <2>5 DEF TypeOK
  <2>7. /\ seeds' = [seeds EXCEPT ![r] = authored]
        /\ seen' = [seen EXCEPT ![r] = authored]
        /\ pc' = [pc EXCEPT ![r] = "next"]
        /\ UNCHANGED <<rows, remote, unwritten, erased, unlinked, kind, batch,
                       total, source, ahead, more, page, stored>>
    BY <1>5 DEF ReadSeeds, Goto, store, world
  <2> HIDE DEF authored
  <2>8. QED
    BY <1>1, <2>1, <2>6, <2>7 DEF TypeOK
<1>6. ASSUME NEW r \in Runs, Open(r)
      PROVE  TypeOK'
  <2> DEFINE e == Head(frontier[r])
  <2>1. frontier[r] \in Seq(Edges) /\ frontier[r] # <<>>
    BY <1>1, <1>6 DEF Open, TypeOK
  <2>2. e \in Edges /\ Tail(frontier[r]) \in Seq(Edges)
    BY <2>1, HeadTailProperties
  <2>3. ItemsOf(e) \in SUBSET PostIds
    BY <1>1, <2>2, ItemsAreRemote DEF TypeOK
  <2>4. /\ frontier' = [frontier EXCEPT ![r] = Tail(@)]
        /\ \/ UNCHANGED <<pc, source, ahead>>
           \/ /\ source' = [source EXCEPT ![r] = e]
              /\ ahead' = [ahead EXCEPT ![r] = ItemsOf(e)]
              /\ pc' = [pc EXCEPT ![r] = "fetch"]
        /\ UNCHANGED <<rows, remote, unwritten, erased, unlinked, kind, seen,
                       batch, total, more, page, seeds, stored>>
    BY <1>6 DEF Open, Goto, store, world
  <2> HIDE DEF e
  <2>5. frontier' \in [Runs -> Seq(Edges)]
    BY <1>c, <2>2, <2>4
  <2>6. /\ source' \in [Runs -> Edges]
        /\ ahead' \in [Runs -> SUBSET PostIds]
        /\ pc' \in [Runs -> Places]
    BY <1>a, <1>e, <1>f, <2>2, <2>3, <2>4
  <2>7. QED
    BY <1>1, <2>4, <2>5, <2>6 DEF TypeOK
<1>7. ASSUME NEW r \in Runs, FetchPage(r)
      PROVE  TypeOK'
  <2>1. PICK items \in Seq(PostIds), again \in BOOLEAN :
          /\ page' = [page EXCEPT ![r] = @ \o items]
          /\ ahead' = [ahead EXCEPT ![r] = @ \ ToSet(items)]
          /\ more' = [more EXCEPT ![r] = again]
          /\ pc' = [pc EXCEPT ![r] = IF again /\ kind[r] = "thread"
                                     THEN "fetch" ELSE "take"]
    BY <1>1, <1>7, FetchPageEffect
  <2>2. page[r] \o items \in Seq(PostIds)
    BY <1>1, ConcatProperties DEF TypeOK
  <2>3. UNCHANGED <<rows, remote, unwritten, erased, unlinked, kind, seen,
                    batch, total, frontier, source, seeds, stored>>
    BY <1>7 DEF FetchPage, store, world
  <2>4. more' \in [Runs -> BOOLEAN]
    BY <1>1, <2>1 DEF TypeOK
  <2>5. QED
    BY <1>1, <2>1, <2>2, <2>3, <2>4 DEF TypeOK
<1>8. ASSUME NEW r \in Runs, Take(r)
      PROVE  TypeOK'
  <2> DEFINE p == Head(page[r])
             x == [id |-> p, post |-> Fetched(source[r], p)]
             e == EdgeOf("children", p, source[r].depth + 1)
  <2>1. /\ pc[r] = "take"
        /\ page[r] # <<>>
        /\ p \in PostIds
        /\ x \in Written
        /\ page' = [page EXCEPT ![r] = Tail(@)]
        /\ pc' = [pc EXCEPT ![r] = IF Full(batch'[r]) THEN "flush" ELSE "take"]
        /\ UNCHANGED <<db, rows, remote, unwritten, erased, unlinked, kind,
                       total, source, ahead, more, seeds, stored>>
        /\ \/ UNCHANGED <<seen, batch, frontier>>
           \/ /\ seen' = [seen EXCEPT ![r] = @ \cup {p}]
              /\ batch' = [batch EXCEPT ![r] = Append(@, x)]
              /\ \/ UNCHANGED frontier
                 \/ frontier' = [frontier EXCEPT ![r] = Append(@, e)]
    BY <1>1, <1>8, TakeEffect
  <2>2. e \in Edges
    BY <1>1, <2>1 DEF EdgeOf, Edges, TypeOK
  <2> HIDE DEF p, x, e
  <2>3. Tail(page[r]) \in Seq(PostIds)
    BY <1>1, <2>1, HeadTailProperties DEF TypeOK
  <2>4. batch[r] \in Seq(Written) /\ Len(batch[r]) < BatchSize
    BY <1>1, <2>1 DEF TypeOK, Written, RunInv, Room
  <2>5. /\ Append(batch[r], x) \in Seq(Written)
        /\ Len(Append(batch[r], x)) <= BatchSize
    BY <1>1, <2>1, <2>4, AppendProperties, LenProperties
  <2>6. Append(frontier[r], e) \in Seq(Edges)
    BY <1>1, <2>2, AppendProperties DEF TypeOK
  <2>7. /\ batch' \in [Runs -> Seq(Written)]
        /\ \A q \in Runs : Len(batch'[q]) <= BatchSize
    BY <1>b, <2>1, <2>5
  <2>8. frontier' \in [Runs -> Seq(Edges)]
    BY <1>c, <2>1, <2>6
  <2>9. /\ page' \in [Runs -> Seq(PostIds)]
        /\ seen' \in [Runs -> SUBSET PostIds]
        /\ pc' \in [Runs -> Places]
    BY <1>a, <1>d, <1>e, <2>1, <2>3, SMTT(30)
  <2>10. QED
    BY <1>1, <2>1, <2>7, <2>8, <2>9 DEF TypeOK, Written
<1>9. ASSUME NEW r \in Runs, Turn(r)
      PROVE  TypeOK'
  BY <1>1, <1>9 DEF Turn, Goto, store, world, run, TypeOK
<1>10. ASSUME NEW r \in Runs, Flush(r)
       PROVE  TypeOK'
  <2>1. batch[r] \in Seq(Written) /\ Len(batch[r]) \in Nat
    BY <1>1, LenProperties DEF TypeOK, Written
  <2>2. Ids(batch[r]) \in SUBSET PostIds
    <3>1. DOMAIN batch[r] = 1 .. Len(batch[r])
      BY <2>1, LenProperties
    <3>2. \A i \in 1 .. Len(batch[r]) : batch[r][i] \in Written
      BY <2>1, ElementOfSeq
    <3>3. QED
      BY <3>1, <3>2 DEF Ids, Written
  <2>3. <<>> \in Seq(Written) /\ Len(<<>>) = 0
    BY EmptySeq
  <2>4. /\ stored' = [stored EXCEPT ![r] = @ \cup Ids(batch[r])]
        /\ total' = [total EXCEPT ![r] = @ + Len(batch[r])]
        /\ batch' = [batch EXCEPT ![r] = <<>>]
        /\ pc' = [pc EXCEPT ![r] = IF pc[r] = "flush" THEN "take" ELSE "next"]
        /\ unlinked' \subseteq unlinked
        /\ UNCHANGED <<rows, remote, unwritten, erased, kind, seen, frontier,
                       source, ahead, more, page, seeds>>
    BY <1>10 DEF Flush, Goto, world
  <2>5. /\ batch' \in [Runs -> Seq(Written)]
        /\ \A q \in Runs : Len(batch'[q]) <= BatchSize
    <3>1. BatchSize >= 0 /\ Len(<<>>) <= BatchSize
      BY <1>1, <2>3
    <3>2. QED
      BY <1>b, <2>3, <2>4, <3>1
  <2>6. /\ stored' \in [Runs -> SUBSET PostIds]
        /\ total' \in [Runs -> Nat]
        /\ pc' \in [Runs -> Places]
    BY <1>a, <1>e, <1>g, <2>1, <2>2, <2>4
  <2>7. QED
    BY <1>1, <2>4, <2>5, <2>6 DEF TypeOK, Written
<1>11. ASSUME NEW r \in Runs, Finish(r) \/ FinishFailed(r)
       PROVE  TypeOK'
  <2>1. /\ RunRow("ok", total[r]) \in [state : {"none", "open", "ok", "failed"},
                                        fetched : Nat]
        /\ RunRow("failed", 0) \in [state : {"none", "open", "ok", "failed"},
                                     fetched : Nat]
    BY <1>1 DEF RunRow, TypeOK
  <2>2. rows' \in [Runs -> [state : {"none", "open", "ok", "failed"}, fetched : Nat]]
    BY <1>1, <1>11, <2>1 DEF Finish, FinishFailed, WriteRun, TypeOK
  <2>3. QED
    BY <1>1, <1>11, <2>2 DEF Finish, FinishFailed, Goto, world, run, TypeOK
<1>12. ASSUME NEW r \in Runs, Fail(r) \/ Kill(r)
       PROVE  TypeOK'
  BY <1>1, <1>12 DEF Fail, Kill, Goto, store, world, run, TypeOK
<1>12a. ASSUME NEW p \in PostIds, NEW back \in BOOLEAN, Publish(p, back)
        PROVE  TypeOK'
  <2>1. /\ unwritten' \subseteq unwritten
        /\ unlinked' \subseteq unlinked \cup {p}
        /\ UNCHANGED <<rows, remote, erased, pc, kind, seen, batch, total, frontier,
                       source, ahead, more, page, seeds, stored>>
    BY <1>12a DEF Publish, run
  <2>2. QED
    BY <1>1, <2>1 DEF TypeOK
<1>13. ASSUME NEW p \in PostIds, Vanish(p) \/ Erase(p)
       PROVE  TypeOK'
  BY <1>1, <1>13 DEF Vanish, Erase, store, run, TypeOK
<1>14. CASE UNCHANGED vars
  BY <1>1, <1>14 DEF vars, store, world, run, TypeOK
<1>15. QED
  BY <1>2, <1>3, <1>4, <1>5, <1>6, <1>7, <1>8, <1>9, <1>10, <1>11, <1>12, <1>12a, <1>13,
     <1>14 DEF Next, Step, Quiet

-----------------------------------------------------------------------------
(* The runs *)

LEMMA InitRuns == Init => \A r \in Runs : RunInv(r)
<1> SUFFICES ASSUME Init, NEW r \in Runs
             PROVE  RunInv(r)
  OBVIOUS
<1>1. /\ Len(<<>>) = 0
      /\ Ids(<<>>) = {}
  BY DEF Ids
<1>2. Cardinality({}) = 0
  BY FS_EmptySet
<1>3. BatchSize \in Nat \ {0}
  BY IngestAssumption
<1>4. /\ pc[r] = "idle" /\ seen[r] = {} /\ batch[r] = <<>> /\ total[r] = 0
      /\ page[r] = <<>> /\ seeds[r] = {} /\ stored[r] = {}
      /\ rows[r].state = "none"
  BY DEF Init, RunRow
<1>5. Fresh(r) /\ Reported(r)
  BY <1>4 DEF Fresh, Reported
<1>6. Counted(r)
  BY <1>1, <1>2, <1>4 DEF Counted
<1>7. Room(r)
  BY <1>1, <1>3, <1>4 DEF Room
<1>8. Fitting(r)
  BY <1>1, <1>4 DEF Fitting
<1>9. QED
  BY <1>5, <1>6, <1>7, <1>8 DEF RunInv

\* What a step leaves alone.
Same(q) ==
  /\ pc'[q] = pc[q] /\ rows'[q] = rows[q]
  /\ seen'[q] = seen[q] /\ seeds'[q] = seeds[q] /\ stored'[q] = stored[q]
  /\ batch'[q] = batch[q] /\ total'[q] = total[q]
  /\ source'[q] = source[q] /\ page'[q] = page[q]

LEMMA SameRunKeepsRunInv ==
  ASSUME NEW q \in Runs, RunInv(q), Same(q)
  PROVE  RunInv(q)'
  BY DEF Same, RunInv, Fresh, Counted, Room, Reported, Fitting

\* A run that goes to another place, and closes its row when it is done.
LEMMA MoveKeepsRunInv ==
  ASSUME IngestInv, NEW r \in Runs, NEW place,
         pc[r] # "done",
         pc' = [pc EXCEPT ![r] = place],
         place \in {"idle", "me", "resolve", "seeds"}
           => pc[r] \in {"idle", "me", "resolve", "seeds"},
         place \in {"next", "fetch", "take"}
           => pc[r] \in {"idle", "me", "resolve", "seeds", "next", "fetch", "take"},
         place = "next" => page[r] = <<>>,
         \/ rows' = rows /\ place # "done"
         \/ rows' = [rows EXCEPT ![r] = RunRow("open", 0)] /\ place # "done"
         \/ rows' = [rows EXCEPT ![r] = RunRow("failed", 0)]
         \/ /\ rows' = [rows EXCEPT ![r] = RunRow("ok", total[r])]
            /\ batch[r] = <<>>
            /\ place = "done",
         UNCHANGED <<seen, seeds, stored, batch, total, source, page>>
  PROVE  \A q \in Runs : RunInv(q)'
<1>1. /\ RunInv(r)
      /\ DOMAIN pc = Runs /\ DOMAIN rows = Runs
  BY DEF IngestInv, TypeOK
<1>2. ASSUME NEW q \in Runs \ {r}
      PROVE  RunInv(q)'
  <2>1. Same(q)
    BY <1>1, <1>2 DEF Same
  <2>2. QED
    BY <2>1, SameRunKeepsRunInv DEF IngestInv
<1>3. pc'[r] = place
  BY <1>1
<1>4. Fresh(r)'
  BY <1>1, <1>3 DEF RunInv, Fresh
<1>5. Counted(r)'
  BY <1>1 DEF RunInv, Counted
<1>6. Room(r)'
  BY <1>1, <1>3 DEF RunInv, Room
<1>7. Reported(r)'
  <2>1. rows[r].state # "ok"
    BY <1>1 DEF RunInv, Reported
  <2>2. \/ rows'[r] = rows[r] /\ place # "done"
        \/ rows'[r] = RunRow("open", 0) /\ place # "done"
        \/ rows'[r] = RunRow("failed", 0)
        \/ /\ rows'[r] = RunRow("ok", total[r])
           /\ batch[r] = <<>>
           /\ place = "done"
    BY <1>1
  <2>3. QED
    BY <2>1, <2>2, <1>3 DEF Reported, RunRow
<1>8. Fitting(r)'
  BY <1>1, <1>3 DEF RunInv, Fitting
<1>9. RunInv(r)'
  BY <1>4, <1>5, <1>6, <1>7, <1>8 DEF RunInv
<1>10. QED
  BY <1>2, <1>9

\* A run starts from the posts of mine: it has met them, and writes none.
LEMMA ReadSeedsKeepsRunInv ==
  ASSUME IngestInv, NEW r \in Runs, ReadSeeds(r)
  PROVE  \A q \in Runs : RunInv(q)'
<1> DEFINE authored == ByAuthor(db, Me)
<1>1. /\ RunInv(r)
      /\ DOMAIN pc = Runs /\ DOMAIN seen = Runs /\ DOMAIN seeds = Runs
  BY DEF IngestInv, TypeOK
<1>2. /\ pc[r] = "seeds"
      /\ seeds' = [seeds EXCEPT ![r] = authored]
      /\ seen' = [seen EXCEPT ![r] = authored]
      /\ pc' = [pc EXCEPT ![r] = "next"]
      /\ UNCHANGED <<rows, batch, total, source, page, stored>>
  BY DEF ReadSeeds, Goto, store
<1> HIDE DEF authored
<1>3. ASSUME NEW q \in Runs \ {r}
      PROVE  RunInv(q)'
  <2>1. Same(q)
    BY <1>1, <1>2, <1>3 DEF Same
  <2>2. QED
    BY <2>1, SameRunKeepsRunInv DEF IngestInv
<1>4. /\ pc'[r] = "next" /\ seeds'[r] = authored /\ seen'[r] = authored
      /\ stored'[r] = {} /\ batch'[r] = <<>> /\ total'[r] = 0
      /\ page'[r] = <<>>
  BY <1>1, <1>2 DEF RunInv, Fresh, Fitting
<1>5. Ids(<<>>) = {} /\ Len(<<>>) = 0 /\ Cardinality({}) = 0
  BY FS_EmptySet DEF Ids
<1>6. Fresh(r)' /\ Fitting(r)'
  BY <1>4, <1>5 DEF Fresh, Fitting
<1>7. Counted(r)'
  <2>1. seen'[r] \ seeds'[r] = {} /\ seeds'[r] \subseteq seen'[r]
    BY <1>4
  <2>2. Ids(batch'[r]) = {} /\ Len(batch'[r]) = 0
    BY <1>4, <1>5
  <2>3. Cardinality(seen'[r] \ seeds'[r]) = 0
    BY <2>1, <1>5
  <2>4. QED
    BY <1>4, <2>1, <2>2, <2>3 DEF Counted
<1>8. Room(r)'
  BY <1>4, <1>5, IngestAssumption DEF Room
<1>9. Reported(r)'
  BY <1>1, <1>2, <1>4 DEF RunInv, Reported
<1>10. QED
  BY <1>3, <1>6, <1>7, <1>8, <1>9 DEF RunInv

\* A run opens an edge only when it has looked at all of the page before.
LEMMA OpenKeepsRunInv ==
  ASSUME IngestInv, NEW r \in Runs, Open(r)
  PROVE  \A q \in Runs : RunInv(q)'
<1>1. /\ RunInv(r)
      /\ DOMAIN pc = Runs /\ DOMAIN source = Runs
  BY DEF IngestInv, TypeOK
<1>2. /\ pc[r] = "next"
      /\ \/ UNCHANGED <<pc, source>>
         \/ /\ \E e : source' = [source EXCEPT ![r] = e]
            /\ pc' = [pc EXCEPT ![r] = "fetch"]
      /\ UNCHANGED <<rows, seen, seeds, stored, batch, total, page>>
  BY DEF Open, Goto, store
<1>3. ASSUME NEW q \in Runs \ {r}
      PROVE  RunInv(q)'
  <2>1. Same(q)
    BY <1>1, <1>2, <1>3 DEF Same
  <2>2. QED
    BY <2>1, SameRunKeepsRunInv DEF IngestInv
<1>4. pc'[r] \in {"next", "fetch"} /\ page'[r] = <<>>
  BY <1>1, <1>2 DEF RunInv, Fitting
<1>5. Fresh(r)' /\ Counted(r)' /\ Room(r)' /\ Reported(r)'
  BY <1>1, <1>2, <1>4 DEF RunInv, Fresh, Counted, Room, Reported
<1>6. Fitting(r)'
  <2>1. Len(<<>>) = 0
    OBVIOUS
  <2>2. \A i \in 1 .. Len(batch'[r]) : Signed(batch'[r][i].id, batch'[r][i].post)
    BY <1>1, <1>2 DEF RunInv, Fitting
  <2>3. QED
    BY <1>4, <2>1, <2>2 DEF Fitting
<1>7. QED
  BY <1>3, <1>5, <1>6 DEF RunInv

\* What an edge returns fits it.
LEMMA FetchPageKeepsRunInv ==
  ASSUME IngestInv, NEW r \in Runs, FetchPage(r)
  PROVE  \A q \in Runs : RunInv(q)'
<1>1. /\ TypeOK
      /\ RunInv(r)
      /\ DOMAIN pc = Runs
      /\ page \in [Runs -> Seq(PostIds)]
      /\ source[r] \in Edges
  BY DEF IngestInv, TypeOK
<1>2. PICK items \in Seq(PostIds), again \in BOOLEAN :
        /\ \A i \in 1 .. Len(items) : items[i] \in ItemsOf(source[r])
        /\ page' = [page EXCEPT ![r] = @ \o items]
        /\ pc' = [pc EXCEPT ![r] = IF again /\ kind[r] = "thread"
                                   THEN "fetch" ELSE "take"]
  BY <1>1, FetchPageEffect
<1>3. pc[r] = "fetch"
      /\ UNCHANGED <<rows, seen, seeds, stored, batch, total, source>>
  BY DEF FetchPage, store
<1>4. ASSUME NEW q \in Runs \ {r}
      PROVE  RunInv(q)'
  <2>1. Same(q)
    BY <1>1, <1>2, <1>3, <1>4 DEF Same
  <2>2. QED
    BY <2>1, SameRunKeepsRunInv DEF IngestInv
<1>5. pc'[r] \in {"fetch", "take"} /\ page'[r] = page[r] \o items
  BY <1>1, <1>2
<1>6. Fresh(r)' /\ Counted(r)' /\ Room(r)' /\ Reported(r)'
  BY <1>1, <1>3, <1>5 DEF RunInv, Fresh, Counted, Room, Reported
<1>7. source[r].edge = "threads" =>
        \A i \in 1 .. Len(page[r] \o items) : TrueAuthor[(page[r] \o items)[i]] = Me
  <2> SUFFICES ASSUME source[r].edge = "threads",
                      NEW i \in 1 .. Len(page[r] \o items)
               PROVE  TrueAuthor[(page[r] \o items)[i]] = Me
    OBVIOUS
  <2>1. page[r] \in Seq(PostIds)
    BY <1>1
  <2>2. /\ Len(page[r] \o items) = Len(page[r]) + Len(items)
        /\ (page[r] \o items)[i] = IF i <= Len(page[r]) THEN page[r][i]
                                   ELSE items[i - Len(page[r])]
        /\ Len(page[r]) \in Nat /\ Len(items) \in Nat
    BY <2>1, ConcatProperties, LenProperties
  <2>3. CASE i <= Len(page[r])
    BY <1>1, <2>2, <2>3 DEF RunInv, Fitting
  <2>4. CASE ~(i <= Len(page[r]))
    <3>1. i - Len(page[r]) \in 1 .. Len(items)
      BY <2>2, <2>4
    <3>2. items[i - Len(page[r])] \in ItemsOf(source[r])
      BY <1>2, <3>1
    <3>3. QED
      BY <1>1, <2>2, <2>4, <3>2, ItemsAreRemote
  <2>5. QED
    BY <2>3, <2>4
<1>8. Fitting(r)'
  BY <1>1, <1>3, <1>5, <1>7 DEF RunInv, Fitting
<1>9. QED
  BY <1>4, <1>6, <1>8 DEF RunInv

\* A post met for the first time joins the batch; the run that fills the batch
\* writes it next.
LEMMA TakeKeepsRunInv ==
  ASSUME IngestInv, NEW r \in Runs, Take(r)
  PROVE  \A q \in Runs : RunInv(q)'
<1> DEFINE p == Head(page[r])
           x == [id |-> p, post |-> Fetched(source[r], p)]
<1>1. /\ TypeOK
      /\ RunInv(r)
      /\ DOMAIN pc = Runs /\ DOMAIN seen = Runs /\ DOMAIN batch = Runs
      /\ DOMAIN page = Runs
      /\ page[r] \in Seq(PostIds)
      /\ batch[r] \in Seq(Written)
      /\ source[r] \in Edges
      /\ seen[r] \in SUBSET PostIds
      /\ total[r] \in Nat
  BY DEF IngestInv, TypeOK, Written
<1>2. /\ pc[r] = "take"
      /\ page[r] # <<>>
      /\ p \in PostIds
      /\ x \in Written
      /\ page' = [page EXCEPT ![r] = Tail(@)]
      /\ pc' = [pc EXCEPT ![r] = IF Full(batch'[r]) THEN "flush" ELSE "take"]
      /\ UNCHANGED <<rows, total, source, seeds, stored>>
      /\ \/ p \in seen[r] /\ UNCHANGED <<seen, batch>>
         \/ /\ p \notin seen[r]
            /\ seen' = [seen EXCEPT ![r] = @ \cup {p}]
            /\ batch' = [batch EXCEPT ![r] = Append(@, x)]
  BY <1>1, TakeEffect
<1>3. /\ Len(page[r]) \in Nat \ {0}
      /\ p = page[r][1]
      /\ Len(Tail(page[r])) = Len(page[r]) - 1
      /\ \A i \in 1 .. Len(Tail(page[r])) : Tail(page[r])[i] = page[r][i + 1]
  BY <1>1, <1>2, HeadTailProperties, EmptySeq
<1>4. source[r].edge = "threads" => TrueAuthor[p] = Me
  BY <1>1, <1>3 DEF RunInv, Fitting
<1>5. x.id = p /\ Signed(x.id, x.post)
  BY <1>1, <1>2, <1>4, FetchedIsSigned
<1> HIDE DEF p, x
<1>6. ASSUME NEW q \in Runs \ {r}
      PROVE  RunInv(q)'
  <2>1. Same(q)
    BY <1>1, <1>2, <1>6 DEF Same
  <2>2. QED
    BY <2>1, SameRunKeepsRunInv DEF IngestInv
<1>7. /\ Len(batch[r]) \in Nat
      /\ DOMAIN batch[r] = 1 .. Len(batch[r])
      /\ Len(batch[r]) < BatchSize
      /\ BatchSize \in Nat
  BY <1>1, <1>2, LenProperties, IngestAssumption DEF RunInv, Room
<1> DEFINE b == Append(batch[r], x)
<1>8. /\ b \in Seq(Written)
      /\ Len(b) = Len(batch[r]) + 1
      /\ DOMAIN b = 1 .. Len(b)
      /\ \A i \in 1 .. Len(batch[r]) : b[i] = batch[r][i]
      /\ b[Len(batch[r]) + 1] = x
  BY <1>1, <1>2, AppendProperties, LenProperties
<1> HIDE DEF b
<1>9. Ids(b) = Ids(batch[r]) \cup {p}
  <2>1. DOMAIN b = DOMAIN batch[r] \cup {Len(batch[r]) + 1}
    BY <1>7, <1>8
  <2>2. Ids(b) = {b[i].id : i \in DOMAIN batch[r]} \cup {p}
    BY <2>1, <1>8, <1>5 DEF Ids
  <2>3. QED
    BY <2>2, <1>7, <1>8 DEF Ids
<1>10. \/ seen'[r] = seen[r] /\ batch'[r] = batch[r]
       \/ p \notin seen[r] /\ seen'[r] = seen[r] \cup {p} /\ batch'[r] = b
  BY <1>1, <1>2 DEF b
<1>11. /\ pc'[r] = IF Len(batch'[r]) >= BatchSize THEN "flush" ELSE "take"
       /\ page'[r] = Tail(page[r])
  BY <1>1, <1>2 DEF Full
<1>12. Fresh(r)' /\ Reported(r)'
  BY <1>1, <1>2, <1>11 DEF RunInv, Fresh, Reported
<1>13. Counted(r)'
  <2>1. CASE seen'[r] = seen[r] /\ batch'[r] = batch[r]
    BY <1>1, <1>2, <2>1 DEF RunInv, Counted
  <2>2. CASE p \notin seen[r] /\ seen'[r] = seen[r] \cup {p} /\ batch'[r] = b
    <3> DEFINE new == seen[r] \ seeds[r]
    <3>1. /\ seeds[r] \subseteq seen[r]
          /\ stored[r] \cup Ids(batch[r]) = new
          /\ total[r] + Len(batch[r]) = Cardinality(new)
      BY <1>1 DEF RunInv, Counted
    <3>2. IsFiniteSet(new)
      BY <1>1, ServiceAssumption, FS_Subset
    <3>3. seen'[r] \ seeds[r] = new \cup {p} /\ p \notin new
      BY <2>2, <3>1
    <3> HIDE DEF new
    <3>4. Cardinality(new \cup {p}) = Cardinality(new) + 1
      BY <3>2, <3>3, FS_AddElement
    <3>5. total[r] + Len(b) = Cardinality(new \cup {p})
      <4>1. /\ total[r] \in Nat /\ Len(batch[r]) \in Nat
            /\ Len(b) = Len(batch[r]) + 1
            /\ total[r] + Len(batch[r]) = Cardinality(new)
        BY <1>1, <1>7, <1>8, <3>1
      <4>2. QED
        BY <4>1, <3>4
    <3>6. stored[r] \cup Ids(b) = new \cup {p}
      BY <3>1, <1>9
    <3>7. seeds[r] \subseteq seen'[r]
      BY <2>2, <3>1
    <3>8. QED
      BY <1>2, <2>2, <3>3, <3>5, <3>6, <3>7 DEF Counted
  <2>3. QED
    BY <1>10, <2>1, <2>2
<1>14. Room(r)'
  BY <1>7, <1>8, <1>10, <1>11 DEF Room
<1>15. Fitting(r)'
  <2>1. \A i \in 1 .. Len(batch'[r]) : Signed(batch'[r][i].id, batch'[r][i].post)
    <3>1. \A i \in 1 .. Len(batch[r]) : Signed(batch[r][i].id, batch[r][i].post)
      BY <1>1 DEF RunInv, Fitting
    <3>2. \A i \in 1 .. Len(b) : Signed(b[i].id, b[i].post)
      BY <3>1, <1>5, <1>7, <1>8
    <3>3. QED
      BY <3>1, <3>2, <1>10
  <2>2. source[r].edge = "threads" =>
          \A i \in 1 .. Len(Tail(page[r])) : TrueAuthor[Tail(page[r])[i]] = Me
    <3>1. \A i \in 1 .. Len(Tail(page[r])) : i + 1 \in 1 .. Len(page[r])
      BY <1>3
    <3>2. source[r].edge = "threads" =>
            \A i \in 1 .. Len(page[r]) : TrueAuthor[page[r][i]] = Me
      BY <1>1 DEF RunInv, Fitting
    <3>3. QED
      BY <3>1, <3>2, <1>3
  <2>3. /\ pc'[r] \notin {"idle", "me", "resolve", "seeds", "next"}
        /\ source'[r] = source[r]
        /\ page'[r] = Tail(page[r])
    BY <1>2, <1>11
  <2>4. QED
    BY <2>1, <2>2, <2>3 DEF Fitting
<1>16. QED
  BY <1>6, <1>12, <1>13, <1>14, <1>15 DEF RunInv

\* What was in the batch is written: together they stay what the run has met.
LEMMA FlushKeepsRunInv ==
  ASSUME IngestInv, NEW r \in Runs, Flush(r)
  PROVE  \A q \in Runs : RunInv(q)'
<1>1. /\ RunInv(r)
      /\ DOMAIN pc = Runs /\ DOMAIN stored = Runs /\ DOMAIN batch = Runs
      /\ DOMAIN total = Runs
      /\ batch[r] \in Seq(Written)
      /\ total[r] \in Nat
  BY DEF IngestInv, TypeOK, Written
<1>2. /\ pc[r] \in {"flush", "next"}
      /\ stored' = [stored EXCEPT ![r] = @ \cup Ids(batch[r])]
      /\ total' = [total EXCEPT ![r] = @ + Len(batch[r])]
      /\ batch' = [batch EXCEPT ![r] = <<>>]
      /\ pc' = [pc EXCEPT ![r] = IF pc[r] = "flush" THEN "take" ELSE "next"]
      /\ UNCHANGED <<rows, seen, source, page, seeds>>
  BY DEF Flush, Goto
<1>3. ASSUME NEW q \in Runs \ {r}
      PROVE  RunInv(q)'
  <2>1. Same(q)
    BY <1>1, <1>2, <1>3 DEF Same
  <2>2. QED
    BY <2>1, SameRunKeepsRunInv DEF IngestInv
<1>4. /\ pc'[r] = IF pc[r] = "flush" THEN "take" ELSE "next"
      /\ stored'[r] = stored[r] \cup Ids(batch[r])
      /\ total'[r] = total[r] + Len(batch[r])
      /\ batch'[r] = <<>>
  BY <1>1, <1>2
<1>5. Ids(<<>>) = {} /\ Len(<<>>) = 0 /\ Len(batch[r]) \in Nat
  BY <1>1, LenProperties DEF Ids
<1>6. Fresh(r)' /\ Reported(r)'
  BY <1>1, <1>2, <1>4 DEF RunInv, Fresh, Reported
<1>7. Counted(r)'
  <2>1. /\ Ids(batch'[r]) = {}
        /\ stored'[r] \cup {} = seen[r] \ seeds[r]
        /\ total'[r] + Len(batch'[r]) = Cardinality(seen[r] \ seeds[r])
        /\ seeds[r] \subseteq seen[r]
    BY <1>1, <1>4, <1>5 DEF RunInv, Counted
  <2>2. QED
    BY <1>2, <2>1 DEF Counted
<1>8. Room(r)'
  BY <1>4, <1>5, IngestAssumption DEF Room
<1>9. Fitting(r)'
  BY <1>1, <1>2, <1>4, <1>5 DEF RunInv, Fitting
<1>10. QED
  BY <1>3, <1>6, <1>7, <1>8, <1>9 DEF RunInv

LEMMA NextKeepsRuns ==
  ASSUME IngestInv, [Next]_vars
  PROVE  \A q \in Runs : RunInv(q)'
<1> DEFINE Kept == \A q \in Runs : RunInv(q)'
<1>1. ASSUME NEW r \in Runs, NEW k \in Kinds, NEW top \in OptionOf(PostIds),
             Start(r, k, top)
      PROVE  Kept
  <2>1. /\ pc[r] = "idle"
        /\ rows' = [rows EXCEPT ![r] = RunRow("open", 0)]
        /\ pc' = [pc EXCEPT ![r] = IF k = "thread" THEN "next" ELSE "me"]
        /\ UNCHANGED <<seen, seeds, stored, batch, total, source, page>>
    BY <1>1 DEF Start, WriteRun, Goto
  <2>2. page[r] = <<>>
    BY <2>1 DEF IngestInv, RunInv, Fitting
  <2>3. QED
    BY <2>1, <2>2, MoveKeepsRunInv
<1>2. ASSUME NEW r \in Runs, RecordMe(r)
      PROVE  Kept
  <2>1. /\ pc[r] = "me"
        /\ pc' = [pc EXCEPT ![r] = "resolve"]
        /\ UNCHANGED <<rows, seen, seeds, stored, batch, total, source, page>>
    BY <1>2 DEF RecordMe, Goto, run
  <2>2. QED
    BY <2>1, MoveKeepsRunInv
<1>3. ASSUME NEW r \in Runs, ResolveMe(r)
      PROVE  Kept
  <2>1. /\ pc[r] = "resolve"
        /\ pc' = [pc EXCEPT ![r] = IF kind[r] = "me" THEN "next" ELSE "seeds"]
        /\ UNCHANGED <<rows, seen, seeds, stored, batch, total, source, page>>
    BY <1>3 DEF ResolveMe, Goto
  <2>2. page[r] = <<>>
    BY <2>1 DEF IngestInv, RunInv, Fitting
  <2>3. QED
    BY <2>1, <2>2, MoveKeepsRunInv
<1>4. ASSUME NEW r \in Runs, Turn(r)
      PROVE  Kept
  <2>1. /\ pc[r] = "take" /\ page[r] = <<>>
        /\ pc' = [pc EXCEPT ![r] = IF more[r] THEN "fetch" ELSE "next"]
        /\ UNCHANGED <<rows, seen, seeds, stored, batch, total, source, page>>
    BY <1>4 DEF Turn, Goto, store, run
  <2>2. QED
    BY <2>1, MoveKeepsRunInv
<1>5. ASSUME NEW r \in Runs, Finish(r)
      PROVE  Kept
  <2>1. /\ pc[r] = "next" /\ batch[r] = <<>>
        /\ rows' = [rows EXCEPT ![r] = RunRow("ok", total[r])]
        /\ pc' = [pc EXCEPT ![r] = "done"]
        /\ UNCHANGED <<seen, seeds, stored, batch, total, source, page>>
    BY <1>5 DEF Finish, WriteRun, Goto, run
  <2>2. QED
    BY <2>1, MoveKeepsRunInv
<1>6. ASSUME NEW r \in Runs, FinishFailed(r)
      PROVE  Kept
  <2>1. /\ pc[r] = "failed"
        /\ rows' = [rows EXCEPT ![r] = RunRow("failed", 0)]
        /\ pc' = [pc EXCEPT ![r] = "done"]
        /\ UNCHANGED <<seen, seeds, stored, batch, total, source, page>>
    BY <1>6 DEF FinishFailed, WriteRun, Goto, run
  <2>2. QED
    BY <2>1, MoveKeepsRunInv
<1>7. ASSUME NEW r \in Runs, NEW place \in {"failed", "killed"},
             pc[r] # "done",
             pc' = [pc EXCEPT ![r] = place],
             UNCHANGED <<rows, seen, seeds, stored, batch, total, source, page>>
      PROVE  Kept
  BY <1>7, MoveKeepsRunInv
<1>8. ASSUME NEW r \in Runs, Fail(r) \/ Kill(r)
      PROVE  Kept
  <2>1. /\ pc[r] # "done"
        /\ \E place \in {"failed", "killed"} : pc' = [pc EXCEPT ![r] = place]
        /\ UNCHANGED <<rows, seen, seeds, stored, batch, total, source, page>>
    BY <1>8 DEF Fail, Kill, Goto, store, run
  <2>2. QED
    BY <2>1, <1>7
<1>9. CASE UNCHANGED <<pc, rows, seen, seeds, stored, batch, total, source, page>>
  <2>1. \A q \in Runs : Same(q) /\ RunInv(q)
    BY <1>9 DEF Same, IngestInv
  <2>2. QED
    BY <2>1, SameRunKeepsRunInv
<1>10. ASSUME NEW p \in PostIds,
              (\E back \in BOOLEAN : Publish(p, back)) \/ Vanish(p) \/ Erase(p)
       PROVE  Kept
  BY <1>9, <1>10 DEF Publish, Vanish, Erase, store, run
<1>11. CASE UNCHANGED vars
  BY <1>9, <1>11 DEF vars, store, run
<1>12. QED
  BY <1>1, <1>2, <1>3, <1>4, <1>5, <1>6, <1>8, <1>10, <1>11, ReadSeedsKeepsRunInv,
     OpenKeepsRunInv, FetchPageKeepsRunInv, TakeKeepsRunInv, FlushKeepsRunInv
     DEF Next, Step, Quiet

-----------------------------------------------------------------------------
(* The theorems *)

LEMMA IngestInvariant == Spec => []IngestInv
<1>1. Init => IngestInv
  BY InitTables, InitType, InitRuns DEF IngestInv
<1>2. IngestInv /\ [Next]_vars => IngestInv'
  BY NextKeepsTables, NextKeepsType, NextKeepsRuns DEF IngestInv
<1>3. QED
  BY <1>1, <1>2, PTL DEF Spec

\* The state of the store, of the service and of every run is well typed; a
\* batch never exceeds its size.
THEOREM IngestTypeCorrect == Spec => []TypeOK
<1>1. IngestInv => TypeOK
  BY DEF IngestInv
<1>2. QED
  BY <1>1, IngestInvariant, PTL

\* The row of a run that ended says how it ended, and one without an error
\* counts exactly the posts the run wrote, which are all it has met beyond those
\* it started from, however many runs share the store.
THEOREM FetchRunsTellTheTruth == Spec => []RunsAreAccounted
<1>1. IngestInv => RunsAreAccounted
  <2> SUFFICES ASSUME IngestInv, NEW r \in Runs
               PROVE  /\ pc[r] = "done" => rows[r].state \in {"ok", "failed"}
                      /\ rows[r].state = "ok" =>
                           /\ rows[r].fetched = Cardinality(stored[r])
                           /\ stored[r] = seen[r] \ seeds[r]
    BY DEF RunsAreAccounted
  <2>1. RunInv(r) /\ total[r] \in Nat
    BY DEF IngestInv, TypeOK
  <2>2. ASSUME rows[r].state = "ok"
        PROVE  /\ rows[r].fetched = Cardinality(stored[r])
               /\ stored[r] = seen[r] \ seeds[r]
    <3>1. batch[r] = <<>> /\ rows[r].fetched = total[r]
      BY <2>1, <2>2 DEF RunInv, Reported
    <3>2. Ids(batch[r]) = {} /\ Len(batch[r]) = 0
      BY <3>1 DEF Ids
    <3>3. stored[r] = seen[r] \ seeds[r]
      BY <2>1, <3>2 DEF RunInv, Counted
    <3>4. total[r] = Cardinality(seen[r] \ seeds[r])
      BY <2>1, <3>2 DEF RunInv, Counted
    <3>5. QED
      BY <3>1, <3>3, <3>4
  <2>3. QED
    BY <2>1, <2>2 DEF RunInv, Reported
<1>2. QED
  BY <1>1, IngestInvariant, PTL

\* What a run has written is in the store until a delete takes it out.
THEOREM WrittenPostsStay == Spec => []WrittenPostsAreKept
<1>1. IngestInv => WrittenPostsAreKept
  BY DEF IngestInv
<1>2. QED
  BY <1>1, IngestInvariant, PTL

\* A run that resolves my username gives me all of my posts, whichever edge they
\* came from, but those that `post create` made up and nothing has fetched since
\* with their owner.
THEOREM LateAttributionHolds == Spec => LateAttribution
<1>1. IngestInv => [\A r \in Runs : ResolveMe(r) =>
                      {p \in Stored(db) : TrueAuthor[p] = Me}
                        \subseteq ByAuthor(db', Me) \cup ByAuthor(db, Nobody)]_vars
  BY ResolveMeKeepsGood DEF IngestInv, ResolveMe
<1>2. QED
  BY <1>1, IngestInvariant, PTL DEF LateAttribution

-----------------------------------------------------------------------------
(* Where posts come from *)

\* Posts enter the store from batches and publishes only ...
LEMMA StoredComesFromBatches ==
  ASSUME IngestInv, [Next]_vars
  PROVE  \A p \in Stored(db') \ Stored(db) :
           p \in unwritten \/ \E r \in Runs : p \in Ids(batch[r])
<1> DEFINE Sourced == \A p \in Stored(db') \ Stored(db) :
                        p \in unwritten \/ \E r \in Runs : p \in Ids(batch[r])
<1>0. Good(db)
  BY DEF IngestInv
<1>1. CASE UNCHANGED db
  BY <1>1
<1>2. ASSUME NEW r \in Runs, RecordMe(r)
      PROVE  Sourced
  BY <1>0, <1>2, RecordMeKeepsGood DEF RecordMe
<1>3. ASSUME NEW r \in Runs, ResolveMe(r)
      PROVE  Sourced
  BY <1>0, <1>3, ResolveMeKeepsGood DEF ResolveMe
<1>4. ASSUME NEW r \in Runs, Flush(r)
      PROVE  Sourced
  <2>1. /\ batch[r] \in Seq(Written)
        /\ \A i \in 1 .. Len(batch[r]) : Signed(batch[r][i].id, batch[r][i].post)
    BY DEF IngestInv, TypeOK, RunInv, Fitting, Written
  <2>2. db' = UpsertAll(db, batch[r])
    BY <1>4 DEF Flush
  <2>3. Stored(db') = Stored(db) \cup Ids(batch[r])
    BY <1>0, <2>1, <2>2, UpsertAllKeepsGood
  <2>4. QED
    BY <2>3
<1>4a. ASSUME NEW p \in PostIds, NEW back \in BOOLEAN, Publish(p, back)
       PROVE  Sourced
  <2>1. /\ p \in unwritten /\ p \in Published
        /\ db' = Upsert(db, p, AfterPublish(p, back))
    BY <1>4a DEF Publish, IngestInv, TypeOK
  <2>2. AfterPublish(p, back) \in Post /\ Signed(p, AfterPublish(p, back))
    BY <2>1, IngestAssumption, AfterPublishIsSigned
  <2>3. Stored(db') = Stored(db) \cup {p}
    BY <1>0, <2>1, <2>2, UpsertKeepsGood
  <2>4. QED
    BY <2>1, <2>3
<1>5. ASSUME NEW p \in PostIds, Erase(p)
      PROVE  Sourced
  <2>1. Stored(db') = Stored(db) \ {p}
    BY <1>0, <1>5, DeleteRowKeepsGood DEF Erase
  <2>2. QED
    BY <2>1
<1>6. ASSUME NEW r \in Runs,
             \/ \E k \in Kinds, top \in OptionOf(PostIds) : Start(r, k, top)
             \/ ReadSeeds(r) \/ Open(r) \/ FetchPage(r) \/ Take(r) \/ Turn(r)
             \/ Finish(r) \/ Fail(r) \/ FinishFailed(r) \/ Kill(r)
      PROVE  UNCHANGED db
  BY <1>6 DEF Start, ReadSeeds, Open, FetchPage, Take, Turn, Finish, Fail,
              FinishFailed, Kill, store
<1>7. ASSUME NEW p \in PostIds, Vanish(p)
      PROVE  UNCHANGED db
  BY <1>7 DEF Vanish, store
<1>8. CASE UNCHANGED vars
  BY <1>1, <1>8 DEF vars, store
<1>9. QED
  BY <1>1, <1>2, <1>3, <1>4, <1>4a, <1>5, <1>6, <1>7, <1>8 DEF Next, Step, Quiet

\* ... and batches and pages are filled from the service only.
LEMMA HeldComesFromService ==
  ASSUME IngestInv, [Next]_vars, NEW r \in Runs
  PROVE  Held(r)' \subseteq Held(r) \cup remote
<1>0. /\ TypeOK
      /\ batch \in [Runs -> Seq(Written)]
      /\ page \in [Runs -> Seq(PostIds)]
      /\ source \in [Runs -> Edges]
  BY DEF IngestInv, TypeOK, Written
<1>1. CASE batch'[r] = batch[r] /\ page'[r] = page[r]
  BY <1>1 DEF Held
<1>2. ASSUME NEW q \in Runs, FetchPage(q)
      PROVE  Held(r)' \subseteq Held(r) \cup remote
  <2>1. PICK items \in Seq(PostIds) :
          /\ \A i \in 1 .. Len(items) : items[i] \in ItemsOf(source[q])
          /\ page' = [page EXCEPT ![q] = @ \o items]
    BY <1>0, <1>2, FetchPageEffect
  <2>2. batch' = batch
    BY <1>2 DEF FetchPage
  <2>3. CASE r # q
    BY <1>0, <1>1, <2>1, <2>2, <2>3
  <2>4. CASE r = q
    <3>1. page'[r] = page[r] \o items /\ page[r] \in Seq(PostIds)
      BY <1>0, <2>1, <2>4
    <3> DEFINE long == page[r] \o items
    <3>2. /\ DOMAIN page[r] = 1 .. Len(page[r])
          /\ Len(page[r]) \in Nat /\ Len(items) \in Nat
          /\ long \in Seq(PostIds)
          /\ Len(long) = Len(page[r]) + Len(items)
          /\ \A i \in 1 .. Len(page[r]) + Len(items) :
               long[i] = IF i <= Len(page[r]) THEN page[r][i]
                         ELSE items[i - Len(page[r])]
      BY <3>1, ConcatProperties, LenProperties
    <3> HIDE DEF long
    <3>3. DOMAIN long = 1 .. Len(long)
      BY <3>2, LenProperties
    <3>4. ASSUME NEW i \in DOMAIN long
          PROVE  long[i] \in ToSet(page[r]) \cup remote
      <4>1. i \in 1 .. Len(page[r]) + Len(items)
        BY <3>2, <3>3
      <4>2. CASE i <= Len(page[r])
        <5>1. i \in DOMAIN page[r] /\ long[i] = page[r][i]
          BY <3>2, <4>1, <4>2
        <5>2. QED
          BY <5>1 DEF ToSet
      <4>3. CASE ~(i <= Len(page[r]))
        <5>1. i - Len(page[r]) \in 1 .. Len(items)
              /\ long[i] = items[i - Len(page[r])]
          BY <3>2, <4>1, <4>3
        <5>2. long[i] \in ItemsOf(source[q])
          BY <2>1, <5>1
        <5>3. QED
          BY <1>0, <5>2, ItemsAreRemote
      <4>4. QED
        BY <4>2, <4>3
    <3>5. ToSet(long) \subseteq ToSet(page[r]) \cup remote
      BY <3>4 DEF ToSet
    <3>6. Held(r)' = Ids(batch[r]) \cup ToSet(long)
      BY <2>2, <3>1 DEF Held, long
    <3>7. QED
      BY <3>5, <3>6 DEF Held
  <2>5. QED
    BY <2>3, <2>4
<1>3. ASSUME NEW q \in Runs, Take(q)
      PROVE  Held(r)' \subseteq Held(r) \cup remote
  <2> DEFINE p == Head(page[q])
             x == [id |-> p, post |-> Fetched(source[q], p)]
  <2>1. /\ page[q] # <<>>
        /\ x \in Written
        /\ page' = [page EXCEPT ![q] = Tail(@)]
        /\ \/ UNCHANGED batch
           \/ batch' = [batch EXCEPT ![q] = Append(@, x)]
    BY <1>0, <1>3, TakeEffect
  <2>2. CASE r # q
    BY <1>0, <1>1, <2>1, <2>2
  <2>3. CASE r = q
    <3>1. page[r] \in Seq(PostIds) /\ batch[r] \in Seq(Written)
      BY <1>0
    <3>2. /\ Len(page[r]) \in Nat \ {0}
          /\ DOMAIN page[r] = 1 .. Len(page[r])
          /\ Tail(page[r]) \in Seq(PostIds)
          /\ Len(Tail(page[r])) = Len(page[r]) - 1
          /\ \A i \in 1 .. Len(Tail(page[r])) : Tail(page[r])[i] = page[r][i + 1]
          /\ p = page[r][1]
      BY <2>1, <2>3, <3>1, HeadTailProperties, EmptySeq, LenProperties
    <3>3. p \in ToSet(page[r])
      BY <3>2 DEF ToSet
    <3>4. x.id = p
      OBVIOUS
    <3>5. ToSet(Tail(page[r])) \subseteq ToSet(page[r])
      <4>1. DOMAIN Tail(page[r]) = 1 .. Len(Tail(page[r]))
        BY <3>2, LenProperties
      <4>2. \A i \in DOMAIN Tail(page[r]) :
              i + 1 \in DOMAIN page[r] /\ Tail(page[r])[i] = page[r][i + 1]
        BY <3>2, <4>1
      <4>3. QED
        BY <4>2 DEF ToSet
    <3> HIDE DEF p, x
    <3>6. Ids(Append(batch[r], x)) \subseteq Ids(batch[r]) \cup {p}
      <4>1. /\ DOMAIN batch[r] = 1 .. Len(batch[r])
            /\ Len(batch[r]) \in Nat
            /\ DOMAIN Append(batch[r], x) = 1 .. Len(batch[r]) + 1
            /\ \A i \in 1 .. Len(batch[r]) : Append(batch[r], x)[i] = batch[r][i]
            /\ Append(batch[r], x)[Len(batch[r]) + 1] = x
        BY <2>1, <3>1, AppendProperties, LenProperties
      <4>2. DOMAIN Append(batch[r], x) = DOMAIN batch[r] \cup {Len(batch[r]) + 1}
        BY <4>1
      <4>3. QED
        BY <3>4, <4>1, <4>2 DEF Ids
    <3>7. page'[r] = Tail(page[r])
      BY <1>0, <2>1, <2>3
    <3>8. batch'[r] = batch[r] \/ batch'[r] = Append(batch[r], x)
      BY <1>0, <2>1, <2>3
    <3>9. Ids(batch'[r]) \subseteq Ids(batch[r]) \cup {p}
      BY <3>6, <3>8
    <3>10. QED
      BY <3>3, <3>5, <3>7, <3>9 DEF Held
  <2>4. QED
    BY <2>2, <2>3
<1>4. ASSUME NEW q \in Runs, Flush(q)
      PROVE  Held(r)' \subseteq Held(r) \cup remote
  <2>1. page' = page /\ batch' = [batch EXCEPT ![q] = <<>>]
    BY <1>4 DEF Flush
  <2>2. Ids(<<>>) = {}
    BY DEF Ids
  <2>3. Ids(batch'[r]) \subseteq Ids(batch[r])
    BY <1>0, <2>1, <2>2
  <2>4. QED
    BY <2>1, <2>3 DEF Held
<1>5. ASSUME NEW q \in Runs,
             \/ \E k \in Kinds, top \in OptionOf(PostIds) : Start(q, k, top)
             \/ RecordMe(q) \/ ResolveMe(q) \/ ReadSeeds(q) \/ Open(q) \/ Turn(q)
             \/ Finish(q) \/ Fail(q) \/ FinishFailed(q) \/ Kill(q)
      PROVE  UNCHANGED <<batch, page>>
  BY <1>5 DEF Start, RecordMe, ResolveMe, ReadSeeds, Open, Turn, Finish, Fail,
              FinishFailed, Kill, run
<1>6. ASSUME NEW p \in PostIds,
             (\E back \in BOOLEAN : Publish(p, back)) \/ Vanish(p) \/ Erase(p)
      PROVE  UNCHANGED <<batch, page>>
  BY <1>6 DEF Publish, Vanish, Erase, run
<1>7. CASE UNCHANGED vars
  BY <1>1, <1>7 DEF vars, run
<1>8. QED
  BY <1>1, <1>2, <1>3, <1>4, <1>5, <1>6, <1>7 DEF Next, Step, Quiet

\* A deleted post comes back only through a run that had fetched it before, or the
\* command that published it: by then it is gone from the service, and nothing
\* else brings posts in.
THEOREM DeletedPostsDoNotReturn == Spec => DeletedPostsStayAway
<1>1. IngestInv /\ [Next]_vars =>
        [\A p \in erased \ (Stored(db) \cup unwritten
                             \cup UNION {Held(r) : r \in Runs}) :
           /\ p \notin Stored(db')
           /\ \A r \in Runs : p \notin Held(r)']_vars
  <2> SUFFICES ASSUME IngestInv, [Next]_vars,
                      NEW p \in erased \ (Stored(db) \cup unwritten
                                           \cup UNION {Held(r) : r \in Runs})
               PROVE  /\ p \notin Stored(db')
                      /\ \A r \in Runs : p \notin Held(r)'
    OBVIOUS
  <2>1. /\ p \notin remote /\ p \notin Stored(db) /\ p \notin unwritten
        /\ \A r \in Runs : p \notin Held(r)
    BY DEF IngestInv
  <2>2. \A r \in Runs : p \notin Ids(batch[r])
    BY <2>1 DEF Held
  <2>3. p \notin Stored(db')
    BY <2>1, <2>2, StoredComesFromBatches
  <2>4. QED
    BY <2>1, <2>3, HeldComesFromService
<1>2. QED
  BY <1>1, IngestInvariant, PTL DEF Spec, DeletedPostsStayAway

-----------------------------------------------------------------------------
(* Complete runs miss nothing                                              *)
(*                                                                         *)
(* What a run has still to meet is on a page it holds, or is owed by the   *)
(* edge it reads, or by an edge of its queue.  For an engagement run the   *)
(* edges of the queue must not be too deep: each says how far its post is  *)
(* from the posts the run started from, and a reply has only one parent.   *)

\* Whether the service lists a post on an edge.
Fits(edge, of, p) ==
  \/ edge = "threads" /\ TrueAuthor[p] = Me /\ TrueParent[p] = None
  \/ edge = "replies" /\ TrueAuthor[p] = Me /\ TrueParent[p] # None
  \/ edge = "children" /\ TrueParent[p] = of
  \/ edge = "conversation" /\ (p = of \/ TrueRoot[p] = of)

Reading == {"fetch", "take", "flush"}
Active  == Reading \cup {"next"}

\* What the open edge lists, the run has met, or it is on its pages, or the
\* service has still to return it.
Awaited(r) == ToSet(page[r])
              \cup (IF pc[r] = "fetch" \/ more[r] THEN ahead[r] ELSE {})

Awaiting(r) ==
  pc[r] \in Reading =>
    \A p \in remote : Fits(source[r].edge, source[r].of, p)
                       => p \in seen[r] \cup Awaited(r)

\* Pages hold replies to the post whose replies are read.
Belonging(r) ==
  source[r].edge = "children" =>
    \A p \in ToSet(page[r]) : TrueParent[p] = source[r].of

\* An edge is still to be read, or is being read, or has nothing new.
Settled(r, edge, of) ==
  \/ \E i \in 1 .. Len(frontier[r]) :
       frontier[r][i].edge = edge /\ frontier[r][i].of = of
  \/ pc[r] \in Reading /\ source[r].edge = edge /\ source[r].of = of
  \/ \A p \in remote : Fits(edge, of, p) => p \in seen[r]

Routed(r) ==
  /\ kind[r] = "thread" => pc[r] \notin {"me", "resolve", "seeds"}
  /\ kind[r] = "me" => pc[r] # "seeds"

MeCovered(r) ==
  kind[r] = "me" /\ pc[r] \in Active =>
    Settled(r, "threads", None) /\ Settled(r, "replies", None)

ThreadCovered(r) ==
  kind[r] = "thread" /\ pc[r] \in Active =>
    \/ /\ pc[r] = "next"
       /\ Len(frontier[r]) = 1
       /\ frontier[r][1].edge = "conversation"
    \/ /\ frontier[r] = <<>>
       /\ \/ pc[r] \in Reading
          \/ \A p \in remote : Fits(source[r].edge, source[r].of, p)
                               => p \in seen[r]

\* Sets of posts, each within one reply of the one before.
Levels(top) ==
  {lev \in [0 .. MaxDepth -> SUBSET PostIds] :
     /\ lev[0] = top
     /\ \A n \in 1 .. MaxDepth :
          lev[n] \subseteq lev[n - 1] \cup {p \in PostIds : TrueParent[p] \in lev[n - 1]}}

\* No edge is deeper than its post.
Shallow(e, lev) ==
  /\ e.edge = "children"
  /\ \A n \in 0 .. MaxDepth : e.of \in lev[n] => e.depth <= n

EngagementCovered(r) ==
  kind[r] = "engagement" /\ pc[r] \in Active =>
    \A lev \in Levels(seeds[r]) :
      /\ \A i \in 1 .. Len(frontier[r]) : Shallow(frontier[r][i], lev)
      /\ pc[r] \in Reading => Shallow(source[r], lev)
      /\ \A n \in 0 .. MaxDepth - 1 : \A q \in lev[n] \cap seen[r] :
           Settled(r, "children", q)

CoverInv(r) ==
  /\ Awaiting(r) /\ Belonging(r) /\ Routed(r)
  /\ MeCovered(r) /\ ThreadCovered(r) /\ EngagementCovered(r)

LEMMA ItemsFit ==
  ASSUME NEW e \in Edges
  PROVE  ItemsOf(e) = {p \in remote : Fits(e.edge, e.of, p)}
  BY DEF ItemsOf, Fits, Edges

\* What a step of another run, or of the service, leaves alone.
SameSearch(q) ==
  /\ pc'[q] = pc[q] /\ kind'[q] = kind[q] /\ more'[q] = more[q]
  /\ seen'[q] = seen[q] /\ seeds'[q] = seeds[q] /\ ahead'[q] = ahead[q]
  /\ frontier'[q] = frontier[q] /\ source'[q] = source[q] /\ page'[q] = page[q]

\* What an edge owes only shrinks when posts vanish.
LEMMA SettledPersists ==
  ASSUME NEW r \in Runs, NEW edge, NEW of, Settled(r, edge, of),
         remote' \subseteq remote,
         seen[r] \subseteq seen'[r],
         \A i \in 1 .. Len(frontier[r]) : \E j \in 1 .. Len(frontier'[r]) :
           frontier'[r][j] = frontier[r][i],
         pc[r] \in Reading => pc'[r] \in Reading /\ source'[r] = source[r]
  PROVE  Settled(r, edge, of)'
<1>1. CASE \E i \in 1 .. Len(frontier[r]) :
             frontier[r][i].edge = edge /\ frontier[r][i].of = of
  <2>1. PICK i \in 1 .. Len(frontier[r]) :
          frontier[r][i].edge = edge /\ frontier[r][i].of = of
    BY <1>1
  <2>2. PICK j \in 1 .. Len(frontier'[r]) : frontier'[r][j] = frontier[r][i]
    OBVIOUS
  <2>3. frontier'[r][j].edge = edge /\ frontier'[r][j].of = of
    BY <2>1, <2>2
  <2>4. QED
    BY <2>3 DEF Settled
<1>2. CASE pc[r] \in Reading /\ source[r].edge = edge /\ source[r].of = of
  BY <1>2 DEF Settled
<1>3. CASE \A p \in remote : Fits(edge, of, p) => p \in seen[r]
  BY <1>3 DEF Settled, Fits
<1>4. QED
  BY <1>1, <1>2, <1>3 DEF Settled

LEMMA OthersStayCovered ==
  ASSUME NEW q \in Runs, CoverInv(q), remote' \subseteq remote, SameSearch(q)
  PROVE  CoverInv(q)'
<1>1. ASSUME NEW edge, NEW of, Settled(q, edge, of)
      PROVE  Settled(q, edge, of)'
  BY <1>1 DEF Settled, SameSearch, Fits
<1>2. Awaiting(q)' /\ Belonging(q)' /\ Routed(q)'
  BY DEF CoverInv, SameSearch, Awaiting, Awaited, Belonging, Routed, Fits
<1>3. MeCovered(q)'
  BY <1>1 DEF CoverInv, SameSearch, MeCovered
<1>4. ThreadCovered(q)'
  BY DEF CoverInv, SameSearch, ThreadCovered, Fits
<1>5. EngagementCovered(q)'
  <2> SUFFICES ASSUME (kind[q] = "engagement" /\ pc[q] \in Active)',
                      NEW lev \in Levels(seeds'[q])
               PROVE  /\ \A i \in 1 .. Len(frontier'[q]) : Shallow(frontier'[q][i], lev)
                      /\ pc'[q] \in Reading => Shallow(source'[q], lev)
                      /\ \A n \in 0 .. MaxDepth - 1 : \A p \in lev[n] \cap seen'[q] :
                           Settled(q, "children", p)'
    BY DEF EngagementCovered
  <2>1. /\ \A i \in 1 .. Len(frontier[q]) : Shallow(frontier[q][i], lev)
        /\ pc[q] \in Reading => Shallow(source[q], lev)
        /\ \A n \in 0 .. MaxDepth - 1 : \A p \in lev[n] \cap seen[q] :
             Settled(q, "children", p)
    BY DEF CoverInv, SameSearch, EngagementCovered
  <2>2. QED
    BY <1>1, <2>1 DEF SameSearch
<1>6. QED
  BY <1>2, <1>3, <1>4, <1>5 DEF CoverInv

\* A run that does not read yet, or no longer, owes nothing.
LEMMA IdleRunsOweNothing ==
  ASSUME NEW r \in Runs, CoverInv(r), pc'[r] \notin Active,
         source'[r] = source[r], page'[r] = page[r],
         kind'[r] = "thread" => pc'[r] \notin {"me", "resolve", "seeds"},
         kind'[r] = "me" => pc'[r] # "seeds"
  PROVE  CoverInv(r)'
  BY DEF CoverInv, Awaiting, Belonging, Routed, MeCovered, ThreadCovered,
         EngagementCovered, Active

\* A run in its first place of reading holds no page and reads no edge.
LEMMA StartCovers ==
  ASSUME IngestInv, NEW r \in Runs, CoverInv(r),
         NEW k \in Kinds, NEW top \in OptionOf(PostIds), Start(r, k, top)
  PROVE  CoverInv(r)'
<1>1. /\ pc[r] = "idle"
      /\ pc'[r] = IF k = "thread" THEN "next" ELSE "me"
      /\ kind'[r] = k
      /\ frontier'[r] = IF k = "thread" THEN <<EdgeOf("conversation", top, 0)>>
                                        ELSE <<>>
      /\ UNCHANGED <<source, page>>
  BY DEF Start, Goto, IngestInv, TypeOK
<1>2. CASE k = "thread"
  <2>1. /\ pc'[r] = "next" /\ kind'[r] = "thread"
        /\ Len(frontier'[r]) = 1 /\ frontier'[r][1].edge = "conversation"
    BY <1>1, <1>2 DEF EdgeOf
  <2>2. QED
    BY <1>1, <2>1 DEF CoverInv, Awaiting, Belonging, Routed, MeCovered, ThreadCovered,
                      EngagementCovered, Reading
<1>3. CASE k # "thread"
  <2>1. pc'[r] = "me"
    BY <1>1, <1>3
  <2>2. pc'[r] \notin Active
    BY <2>1 DEF Active, Reading
  <2>3. QED
    BY <1>1, <1>3, <2>1, <2>2, IdleRunsOweNothing
<1>4. QED
  BY <1>2, <1>3

LEMMA ResolveMeCovers ==
  ASSUME IngestInv, NEW r \in Runs, CoverInv(r), ResolveMe(r)
  PROVE  CoverInv(r)'
<1>1. /\ pc[r] = "resolve"
      /\ pc'[r] = IF kind[r] = "me" THEN "next" ELSE "seeds"
      /\ frontier'[r] =
           IF kind[r] = "me"
           THEN <<EdgeOf("threads", None, 0), EdgeOf("replies", None, 0)>> ELSE <<>>
      /\ UNCHANGED <<kind, source, page>>
  BY DEF ResolveMe, Goto, IngestInv, TypeOK
<1>2. kind[r] # "thread"
  BY <1>1 DEF CoverInv, Routed
<1>3. CASE kind[r] = "me"
  <2>1. /\ Len(frontier'[r]) = 2
        /\ frontier'[r][1].edge = "threads" /\ frontier'[r][1].of = None
        /\ frontier'[r][2].edge = "replies" /\ frontier'[r][2].of = None
    BY <1>1, <1>3 DEF EdgeOf
  <2>2. 1 \in 1 .. Len(frontier'[r]) /\ 2 \in 1 .. Len(frontier'[r])
    BY <2>1
  <2>3. Settled(r, "threads", None)' /\ Settled(r, "replies", None)'
    BY <2>1, <2>2 DEF Settled
  <2>4. pc'[r] = "next" /\ kind'[r] = "me"
    BY <1>1, <1>3
  <2>5. QED
    BY <1>1, <2>3, <2>4
       DEF CoverInv, Awaiting, Belonging, Routed, MeCovered, ThreadCovered,
           EngagementCovered, Reading
<1>4. CASE kind[r] # "me"
  <2>1. pc'[r] = "seeds" /\ kind'[r] = kind[r]
    BY <1>1, <1>4
  <2>2. pc'[r] \notin Active
    BY <2>1 DEF Active, Reading
  <2>3. QED
    BY <1>1, <1>2, <1>4, <2>1, <2>2, IdleRunsOweNothing
<1>5. QED
  BY <1>3, <1>4

\* A sequence without repetition of a finite set has all of it.
LEMMA OrdersAreComplete ==
  ASSUME NEW posts \in SUBSET PostIds, NEW order \in SetToSeqs(posts),
         NEW p \in posts
  PROVE  \E i \in 1 .. Cardinality(posts) : order[i] = p
<1> DEFINE n == Cardinality(posts)
<1>1. n \in Nat /\ order \in [1 .. n -> posts]
  BY OrdersTyped
<1>2. IsFiniteSet(posts)
  BY ServiceAssumption, FS_Subset
<1>3. order \in Injection(1 .. n, posts)
  BY <1>1 DEF SetToSeqs, Injection, IsInjective
<1>4. Cardinality(1 .. n) = n
  BY <1>1, FS_Interval
<1>5. order \in Surjection(1 .. n, posts)
  BY <1>2, <1>3, <1>4, FS_Injection
<1>6. QED
  BY <1>5 DEF Surjection

LEMMA ReadSeedsCovers ==
  ASSUME IngestInv, NEW r \in Runs, CoverInv(r), ReadSeeds(r)
  PROVE  CoverInv(r)'
<1> DEFINE authored == ByAuthor(db, Me)
<1>1. authored \in SUBSET PostIds
  BY DEF ByAuthor, Stored
<1>2. PICK order \in SetToSeqs(authored) :
        frontier' = [frontier EXCEPT ![r] =
          [i \in DOMAIN order |-> EdgeOf("children", order[i], 0)]]
  BY DEF ReadSeeds
<1>3. /\ Cardinality(authored) \in Nat
      /\ order \in [1 .. Cardinality(authored) -> authored]
  BY <1>1, OrdersTyped
<1>4. /\ pc[r] = "seeds" /\ pc'[r] = "next"
      /\ seen'[r] = authored
      /\ seeds'[r] = authored
      /\ UNCHANGED <<kind, source, page>>
      /\ kind[r] \in {"me", "engagement", "thread"}
      /\ DOMAIN frontier = Runs
  BY DEF ReadSeeds, Goto, IngestInv, TypeOK
<1>5. kind'[r] = "engagement"
  BY <1>4 DEF CoverInv, Routed
<1> DEFINE n == Cardinality(authored)
           f == [i \in 1 .. n |-> EdgeOf("children", order[i], 0)]
<1>6. frontier'[r] = f
  BY <1>2, <1>3, <1>4
<1>7. \A i \in 1 .. n : f[i].edge = "children" /\ f[i].of = order[i] /\ f[i].depth = 0
  BY DEF EdgeOf
<1>8. Len(f) = n
  <2>1. f \in [1 .. n -> Edges]
    BY <1>1, <1>3 DEF EdgeOf, Edges
  <2>2. f \in Seq(Edges)
    BY <1>3, <2>1, SeqDef
  <2>3. QED
    BY <1>3, <2>1, <2>2, LenProperties
<1> HIDE DEF f, n
<1>9. ASSUME NEW p \in authored
      PROVE  Settled(r, "children", p)'
  <2>1. PICK i \in 1 .. n : order[i] = p
    BY <1>1, OrdersAreComplete DEF n
  <2>2. f[i].edge = "children" /\ f[i].of = p
    BY <1>7, <2>1
  <2>3. QED
    BY <1>6, <1>8, <2>1, <2>2 DEF Settled
<1>10. \A i \in 1 .. Len(frontier'[r]) :
         frontier'[r][i].edge = "children" /\ frontier'[r][i].depth = 0
  BY <1>6, <1>7, <1>8
<1>11. EngagementCovered(r)'
  <2> SUFFICES ASSUME NEW lev \in Levels(seeds'[r])
               PROVE  /\ \A i \in 1 .. Len(frontier'[r]) : Shallow(frontier'[r][i], lev)
                      /\ pc'[r] \in Reading => Shallow(source'[r], lev)
                      /\ \A m \in 0 .. MaxDepth - 1 : \A p \in lev[m] \cap seen'[r] :
                           Settled(r, "children", p)'
    BY DEF EngagementCovered
  <2>1. \A i \in 1 .. Len(frontier'[r]) : Shallow(frontier'[r][i], lev)
    BY <1>10, IngestAssumption DEF Shallow
  <2>2. pc'[r] \notin Reading
    BY <1>4 DEF Reading
  <2>3. QED
    BY <1>4, <1>9, <2>1, <2>2
<1>12. QED
  BY <1>4, <1>5, <1>11
     DEF CoverInv, Awaiting, Belonging, Routed, MeCovered, ThreadCovered, Reading

\* The next edge is read, unless it is too deep.
LEMMA OpenEffect ==
  ASSUME IngestInv, NEW r \in Runs, Open(r)
  PROVE  LET e == Head(frontier[r])
         IN  /\ pc[r] = "next" /\ page[r] = <<>>
             /\ e = frontier[r][1] /\ e \in Edges
             /\ Len(frontier[r]) \in Nat \ {0}
             /\ Len(frontier'[r]) = Len(frontier[r]) - 1
             /\ \A i \in 1 .. Len(frontier'[r]) : frontier'[r][i] = frontier[r][i + 1]
             /\ UNCHANGED <<remote, kind, seen, seeds, page>>
             /\ \/ TooDeep(e) /\ UNCHANGED <<pc, source>>
                \/ /\ ~TooDeep(e)
                   /\ pc'[r] = "fetch" /\ source'[r] = e /\ ahead'[r] = ItemsOf(e)
<1>1. /\ frontier[r] \in Seq(Edges) /\ frontier[r] # <<>>
      /\ pc[r] = "next"
      /\ frontier'[r] = Tail(frontier[r])
      /\ UNCHANGED <<remote, kind, seen, seeds, page>>
  BY DEF Open, world, IngestInv, TypeOK
<1>2. page[r] = <<>>
  BY <1>1 DEF IngestInv, RunInv, Fitting
<1>3. LET e == Head(frontier[r])
      IN  \/ TooDeep(e) /\ UNCHANGED <<pc, source>>
          \/ /\ ~TooDeep(e)
             /\ pc'[r] = "fetch" /\ source'[r] = e /\ ahead'[r] = ItemsOf(e)
  BY DEF Open, Goto, IngestInv, TypeOK
<1>4. /\ Head(frontier[r]) = frontier[r][1] /\ Head(frontier[r]) \in Edges
      /\ Len(frontier[r]) \in Nat \ {0}
      /\ Len(Tail(frontier[r])) = Len(frontier[r]) - 1
      /\ \A i \in 1 .. Len(Tail(frontier[r])) :
           Tail(frontier[r])[i] = frontier[r][i + 1]
  BY <1>1, HeadTailProperties, EmptySeq
<1>5. QED
  BY <1>1, <1>2, <1>3, <1>4

LEMMA OpenCovers ==
  ASSUME IngestInv, NEW r \in Runs, CoverInv(r), Open(r)
  PROVE  CoverInv(r)'
<1> DEFINE e == Head(frontier[r])
<1>1. /\ pc[r] = "next" /\ page[r] = <<>>
      /\ e = frontier[r][1] /\ e \in Edges
      /\ Len(frontier[r]) \in Nat \ {0}
      /\ Len(frontier'[r]) = Len(frontier[r]) - 1
      /\ \A i \in 1 .. Len(frontier'[r]) : frontier'[r][i] = frontier[r][i + 1]
      /\ UNCHANGED <<remote, kind, seen, seeds, page>>
      /\ \/ TooDeep(e) /\ UNCHANGED <<pc, source>>
         \/ /\ ~TooDeep(e)
            /\ pc'[r] = "fetch" /\ source'[r] = e /\ ahead'[r] = ItemsOf(e)
  BY OpenEffect
<1> HIDE DEF e
<1>2. pc'[r] \in {"next", "fetch"} /\ pc[r] \in Active /\ pc[r] \notin Reading
  BY <1>1 DEF Active, Reading
<1>3. ASSUME NEW edge, NEW of, Settled(r, edge, of),
             ~(e.edge = edge /\ e.of = of /\ TooDeep(e))
      PROVE  Settled(r, edge, of)'
  <2>1. CASE \E i \in 1 .. Len(frontier[r]) :
               frontier[r][i].edge = edge /\ frontier[r][i].of = of
    <3>1. PICK i \in 1 .. Len(frontier[r]) :
            frontier[r][i].edge = edge /\ frontier[r][i].of = of
      BY <2>1
    <3>2. CASE i = 1
      <4>1. pc'[r] = "fetch" /\ source'[r] = e /\ e.edge = edge /\ e.of = of
        BY <1>1, <1>3, <3>1, <3>2
      <4>2. QED
        BY <4>1 DEF Settled, Reading
    <3>3. CASE i # 1
      <4>1. i - 1 \in 1 .. Len(frontier'[r]) /\ i - 1 + 1 = i
        BY <1>1, <3>1, <3>3
      <4>2. frontier'[r][i - 1] = frontier[r][i]
        BY <1>1, <4>1
      <4>3. QED
        BY <3>1, <4>1, <4>2 DEF Settled
    <3>4. QED
      BY <3>2, <3>3
  <2>2. CASE \A p \in remote : Fits(edge, of, p) => p \in seen[r]
    BY <1>1, <2>2 DEF Settled, Fits
  <2>3. QED
    BY <1>2, <1>3, <2>1, <2>2 DEF Settled
<1>4. TooDeep(e) => e.edge = "children"
  BY DEF TooDeep
<1>5. Awaiting(r)'
  <2>1. CASE pc'[r] = "next"
    BY <2>1 DEF Awaiting, Reading
  <2>2. CASE pc'[r] = "fetch"
    <3>1. source'[r] = e /\ ahead'[r] = {p \in remote : Fits(e.edge, e.of, p)}
      BY <1>1, <2>2, ItemsFit
    <3>2. \A p \in remote' : Fits(e.edge, e.of, p) => p \in ahead'[r]
      BY <1>1, <3>1
    <3>3. QED
      BY <2>2, <3>1, <3>2 DEF Awaiting, Awaited, Fits
  <2>3. QED
    BY <1>2, <2>1, <2>2
<1>6. Belonging(r)' /\ Routed(r)'
  BY <1>1, <1>2 DEF CoverInv, Belonging, Routed, ToSet
<1>7. MeCovered(r)'
  BY <1>1, <1>2, <1>3, <1>4 DEF CoverInv, MeCovered
<1>8. ThreadCovered(r)'
  <2> SUFFICES ASSUME kind[r] = "thread"
               PROVE  ThreadCovered(r)'
    BY <1>1 DEF ThreadCovered
  <2>1. Len(frontier[r]) = 1 /\ e.edge = "conversation"
    BY <1>1, <1>2 DEF CoverInv, ThreadCovered
  <2>2. pc'[r] \in Reading
    BY <1>1, <1>4, <2>1 DEF Reading
  <2>3. Len(frontier'[r]) = 0
    BY <1>1, <2>1
  <2>4. frontier'[r] \in Seq(Edges)
    BY NextKeepsType DEF Next, Step, TypeOK
  <2>5. frontier'[r] = <<>>
    BY <2>3, <2>4, EmptySeq
  <2>6. QED
    BY <2>2, <2>5 DEF ThreadCovered
<1>9. EngagementCovered(r)'
  <2> SUFFICES ASSUME kind[r] = "engagement", NEW lev \in Levels(seeds[r])
               PROVE  /\ \A i \in 1 .. Len(frontier'[r]) : Shallow(frontier'[r][i], lev)
                      /\ pc'[r] \in Reading => Shallow(source'[r], lev)
                      /\ \A n \in 0 .. MaxDepth - 1 : \A p \in lev[n] \cap seen'[r] :
                           Settled(r, "children", p)'
    BY <1>1 DEF EngagementCovered
  <2>1. /\ \A i \in 1 .. Len(frontier[r]) : Shallow(frontier[r][i], lev)
        /\ \A n \in 0 .. MaxDepth - 1 : \A p \in lev[n] \cap seen[r] :
             Settled(r, "children", p)
    BY <1>2 DEF CoverInv, EngagementCovered
  <2>2. \A i \in 1 .. Len(frontier'[r]) : Shallow(frontier'[r][i], lev)
    <3>1. \A i \in 1 .. Len(frontier'[r]) : i + 1 \in 1 .. Len(frontier[r])
      BY <1>1
    <3>2. QED
      BY <1>1, <2>1, <3>1
  <2>3. Shallow(e, lev)
    <3>1. 1 \in 1 .. Len(frontier[r])
      BY <1>1
    <3>2. QED
      BY <1>1, <2>1, <3>1
  <2>4. pc'[r] \in Reading => Shallow(source'[r], lev)
    BY <1>1, <1>2, <2>3
  <2>5. ASSUME NEW n \in 0 .. MaxDepth - 1, NEW p \in lev[n] \cap seen[r]
        PROVE  Settled(r, "children", p)'
    <3>1. n \in 0 .. MaxDepth /\ n < MaxDepth /\ e.depth \in Nat /\ MaxDepth \in Nat
      BY <1>1, IngestAssumption DEF Edges
    <3>2. ~(e.of = p /\ TooDeep(e))
      BY <2>3, <2>5, <3>1 DEF Shallow, TooDeep
    <3>3. QED
      BY <1>3, <2>1, <2>5, <3>2
  <2>6. QED
    BY <1>1, <2>2, <2>4, <2>5
<1>10. QED
  BY <1>5, <1>6, <1>7, <1>8, <1>9 DEF CoverInv

LEMMA ConcatRange ==
  ASSUME NEW S, NEW s \in Seq(S), NEW t \in Seq(S)
  PROVE  ToSet(s \o t) = ToSet(s) \cup ToSet(t)
<1> DEFINE u == s \o t
<1>1. /\ u \in Seq(S)
      /\ DOMAIN s = 1 .. Len(s) /\ DOMAIN t = 1 .. Len(t)
      /\ Len(s) \in Nat /\ Len(t) \in Nat
      /\ Len(u) = Len(s) + Len(t)
      /\ \A i \in 1 .. Len(s) + Len(t) :
           u[i] = IF i <= Len(s) THEN s[i] ELSE t[i - Len(s)]
  BY ConcatProperties, LenProperties
<1>2. DOMAIN u = 1 .. Len(s) + Len(t)
  BY <1>1, LenProperties
<1> HIDE DEF u
<1>3. ASSUME NEW i \in DOMAIN u
      PROVE  u[i] \in ToSet(s) \cup ToSet(t)
  <2>1. CASE i <= Len(s)
    <3>1. i \in DOMAIN s /\ u[i] = s[i]
      BY <1>1, <1>2, <2>1
    <3>2. QED
      BY <3>1 DEF ToSet
  <2>2. CASE ~(i <= Len(s))
    <3>1. i - Len(s) \in DOMAIN t /\ u[i] = t[i - Len(s)]
      BY <1>1, <1>2, <2>2
    <3>2. QED
      BY <3>1 DEF ToSet
  <2>3. QED
    BY <2>1, <2>2
<1>4. ASSUME NEW i \in DOMAIN s
      PROVE  s[i] \in ToSet(u)
  <2>1. i \in DOMAIN u /\ u[i] = s[i]
    BY <1>1, <1>2
  <2>2. QED
    BY <2>1 DEF ToSet
<1>5. ASSUME NEW i \in DOMAIN t
      PROVE  t[i] \in ToSet(u)
  <2>1. /\ i + Len(s) \in DOMAIN u /\ ~(i + Len(s) <= Len(s))
        /\ i + Len(s) - Len(s) = i
    BY <1>1, <1>2
  <2>2. u[i + Len(s)] = t[i]
    BY <1>1, <1>2, <2>1
  <2>3. QED
    BY <2>1, <2>2 DEF ToSet
<1>6. ToSet(u) = ToSet(s) \cup ToSet(t)
  BY <1>3, <1>4, <1>5 DEF ToSet
<1>7. QED
  BY <1>6 DEF u

LEMMA HeadTailRange ==
  ASSUME NEW S, NEW s \in Seq(S), s # <<>>
  PROVE  ToSet(s) = {Head(s)} \cup ToSet(Tail(s))
<1> DEFINE t == Tail(s)
<1>1. /\ t \in Seq(S)
      /\ Len(s) \in Nat \ {0} /\ DOMAIN s = 1 .. Len(s)
      /\ Len(t) = Len(s) - 1
      /\ \A i \in 1 .. Len(t) : t[i] = s[i + 1]
      /\ Head(s) = s[1]
  BY HeadTailProperties, EmptySeq, LenProperties
<1>2. DOMAIN t = 1 .. Len(t)
  BY <1>1, LenProperties
<1> HIDE DEF t
<1>3. ASSUME NEW i \in DOMAIN s
      PROVE  s[i] \in {Head(s)} \cup ToSet(t)
  <2>1. CASE i = 1
    BY <1>1, <2>1
  <2>2. CASE i # 1
    <3>1. i - 1 \in DOMAIN t /\ t[i - 1] = s[i]
      BY <1>1, <1>2, <2>2
    <3>2. QED
      BY <3>1 DEF ToSet
  <2>3. QED
    BY <2>1, <2>2
<1>4. \A i \in DOMAIN t : i + 1 \in DOMAIN s /\ t[i] = s[i + 1]
  BY <1>1, <1>2
<1>5. 1 \in DOMAIN s
  BY <1>1
<1>6. ToSet(s) = {Head(s)} \cup ToSet(t)
  BY <1>1, <1>3, <1>4, <1>5 DEF ToSet
<1>7. QED
  BY <1>6 DEF t

LEMMA FetchPageCovers ==
  ASSUME IngestInv, NEW r \in Runs, CoverInv(r), FetchPage(r)
  PROVE  CoverInv(r)'
<1>1. /\ TypeOK
      /\ page[r] \in Seq(PostIds) /\ source[r] \in Edges
      /\ DOMAIN page = Runs /\ DOMAIN pc = Runs /\ DOMAIN ahead = Runs
      /\ DOMAIN more = Runs
  BY DEF IngestInv, TypeOK
<1>2. PICK items \in Seq(PostIds), again \in BOOLEAN :
        /\ \A i \in 1 .. Len(items) : items[i] \in ItemsOf(source[r])
        /\ again \/ ahead[r] \cap remote \subseteq ToSet(items)
        /\ page' = [page EXCEPT ![r] = @ \o items]
        /\ ahead' = [ahead EXCEPT ![r] = @ \ ToSet(items)]
        /\ more' = [more EXCEPT ![r] = again]
        /\ pc' = [pc EXCEPT ![r] = IF again /\ kind[r] = "thread"
                                   THEN "fetch" ELSE "take"]
  BY <1>1, FetchPageEffect
<1>3. /\ pc[r] = "fetch"
      /\ UNCHANGED <<remote, kind, seen, seeds, frontier, source>>
  BY DEF FetchPage, world
<1>4. /\ pc'[r] \in {"fetch", "take"}
      /\ pc'[r] = "fetch" => again
      /\ ahead'[r] = ahead[r] \ ToSet(items)
      /\ more'[r] = again
      /\ ToSet(page'[r]) = ToSet(page[r]) \cup ToSet(items)
  BY <1>1, <1>2, ConcatRange
<1>5. pc[r] \in Reading /\ pc'[r] \in Reading /\ pc[r] \in Active /\ pc'[r] \in Active
  BY <1>3, <1>4 DEF Reading, Active
<1>6. ASSUME NEW edge, NEW of, Settled(r, edge, of)
      PROVE  Settled(r, edge, of)'
  BY <1>3, <1>5, <1>6, SettledPersists
<1>7. Awaiting(r)'
  <2> SUFFICES ASSUME NEW p \in remote, Fits(source[r].edge, source[r].of, p),
                      p \notin seen[r]
               PROVE  p \in Awaited(r)'
    BY <1>3 DEF Awaiting, Fits
  <2>1. p \in ToSet(page[r]) \cup ahead[r]
    BY <1>3, <1>5 DEF CoverInv, Awaiting, Awaited
  <2>2. CASE p \in ToSet(page'[r])
    BY <2>2 DEF Awaited
  <2>3. CASE p \notin ToSet(page'[r])
    <3>1. p \in ahead[r] \ ToSet(items)
      BY <1>4, <2>1, <2>3
    <3>2. again
      BY <1>2, <3>1
    <3>3. more'[r] /\ p \in ahead'[r]
      BY <1>4, <3>1, <3>2
    <3>4. QED
      BY <3>3 DEF Awaited
  <2>4. QED
    BY <2>2, <2>3
<1>8. Belonging(r)'
  <2> SUFFICES ASSUME source[r].edge = "children", NEW p \in ToSet(items)
               PROVE  TrueParent[p] = source[r].of
    BY <1>3, <1>4 DEF CoverInv, Belonging
  <2>1. PICK i \in DOMAIN items : p = items[i]
    BY DEF ToSet
  <2>2. i \in 1 .. Len(items)
    BY <2>1, LenProperties
  <2>3. p \in ItemsOf(source[r])
    BY <1>2, <2>1, <2>2
  <2>4. QED
    BY <1>1, <2>3, ItemsFit DEF Fits
<1>9. Routed(r)'
  BY <1>3, <1>4 DEF CoverInv, Routed
<1>10. MeCovered(r)'
  BY <1>3, <1>5, <1>6 DEF CoverInv, MeCovered
<1>11. ThreadCovered(r)'
  BY <1>3, <1>5 DEF CoverInv, ThreadCovered
<1>12. EngagementCovered(r)'
  BY <1>3, <1>5, <1>6 DEF CoverInv, EngagementCovered
<1>13. QED
  BY <1>7, <1>8, <1>9, <1>10, <1>11, <1>12 DEF CoverInv

\* A post of a level that is not of the first is a reply to one of a level before.
LEMMA ParentIsOneLevelUp ==
  ASSUME NEW top, NEW lev \in Levels(top), NEW n \in 0 .. MaxDepth,
         NEW p \in lev[n], p \notin top
  PROVE  \E m \in 1 .. n : TrueParent[p] \in lev[m - 1]
<1> DEFINE S == {m \in 0 .. n : p \in lev[m]}
<1>1. n \in Nat /\ MaxDepth \in Nat /\ n <= MaxDepth
  BY IngestAssumption
<1>2. n \in S /\ S \in SUBSET Nat
  BY <1>1
<1> HIDE DEF S
<1>3. PICK m \in S : \A j \in S : m <= j
  BY <1>2, LeastNumber
<1>4. m \in 0 .. n /\ p \in lev[m] /\ lev[0] = top
  BY <1>3 DEF S, Levels
<1>5. m # 0
  BY <1>4
<1>6. m \in 1 .. n /\ m \in 1 .. MaxDepth /\ m - 1 \in 0 .. n
  BY <1>1, <1>4, <1>5
<1>7. p \notin lev[m - 1]
  <2>1. m - 1 \notin S
    BY <1>3, <1>6
  <2>2. QED
    BY <1>6, <2>1 DEF S
<1>8. lev[m] \subseteq lev[m - 1] \cup {q \in PostIds : TrueParent[q] \in lev[m - 1]}
  BY <1>6 DEF Levels
<1>9. QED
  BY <1>4, <1>6, <1>7, <1>8

\* The next post of a page: once it is met, the edge below it is queued.
LEMMA TakeCovers ==
  ASSUME IngestInv, NEW r \in Runs, CoverInv(r), Take(r)
  PROVE  CoverInv(r)'
<1> SUFFICES ASSUME NEW p, p = Head(page[r]),
                    NEW e, e = EdgeOf("children", p, source[r].depth + 1)
             PROVE  CoverInv(r)'
  OBVIOUS
<1>1. /\ TypeOK
      /\ page[r] \in Seq(PostIds) /\ source[r] \in Edges
      /\ frontier[r] \in Seq(Edges)
      /\ DOMAIN page = Runs /\ DOMAIN pc = Runs /\ DOMAIN seen = Runs
      /\ DOMAIN frontier = Runs
  BY DEF IngestInv, TypeOK
<1>2. /\ pc[r] = "take" /\ page[r] # <<>> /\ p \in PostIds
      /\ page'[r] = Tail(page[r])
      /\ pc'[r] \in {"take", "flush"}
      /\ UNCHANGED <<remote, kind, source, ahead, more, seeds>>
      /\ \/ p \in seen[r] /\ seen'[r] = seen[r] /\ frontier'[r] = frontier[r]
         \/ /\ p \notin seen[r]
            /\ seen'[r] = seen[r] \cup {p}
            /\ \/ kind[r] # "engagement" /\ frontier'[r] = frontier[r]
               \/ kind[r] = "engagement" /\ frontier'[r] = Append(frontier[r], e)
  BY <1>1, TakeEffect, ZenonT(30)
<1>3. ToSet(page[r]) = {p} \cup ToSet(page'[r])
  BY <1>1, <1>2, HeadTailRange
<1>4. e \in Edges /\ e.edge = "children" /\ e.of = p /\ e.depth = source[r].depth + 1
  BY <1>1, <1>2 DEF EdgeOf, Edges
<1>5. pc[r] \in Reading /\ pc'[r] \in Reading /\ pc[r] \in Active /\ pc'[r] \in Active
  BY <1>2 DEF Reading, Active
<1>6. CASE frontier'[r] = frontier[r] /\ (kind[r] = "engagement" => seen'[r] = seen[r])
  <2>1. seen[r] \subseteq seen'[r] /\ p \in seen'[r]
    BY <1>2
  <2>2. ASSUME NEW edge, NEW of, Settled(r, edge, of)
        PROVE  Settled(r, edge, of)'
    BY <1>2, <1>5, <1>6, <2>1, <2>2, SettledPersists
  <2>3. Awaiting(r)'
    BY <1>2, <1>3, <1>5, <2>1 DEF CoverInv, Awaiting, Awaited, Fits
  <2>4. Belonging(r)' /\ Routed(r)'
    BY <1>2, <1>3 DEF CoverInv, Belonging, Routed
  <2>5. MeCovered(r)' /\ ThreadCovered(r)'
    BY <1>2, <1>5, <1>6, <2>2 DEF CoverInv, MeCovered, ThreadCovered
  <2>6. EngagementCovered(r)'
    BY <1>2, <1>5, <1>6, <2>2 DEF CoverInv, EngagementCovered
  <2>7. QED
    BY <2>3, <2>4, <2>5, <2>6 DEF CoverInv
<1>7. CASE /\ kind[r] = "engagement" /\ p \notin seen[r]
           /\ seen'[r] = seen[r] \cup {p}
           /\ frontier'[r] = Append(frontier[r], e)
  <2> DEFINE n == Len(frontier[r])
  <2>1. /\ n \in Nat
        /\ Len(frontier'[r]) = n + 1
        /\ \A i \in 1 .. n : frontier'[r][i] = frontier[r][i]
        /\ frontier'[r][n + 1] = e
    BY <1>1, <1>4, <1>7, AppendProperties, LenProperties
  <2> HIDE DEF n
  <2>2. \A i \in 1 .. n : i \in 1 .. Len(frontier'[r]) /\ frontier'[r][i] = frontier[r][i]
    BY <2>1
  <2>3. ASSUME NEW edge, NEW of, Settled(r, edge, of)
        PROVE  Settled(r, edge, of)'
    BY <1>2, <1>5, <1>7, <2>2, <2>3, SettledPersists DEF n
  <2>4. Settled(r, "children", p)'
    <3>1. n + 1 \in 1 .. Len(frontier'[r])
      BY <2>1
    <3>2. frontier'[r][n + 1].edge = "children" /\ frontier'[r][n + 1].of = p
      BY <1>4, <2>1
    <3>3. QED
      BY <3>1, <3>2 DEF Settled
  <2>5. Awaiting(r)'
    BY <1>2, <1>3, <1>5, <1>7 DEF CoverInv, Awaiting, Awaited, Fits
  <2>6. Belonging(r)' /\ Routed(r)'
    BY <1>2, <1>3 DEF CoverInv, Belonging, Routed
  <2>7. MeCovered(r)' /\ ThreadCovered(r)'
    BY <1>2, <1>7 DEF MeCovered, ThreadCovered
  <2>8. EngagementCovered(r)'
    <3> SUFFICES ASSUME NEW lev \in Levels(seeds[r])
                 PROVE  /\ \A i \in 1 .. Len(frontier'[r]) : Shallow(frontier'[r][i], lev)
                        /\ Shallow(source[r], lev)
                        /\ \A m \in 0 .. MaxDepth - 1 : \A q \in lev[m] \cap seen'[r] :
                             Settled(r, "children", q)'
      BY <1>2 DEF EngagementCovered
    <3>1. /\ \A i \in 1 .. n : Shallow(frontier[r][i], lev)
          /\ Shallow(source[r], lev)
          /\ \A m \in 0 .. MaxDepth - 1 : \A q \in lev[m] \cap seen[r] :
               Settled(r, "children", q)
      BY <1>5, <1>7 DEF CoverInv, EngagementCovered, n
    <3>2. Shallow(e, lev)
      <4> SUFFICES ASSUME NEW m \in 0 .. MaxDepth, p \in lev[m]
                   PROVE  e.depth <= m
        BY <1>4 DEF Shallow
      <4>1. p \notin seeds[r]
        BY <1>7 DEF IngestInv, RunInv, Counted
      <4>2. PICK k \in 1 .. m : TrueParent[p] \in lev[k - 1]
        BY <4>1, ParentIsOneLevelUp
      <4>3. TrueParent[p] = source[r].of
        BY <1>3, <3>1 DEF CoverInv, Belonging, Shallow
      <4>4. MaxDepth \in Nat /\ source[r].depth \in Nat
        BY <1>1, IngestAssumption DEF Edges
      <4>5. k - 1 \in 0 .. MaxDepth
        BY <4>4
      <4>6. source[r].depth <= k - 1
        BY <3>1, <4>2, <4>3, <4>5 DEF Shallow
      <4>7. QED
        BY <1>4, <4>4, <4>6
    <3>3. \A i \in 1 .. Len(frontier'[r]) : Shallow(frontier'[r][i], lev)
      <4> TAKE i \in 1 .. Len(frontier'[r])
      <4>1. i \in 1 .. n \/ i = n + 1
        BY <2>1
      <4>2. QED
        BY <2>1, <3>1, <3>2, <4>1
    <3>4. QED
      BY <1>7, <2>3, <2>4, <3>1, <3>3
  <2>9. QED
    BY <2>5, <2>6, <2>7, <2>8 DEF CoverInv
<1>8. QED
  BY <1>2, <1>6, <1>7

\* The page is done.  After the last one, the edge has nothing new.
LEMMA TurnCovers ==
  ASSUME IngestInv, NEW r \in Runs, CoverInv(r), Turn(r)
  PROVE  CoverInv(r)'
<1>1. /\ pc[r] = "take" /\ page[r] = <<>>
      /\ pc'[r] = IF more[r] THEN "fetch" ELSE "next"
      /\ UNCHANGED <<remote, kind, seen, frontier, source, ahead, more, page, seeds>>
  BY DEF Turn, Goto, world, run, IngestInv, TypeOK
<1>2. pc[r] \in Reading /\ pc[r] \in Active /\ pc'[r] \in Active
  BY <1>1 DEF Reading, Active
<1>3. ToSet(page[r]) = {}
  BY <1>1 DEF ToSet
<1>4. CASE more[r]
  <2>1. pc'[r] \in Reading
    BY <1>1, <1>4 DEF Reading
  <2>2. ASSUME NEW edge, NEW of, Settled(r, edge, of)
        PROVE  Settled(r, edge, of)'
    BY <1>1, <2>1, <2>2 DEF Settled, Fits
  <2>3. Awaiting(r)'
    BY <1>1, <1>2, <1>4 DEF CoverInv, Awaiting, Awaited, Fits
  <2>4. Belonging(r)' /\ Routed(r)'
    BY <1>1, <1>4 DEF CoverInv, Belonging, Routed
  <2>5. MeCovered(r)' /\ ThreadCovered(r)'
    BY <1>1, <1>2, <2>1, <2>2 DEF CoverInv, MeCovered, ThreadCovered
  <2>6. EngagementCovered(r)'
    BY <1>1, <1>2, <2>1, <2>2 DEF CoverInv, EngagementCovered
  <2>7. QED
    BY <2>3, <2>4, <2>5, <2>6 DEF CoverInv
<1>5. CASE ~more[r]
  <2>1. pc'[r] = "next" /\ pc'[r] \notin Reading
    BY <1>1, <1>5 DEF Reading
  <2>2. \A p \in remote : Fits(source[r].edge, source[r].of, p) => p \in seen[r]
    BY <1>1, <1>2, <1>3, <1>5 DEF CoverInv, Awaiting, Awaited
  <2>3. ASSUME NEW edge, NEW of, Settled(r, edge, of)
        PROVE  Settled(r, edge, of)'
    BY <1>1, <2>2, <2>3 DEF Settled, Fits
  <2>4. Awaiting(r)' /\ Belonging(r)' /\ Routed(r)'
    BY <1>1, <2>1 DEF CoverInv, Awaiting, Belonging, Routed
  <2>5. MeCovered(r)'
    BY <1>1, <1>2, <2>3 DEF CoverInv, MeCovered
  <2>6. ThreadCovered(r)'
    BY <1>1, <1>2, <2>2 DEF CoverInv, ThreadCovered, Fits
  <2>7. EngagementCovered(r)'
    BY <1>1, <1>2, <2>1, <2>3 DEF CoverInv, EngagementCovered
  <2>8. QED
    BY <2>4, <2>5, <2>6, <2>7 DEF CoverInv
<1>6. QED
  BY <1>4, <1>5

\* Writing the batch is no part of the search.
LEMMA FlushCovers ==
  ASSUME IngestInv, NEW r \in Runs, CoverInv(r), Flush(r)
  PROVE  CoverInv(r)'
<1>1. /\ \/ pc[r] = "flush" /\ pc'[r] = "take"
         \/ pc[r] = "next" /\ pc'[r] = "next"
      /\ UNCHANGED <<remote, kind, seen, frontier, source, ahead, more, page, seeds>>
  BY DEF Flush, Goto, world, IngestInv, TypeOK
<1>2. /\ pc[r] \in Active /\ pc'[r] \in Active
      /\ pc[r] \in Reading <=> pc'[r] \in Reading
      /\ pc[r] = "next" <=> pc'[r] = "next"
      /\ pc[r] # "fetch" /\ pc'[r] \notin {"me", "resolve", "seeds"}
  BY <1>1 DEF Reading, Active
<1>3. ASSUME NEW edge, NEW of, Settled(r, edge, of)
      PROVE  Settled(r, edge, of)'
  BY <1>1, <1>2, <1>3 DEF Settled, Fits
<1>4. Awaiting(r)' /\ Belonging(r)' /\ Routed(r)'
  BY <1>1, <1>2 DEF CoverInv, Awaiting, Awaited, Belonging, Routed, Fits
<1>5. MeCovered(r)'
  BY <1>1, <1>2, <1>3 DEF CoverInv, MeCovered
<1>6. ThreadCovered(r)'
  BY <1>1, <1>2 DEF CoverInv, ThreadCovered, Fits
<1>7. EngagementCovered(r)'
  BY <1>1, <1>2, <1>3 DEF CoverInv, EngagementCovered
<1>8. QED
  BY <1>4, <1>5, <1>6, <1>7 DEF CoverInv

LEMMA NextKeepsCover ==
  ASSUME IngestInv, \A r \in Runs : CoverInv(r), [Next]_vars
  PROVE  \A r \in Runs : CoverInv(r)'
<1> DEFINE Kept == \A r \in Runs : CoverInv(r)'
<1>1. /\ DOMAIN pc = Runs /\ DOMAIN kind = Runs /\ DOMAIN more = Runs
      /\ DOMAIN seen = Runs /\ DOMAIN seeds = Runs /\ DOMAIN ahead = Runs
      /\ DOMAIN frontier = Runs /\ DOMAIN source = Runs /\ DOMAIN page = Runs
  BY DEF IngestInv, TypeOK
<1>2. ASSUME NEW r \in Runs, CoverInv(r)', remote' = remote,
             \A q \in Runs \ {r} : SameSearch(q)
      PROVE  Kept
  <2>1. \A q \in Runs \ {r} : CoverInv(q)'
    BY <1>2, OthersStayCovered
  <2>2. QED
    BY <1>2, <2>1
<1>3. CASE remote' \subseteq remote
           /\ UNCHANGED <<pc, kind, more, seen, seeds, ahead, frontier, source, page>>
  <2>1. \A q \in Runs : SameSearch(q)
    BY <1>3 DEF SameSearch
  <2>2. QED
    BY <1>3, <2>1, OthersStayCovered
<1>4. ASSUME NEW r \in Runs, NEW k \in Kinds, NEW top \in OptionOf(PostIds),
             Start(r, k, top)
      PROVE  Kept
  <2>1. remote' = remote /\ \A q \in Runs \ {r} : SameSearch(q)
    BY <1>1, <1>4 DEF Start, Goto, SameSearch, world
  <2>2. QED
    BY <1>2, <1>4, <2>1, StartCovers
<1>5. ASSUME NEW r \in Runs, ResolveMe(r)
      PROVE  Kept
  <2>1. remote' = remote /\ \A q \in Runs \ {r} : SameSearch(q)
    BY <1>1, <1>5 DEF ResolveMe, Goto, SameSearch, world
  <2>2. QED
    BY <1>2, <1>5, <2>1, ResolveMeCovers
<1>6. ASSUME NEW r \in Runs, ReadSeeds(r)
      PROVE  Kept
  <2>1. remote' = remote /\ \A q \in Runs \ {r} : SameSearch(q)
    BY <1>1, <1>6 DEF ReadSeeds, Goto, SameSearch, world
  <2>2. QED
    BY <1>2, <1>6, <2>1, ReadSeedsCovers
<1>7. ASSUME NEW r \in Runs, Open(r)
      PROVE  Kept
  <2>1. remote' = remote /\ \A q \in Runs \ {r} : SameSearch(q)
    BY <1>1, <1>7 DEF Open, Goto, SameSearch, world
  <2>2. QED
    BY <1>2, <1>7, <2>1, OpenCovers
<1>8. ASSUME NEW r \in Runs, FetchPage(r)
      PROVE  Kept
  <2>1. remote' = remote /\ \A q \in Runs \ {r} : SameSearch(q)
    BY <1>1, <1>8 DEF FetchPage, Goto, SameSearch, world
  <2>2. QED
    BY <1>2, <1>8, <2>1, FetchPageCovers
<1>9. ASSUME NEW r \in Runs, Take(r)
      PROVE  Kept
  <2>1. remote' = remote /\ \A q \in Runs \ {r} : SameSearch(q)
    BY <1>1, <1>9 DEF Take, Keep, Goto, SameSearch, world
  <2>2. QED
    BY <1>2, <1>9, <2>1, TakeCovers
<1>10. ASSUME NEW r \in Runs, Turn(r)
       PROVE  Kept
  <2>1. remote' = remote /\ \A q \in Runs \ {r} : SameSearch(q)
    BY <1>1, <1>10 DEF Turn, Goto, SameSearch, world, run
  <2>2. QED
    BY <1>2, <1>10, <2>1, TurnCovers
<1>11. ASSUME NEW r \in Runs, Flush(r)
       PROVE  Kept
  <2>1. remote' = remote /\ \A q \in Runs \ {r} : SameSearch(q)
    BY <1>1, <1>11 DEF Flush, Goto, SameSearch, world
  <2>2. QED
    BY <1>2, <1>11, <2>1, FlushCovers
<1>12. ASSUME NEW r \in Runs,
              RecordMe(r) \/ Finish(r) \/ FinishFailed(r) \/ Fail(r) \/ Kill(r)
       PROVE  Kept
  <2>1. /\ remote' = remote
        /\ \A q \in Runs \ {r} : SameSearch(q)
        /\ UNCHANGED <<source, page, kind>>
        /\ \/ pc[r] = "me" /\ pc'[r] = "resolve"
           \/ pc'[r] \in {"done", "failed", "killed"}
    BY <1>1, <1>12
       DEF RecordMe, Finish, FinishFailed, Fail, Kill, Goto, SameSearch, store, world, run
  <2>2. pc'[r] \notin Active /\ pc'[r] # "seeds"
    BY <2>1 DEF Active, Reading
  <2>3. kind[r] = "thread" => pc'[r] \notin {"me", "resolve", "seeds"}
    BY <2>1 DEF CoverInv, Routed
  <2>4. CoverInv(r)'
    BY <2>1, <2>2, <2>3, IdleRunsOweNothing
  <2>5. QED
    BY <1>2, <2>1, <2>4
<1>13. ASSUME NEW p \in PostIds,
              (\E back \in BOOLEAN : Publish(p, back)) \/ Vanish(p) \/ Erase(p)
       PROVE  Kept
  BY <1>3, <1>13 DEF Publish, Vanish, Erase, store, run
<1>14. CASE UNCHANGED vars
  BY <1>3, <1>14 DEF vars, world, run
<1>15. QED
  BY <1>4, <1>5, <1>6, <1>7, <1>8, <1>9, <1>10, <1>11, <1>12, <1>13, <1>14
     DEF Next, Step, Quiet

LEMMA CoverInvariant == Spec => [](IngestInv /\ \A r \in Runs : CoverInv(r))
<1> DEFINE Inv == IngestInv /\ \A r \in Runs : CoverInv(r)
<1>1. Init => Inv
  <2> SUFFICES ASSUME Init, NEW r \in Runs
               PROVE  CoverInv(r)
    BY InitTables, InitType, InitRuns DEF IngestInv
  <2>1. /\ pc[r] = "idle" /\ pc[r] \notin Active /\ pc[r] \notin Reading
        /\ source[r].edge = "threads"
    BY DEF Init, Active, Reading, EdgeOf
  <2>2. QED
    BY <2>1 DEF CoverInv, Awaiting, Belonging, Routed, MeCovered, ThreadCovered,
                EngagementCovered
<1>2. Inv /\ [Next]_vars => Inv'
  BY NextKeepsTables, NextKeepsType, NextKeepsRuns, NextKeepsCover DEF IngestInv
<1>3. QED
  BY <1>1, <1>2, PTL DEF Spec

-----------------------------------------------------------------------------
(* The replies below a set of posts *)

IsDescent(h, n, top) ==
  h = [i \in 0 .. n |->
         IF i = 0 THEN top
         ELSE h[i - 1] \cup {p \in remote : TrueParent[p] \in h[i - 1]}]

LEMMA DescentExists ==
  ASSUME NEW n \in Nat, NEW top
  PROVE  \E h : IsDescent(h, n, top)
<1> DEFINE S == {i \in Nat : ~ \E h : IsDescent(h, i, top)}
<1>1. SUFFICES ASSUME S # {}
               PROVE  FALSE
  OBVIOUS
<1>2. PICK i \in S : \A j \in S : i <= j
  BY <1>1, LeastNumber
<1>3. i # 0
  <2>1. IsDescent([j \in 0 .. 0 |-> top], 0, top)
    BY DEF IsDescent
  <2>2. QED
    BY <2>1, <1>2
<1>4. i - 1 \in Nat /\ i - 1 \notin S /\ i \in Nat
  BY <1>2, <1>3
<1>5. PICK h : IsDescent(h, i - 1, top)
  BY <1>4
<1> DEFINE next == h[i - 1] \cup {p \in remote : TrueParent[p] \in h[i - 1]}
           g == [j \in 0 .. i |-> IF j = i THEN next ELSE h[j]]
<1>6. ASSUME NEW j \in 0 .. i
      PROVE  g[j] = IF j = 0 THEN top
                    ELSE g[j - 1] \cup {p \in remote : TrueParent[p] \in g[j - 1]}
  <2>1. CASE j = i
    <3>1. g[j] = next /\ g[j - 1] = h[i - 1]
      BY <2>1, <1>3, <1>4
    <3>2. QED
      BY <2>1, <3>1, <1>3
  <2>2. CASE j # i
    <3>1. j \in 0 .. i - 1
      BY <2>2, <1>4
    <3>2. h[j] = IF j = 0 THEN top
                 ELSE h[j - 1] \cup {p \in remote : TrueParent[p] \in h[j - 1]}
      BY <3>1, <1>5 DEF IsDescent
    <3>3. g[j] = h[j] /\ (j # 0 => g[j - 1] = h[j - 1])
      BY <2>2, <3>1, <1>4
    <3>4. QED
      BY <3>2, <3>3
  <2>3. QED
    BY <2>1, <2>2
<1>7. IsDescent(g, i, top)
  <2>1. g = [j \in 0 .. i |->
               IF j = 0 THEN top
               ELSE g[j - 1] \cup {p \in remote : TrueParent[p] \in g[j - 1]}]
    BY <1>6
  <2>2. QED
    BY <2>1 DEF IsDescent
<1>8. QED
  BY <1>2, <1>7

LEMMA DescentLevels ==
  ASSUME NEW n \in Nat, NEW top, NEW h, IsDescent(h, n, top)
  PROVE  /\ h[0] = top
         /\ \A i \in 1 .. n :
              h[i] = h[i - 1] \cup {p \in remote : TrueParent[p] \in h[i - 1]}
<1> DEFINE next(i) == h[i - 1] \cup {p \in remote : TrueParent[p] \in h[i - 1]}
<1>1. h = [i \in 0 .. n |-> IF i = 0 THEN top ELSE next(i)]
  BY DEF IsDescent
<1> HIDE DEF next
<1>2. h[0] = top /\ \A i \in 1 .. n : h[i] = next(i)
  BY <1>1
<1>3. QED
  BY <1>2 DEF next

\* A set that holds the first level, and the replies of every level it holds,
\* holds all the levels.
LEMMA DescentStaysInside ==
  ASSUME NEW n \in Nat, NEW top, NEW h, IsDescent(h, n, top), NEW K, top \subseteq K,
         \A i \in 1 .. n : \A p \in remote : TrueParent[p] \in h[i - 1] \cap K => p \in K
  PROVE  \A i \in 0 .. n : h[i] \subseteq K
<1> DEFINE S == {i \in 0 .. n : ~(h[i] \subseteq K)}
<1>1. /\ h[0] = top
      /\ \A i \in 1 .. n :
           h[i] = h[i - 1] \cup {p \in remote : TrueParent[p] \in h[i - 1]}
  BY DescentLevels
<1>2. SUFFICES ASSUME S # {}
               PROVE  FALSE
  OBVIOUS
<1>3. S \in SUBSET Nat
  OBVIOUS
<1>4. PICK i \in S : \A j \in S : i <= j
  <2> HIDE DEF S
  <2>1. QED
    BY <1>2, <1>3, LeastNumber
<1>5. i # 0
  BY <1>1, <1>4
<1>6. i \in 1 .. n /\ i - 1 \in 0 .. n /\ i - 1 \notin S
  BY <1>4, <1>5
<1>7. h[i - 1] \subseteq K
  BY <1>6
<1>8. h[i] = h[i - 1] \cup {p \in remote : TrueParent[p] \in h[i - 1]}
  BY <1>1, <1>5, <1>6
<1>9. h[i] \subseteq K
  BY <1>6, <1>7, <1>8
<1>10. QED
  BY <1>4, <1>9

LEMMA DescentGrows ==
  ASSUME NEW n \in Nat, NEW top, NEW h, IsDescent(h, n, top)
  PROVE  \A i \in 0 .. n : h[i] \subseteq h[n]
<1> DEFINE S == {j \in 0 .. n : ~(h[n - j] \subseteq h[n])}
<1>1. \A i \in 1 .. n : h[i - 1] \subseteq h[i]
  BY DescentLevels
<1>2. S = {}
  <2> SUFFICES ASSUME S # {}
               PROVE  FALSE
    OBVIOUS
  <2>1. PICK j \in S : \A k \in S : j <= k
    <3>1. S \in SUBSET Nat
      OBVIOUS
    <3> HIDE DEF S
    <3>2. QED
      BY <3>1, LeastNumber
  <2>2. j # 0
    BY <2>1
  <2>3. j \in 1 .. n /\ j - 1 \in 0 .. n /\ j - 1 \notin S
    BY <2>1, <2>2
  <2>4. h[n - (j - 1)] \subseteq h[n]
    BY <2>3
  <2>5. n - (j - 1) \in 1 .. n /\ (n - (j - 1)) - 1 = n - j
    BY <2>3
  <2>6. h[n - j] \subseteq h[n - (j - 1)]
    BY <1>1, <2>5
  <2>7. QED
    BY <2>1, <2>4, <2>6
<1>3. ASSUME NEW i \in 0 .. n
      PROVE  h[i] \subseteq h[n]
  <2>1. n - i \in 0 .. n /\ n - (n - i) = i
    OBVIOUS
  <2>2. n - i \notin S
    BY <1>2
  <2>3. QED
    BY <2>1, <2>2
<1>4. QED
  BY <1>3

\* Nothing is queued or read any more: all the levels were met.
LEMMA NothingBelowIsMissed ==
  ASSUME IngestInv, NEW r \in Runs, EngagementCovered(r),
         kind[r] = "engagement", pc[r] = "next", frontier[r] = <<>>
  PROVE  Below(seeds[r], MaxDepth) \subseteq seen[r]
<1> DEFINE h == CHOOSE h : IsDescent(h, MaxDepth, seeds[r])
<1>1. /\ MaxDepth \in Nat
      /\ seeds[r] \subseteq seen[r]
      /\ seeds[r] \subseteq PostIds /\ remote \subseteq PostIds
  BY IngestAssumption DEF IngestInv, TypeOK, RunInv, Counted
<1>2. IsDescent(h, MaxDepth, seeds[r])
  BY <1>1, DescentExists
<1>3. Below(seeds[r], MaxDepth) = h[MaxDepth]
  BY DEF Below, IsDescent
<1> HIDE DEF h
<1>4. /\ h[0] = seeds[r]
      /\ \A i \in 1 .. MaxDepth :
           h[i] = h[i - 1] \cup {p \in remote : TrueParent[p] \in h[i - 1]}
  BY <1>1, <1>2, DescentLevels
<1>5. \A i \in 0 .. MaxDepth : h[i] \subseteq PostIds
  <2>1. \A i \in 1 .. MaxDepth : \A p \in remote :
          TrueParent[p] \in h[i - 1] \cap PostIds => p \in PostIds
    BY <1>1
  <2>2. QED
    BY <1>1, <1>2, <2>1, DescentStaysInside
<1>6. h \in Levels(seeds[r])
  <2>1. h \in [0 .. MaxDepth -> SUBSET PostIds]
    <3>1. h = [i \in DOMAIN h |-> h[i]] /\ DOMAIN h = 0 .. MaxDepth
      BY <1>2, Zenon DEF IsDescent
    <3>2. \A i \in 0 .. MaxDepth : h[i] \in SUBSET PostIds
      BY <1>5
    <3>3. QED
      BY <3>1, <3>2, Zenon
  <2>2. \A i \in 1 .. MaxDepth :
          h[i] \subseteq h[i - 1] \cup {p \in PostIds : TrueParent[p] \in h[i - 1]}
    BY <1>1, <1>4
  <2>3. QED
    BY <1>4, <2>1, <2>2 DEF Levels
<1>7. ASSUME NEW i \in 1 .. MaxDepth, NEW p \in remote,
             TrueParent[p] \in h[i - 1] \cap seen[r]
      PROVE  p \in seen[r]
  <2>1. i - 1 \in 0 .. MaxDepth - 1
    BY <1>1
  <2>2. pc[r] \in Active /\ pc[r] \notin Reading
    BY DEF Active, Reading
  <2>3. Settled(r, "children", TrueParent[p])
    BY <1>6, <1>7, <2>1, <2>2 DEF EngagementCovered
  <2>4. ~ \E j \in 1 .. Len(frontier[r]) : TRUE
    OBVIOUS
  <2>5. QED
    BY <2>2, <2>3, <2>4 DEF Settled, Fits
<1>8. \A i \in 0 .. MaxDepth : h[i] \subseteq seen[r]
  BY <1>1, <1>2, <1>7, DescentStaysInside
<1>9. QED
  BY <1>1, <1>3, <1>8

\* A run that ends without an error has written, or started from, every post of
\* mine, of the conversation, or of the reply trees below my posts to the depth
\* asked for, that the service still has: whatever its pages repeat or leave out,
\* whatever vanishes meanwhile, and whatever the other runs do.
THEOREM CompleteRunsAreComplete == Spec => CompleteRunsMissNothing
<1>1. ASSUME IngestInv, NEW r \in Runs, CoverInv(r), Finish(r)
      PROVE  Wanted(r) \subseteq stored[r] \cup seeds[r]
  <2>1. /\ pc[r] = "next" /\ frontier[r] = <<>> /\ batch[r] = <<>>
        /\ source[r] \in Edges
        /\ kind[r] \in {"me", "engagement", "thread"}
        /\ pc[r] \in Active /\ pc[r] \notin Reading
    BY <1>1 DEF Finish, Active, Reading, IngestInv, TypeOK
  <2>2. Ids(batch[r]) = {}
    BY <2>1 DEF Ids
  <2>3. seen[r] \subseteq stored[r] \cup seeds[r]
    BY <1>1, <2>2 DEF IngestInv, RunInv, Counted
  <2>4. ~ \E j \in 1 .. Len(frontier[r]) : TRUE
    BY <2>1
  <2>5. CASE kind[r] = "me"
    <3>1. /\ \A p \in remote : Fits("threads", None, p) => p \in seen[r]
          /\ \A p \in remote : Fits("replies", None, p) => p \in seen[r]
      BY <1>1, <2>1, <2>4, <2>5 DEF CoverInv, MeCovered, Settled
    <3>2. \A p \in remote : TrueAuthor[p] = Me => p \in seen[r]
      BY <3>1 DEF Fits
    <3>3. QED
      BY <2>3, <2>5, <3>2 DEF Wanted
  <2>6. CASE kind[r] = "engagement"
    <3>1. Below(seeds[r], MaxDepth) \subseteq seen[r]
      BY <1>1, <2>1, <2>6, NothingBelowIsMissed DEF CoverInv
    <3>2. QED
      BY <2>3, <2>6, <3>1 DEF Wanted
  <2>7. CASE kind[r] = "thread"
    <3>1. \A p \in remote : Fits(source[r].edge, source[r].of, p) => p \in seen[r]
      BY <1>1, <2>1, <2>7 DEF CoverInv, ThreadCovered
    <3>2. ItemsOf(source[r]) \subseteq seen[r]
      BY <2>1, <3>1, ItemsFit
    <3>3. QED
      BY <2>3, <2>7, <3>2 DEF Wanted
  <2>8. QED
    BY <2>1, <2>5, <2>6, <2>7
<1>2. IngestInv /\ (\A r \in Runs : CoverInv(r))
        => [\A r \in Runs : Finish(r) => Wanted(r) \subseteq stored[r] \cup seeds[r]]_vars
  BY <1>1
<1>3. QED
  BY <1>2, CoverInvariant, PTL DEF CompleteRunsMissNothing

-----------------------------------------------------------------------------
(* What is written hangs together                                          *)
(*                                                                         *)
(* A batch says of each reply what it replies to; the write of a post      *)
(* keeps the edges that lead to it, and the parents of the other posts.    *)

Tied(p, post) == TrueParent[p] # None => post.parent = TrueParent[p]

ReplyEdge(p) == [from |-> p, to |-> TrueParent[p], kind |-> "reply"]

Hangs(t, written, gone) ==
  \A p \in written \cap Stored(t) :
    TrueParent[p] # None =>
      /\ t.posts[p].parent = TrueParent[p]
      /\ ReplyEdge(p) \in t.edges \/ TrueParent[p] \in gone

\* The write of a post leaves the others hanging ...
LEMMA OtherPostsHang ==
  ASSUME NEW t, Good(t), NEW p \in PostIds, NEW fetched \in Post,
         NEW written, NEW gone, Hangs(t, written, gone)
  PROVE  Hangs(Upsert(t, p, fetched), written \ {p}, gone)
<1> DEFINE post == Effective(t, p, fetched)
           u == Upsert(t, p, fetched)
           resolves == ~IsHandle(post.author) /\ post.name # None
<1>1. t \in Tables /\ Joined(t)
  BY DEF Good
<1>2. /\ Stored(u) = Stored(t) \cup {p}
      /\ u.edges = {e \in t.edges : e.from # p} \cup EdgesOf(p, post)
      /\ \A q \in Stored(t) \ {p} :
           u.posts[q] = IF resolves /\ t.posts[q].author = At(post.name)
                        THEN [t.posts[q] EXCEPT !.author = post.author]
                        ELSE t.posts[q]
  BY <1>1, UpsertEffect
<1> HIDE DEF post, u, resolves
<1>3. ASSUME NEW q \in (written \cap Stored(t)) \ {p}, TrueParent[q] # None
      PROVE  /\ u.posts[q].parent = TrueParent[q]
             /\ ReplyEdge(q) \in u.edges \/ TrueParent[q] \in gone
  <2>1. /\ t.posts[q].parent = TrueParent[q]
        /\ ReplyEdge(q) \in t.edges \/ TrueParent[q] \in gone
        /\ t.posts[q] \in Row
    BY <1>1, <1>3, TablesFields DEF Hangs
  <2>2. u.posts[q].parent = t.posts[q].parent
    <3>1. [t.posts[q] EXCEPT !.author = post.author].parent = t.posts[q].parent
      BY <2>1 DEF Row
    <3>2. QED
      BY <1>2, <1>3, <3>1
  <2>3. ReplyEdge(q).from # p
    BY <1>3 DEF ReplyEdge
  <2>4. QED
    BY <1>2, <2>1, <2>2, <2>3
<1>4. Hangs(u, written \ {p}, gone)
  BY <1>2, <1>3 DEF Hangs
<1>5. QED
  BY <1>4 DEF u

\* ... and the post itself, when what is written says what it replies to.
LEMMA UpsertHangs ==
  ASSUME NEW t, Good(t), NEW p \in PostIds, NEW fetched \in Post, Tied(p, fetched),
         NEW written, NEW gone, Hangs(t, written, gone)
  PROVE  Hangs(Upsert(t, p, fetched), written \cup {p}, gone)
<1> DEFINE post == Effective(t, p, fetched)
           u == Upsert(t, p, fetched)
<1>1. t \in Tables /\ Joined(t)
  BY DEF Good
<1>2. /\ u.posts[p] = RowOf(post)
      /\ u.edges = {e \in t.edges : e.from # p} \cup EdgesOf(p, post)
  BY <1>1, UpsertEffect
<1>3. fetched.parent # None => post.parent = fetched.parent
  BY DEF Effective, Merge, OrElse
<1>4. Hangs(u, written \ {p}, gone)
  BY OtherPostsHang
<1> HIDE DEF post, u
<1>5. TrueParent[p] # None => /\ u.posts[p].parent = TrueParent[p]
                              /\ ReplyEdge(p) \in u.edges
  <2> SUFFICES ASSUME TrueParent[p] # None
               PROVE  /\ u.posts[p].parent = TrueParent[p]
                      /\ ReplyEdge(p) \in u.edges
    OBVIOUS
  <2>1. post.parent = TrueParent[p]
    BY <1>3 DEF Tied
  <2>2. ReplyEdge(p) \in EdgesOf(p, post)
    BY <2>1 DEF ReplyEdge, EdgesOf
  <2>3. QED
    BY <1>2, <2>1, <2>2 DEF RowOf
<1>6. Hangs(u, written \cup {p}, gone)
  BY <1>4, <1>5 DEF Hangs
<1>7. QED
  BY <1>6 DEF u

\* A batch hangs together with what was written before.
LEMMA UpsertAllHangs ==
  ASSUME NEW t, Good(t), NEW posts \in Seq(Written),
         \A i \in 1 .. Len(posts) : /\ Signed(posts[i].id, posts[i].post)
                                    /\ Tied(posts[i].id, posts[i].post),
         NEW written, NEW gone, Hangs(t, written, gone)
  PROVE  Hangs(UpsertAll(t, posts), written \cup Ids(posts), gone)
<1> DEFINE n == Len(posts)
           h == CHOOSE h : IsHistory(h, n, t, posts)
           IdsTo(i) == {posts[j].id : j \in 1 .. i}
           Right(i) == Good(h[i]) /\ Hangs(h[i], written \cup IdsTo(i), gone)
           S == {i \in 0 .. n : ~Right(i)}
<1>1. n \in Nat /\ DOMAIN posts = 1 .. n
  BY LenProperties
<1>2. IsHistory(h, n, t, posts)
  BY <1>1, HistoryExists
<1>3. UpsertAll(t, posts) = h[n]
  BY DEF UpsertAll, IsHistory
<1> HIDE DEF h
<1>4. /\ h[0] = t
      /\ \A i \in 1 .. n : h[i] = Upsert(h[i - 1], posts[i].id, posts[i].post)
  <2> HIDE DEF n
  <2>1. \A i \in 0 .. n : h[i] = IF i = 0 THEN t
                          ELSE Upsert(h[i - 1], posts[i].id, posts[i].post)
    BY <1>2 DEF IsHistory
  <2>2. QED
    BY <2>1, <1>1
<1> HIDE DEF n
<1>5. Right(0)
  <2>1. IdsTo(0) = {}
    OBVIOUS
  <2>2. written \cup {} = written
    OBVIOUS
  <2>3. QED
    BY <1>4, <2>1, <2>2
<1>6. ASSUME NEW i \in 1 .. n, Right(i - 1)
      PROVE  Right(i)
  <2>1. posts[i] \in Written
    BY <1>1, ElementOfSeq DEF n
  <2>2. posts[i].id \in PostIds /\ posts[i].post \in Post
    BY <2>1 DEF Written
  <2>3. Signed(posts[i].id, posts[i].post) /\ Tied(posts[i].id, posts[i].post)
    BY DEF n
  <2>4. Good(h[i])
    BY <1>4, <1>6, <2>2, <2>3, UpsertKeepsGood
  <2> DEFINE before == written \cup IdsTo(i - 1)
  <2>5. Hangs(h[i - 1], before, gone) /\ Good(h[i - 1])
    BY <1>6
  <2>6. before \cup {posts[i].id} = written \cup IdsTo(i)
    <3>1. 1 .. i = (1 .. i - 1) \cup {i}
      BY <1>1
    <3>2. QED
      BY <3>1
  <2> HIDE DEF before, IdsTo
  <2>7. Hangs(h[i], before \cup {posts[i].id}, gone)
    BY <1>4, <2>2, <2>3, <2>5, UpsertHangs
  <2>8. QED
    BY <2>4, <2>6, <2>7
<1> HIDE DEF Right
<1>7. S = {}
  <2> SUFFICES ASSUME S # {}
               PROVE  FALSE
    OBVIOUS
  <2>1. PICK i \in S : \A j \in S : i <= j
    <3>1. S \in SUBSET Nat
      BY <1>1
    <3> HIDE DEF S
    <3>2. QED
      BY <3>1, LeastNumber
  <2>2. i # 0
    BY <2>1, <1>5
  <2>3. i \in 1 .. n /\ i - 1 \in 0 .. n /\ i - 1 \notin S
    BY <2>1, <2>2, <1>1
  <2>4. QED
    BY <2>1, <2>3, <1>6
<1>8. Right(n)
  BY <1>7, <1>1
<1>9. IdsTo(n) = Ids(posts)
  BY <1>1 DEF Ids
<1>10. QED
  BY <1>3, <1>8, <1>9 DEF Right

AllWritten == UNION {stored[r] : r \in Runs}

\* What no publish has unlinked since.
Linking == AllWritten \ unlinked

LEMMA NextKeepsHangs ==
  ASSUME IngestInv, [Next]_vars, Hangs(db, Linking, erased),
         \A r \in Runs : \A i \in 1 .. Len(batch[r]) :
           Tied(batch[r][i].id, batch[r][i].post)
  PROVE  Hangs(db, Linking, erased)'
<1> DEFINE Kept == Hangs(db', Linking', erased')
<1>0. Good(db) /\ db \in Tables
  BY DEF IngestInv, Good
<1>1. CASE UNCHANGED <<db, erased, unlinked, stored>>
  BY <1>1 DEF Linking, AllWritten
<1>2. ASSUME NEW t, Stored(t) = Stored(db), t.edges = db.edges,
             \A p \in Stored(db) : t.posts[p].parent = db.posts[p].parent,
             db' = t, UNCHANGED <<erased, unlinked, stored>>
      PROVE  Kept
  BY <1>2 DEF Hangs, Linking, AllWritten
<1>3. ASSUME NEW r \in Runs, RecordMe(r)
      PROVE  Kept
  <2> DEFINE t == UpsertUser(db, Me, HandleOf[Me])
  <2>1. db' = t /\ UNCHANGED <<erased, unlinked, stored>>
    BY <1>3 DEF RecordMe, world, run
  <2>2. Stored(t) = Stored(db)
    BY <1>0, RecordMeKeepsGood
  <2>3. t.posts = db.posts /\ t.edges = db.edges
    BY <1>0, TablesFields DEF UpsertUser
  <2> HIDE DEF t
  <2>4. QED
    BY <1>2, <2>1, <2>2, <2>3
<1>4. ASSUME NEW r \in Runs, ResolveMe(r)
      PROVE  Kept
  <2> DEFINE t == Reconcile(db, HandleOf[Me], Me)
  <2>1. db' = t /\ UNCHANGED <<erased, unlinked, stored>>
    BY <1>4 DEF ResolveMe, world
  <2>2. /\ Stored(t) = Stored(db) /\ t.edges = db.edges
        /\ \A p \in Stored(db) :
             t.posts[p] = IF db.posts[p].author = At(HandleOf[Me])
                          THEN [db.posts[p] EXCEPT !.author = Me]
                          ELSE db.posts[p]
    BY <1>0, ResolveMeEffect
  <2> HIDE DEF t
  <2>3. ASSUME NEW p \in Stored(db)
        PROVE  t.posts[p].parent = db.posts[p].parent
    <3>1. db.posts[p] \in Row
      BY <1>0, TablesFields
    <3>2. [db.posts[p] EXCEPT !.author = Me].parent = db.posts[p].parent
      BY <3>1 DEF Row
    <3>3. QED
      BY <2>2, <3>2
  <2>4. QED
    BY <1>2, <2>1, <2>2, <2>3
<1>5. ASSUME NEW r \in Runs, Flush(r)
      PROVE  Kept
  <2>1. /\ db' = UpsertAll(db, batch[r])
        /\ stored' = [stored EXCEPT ![r] = @ \cup Ids(batch[r])]
        /\ unlinked' = unlinked \ Ids(batch[r])
        /\ erased' = erased
    BY <1>5 DEF Flush, world
  <2>2. /\ batch[r] \in Seq(Written)
        /\ \A i \in 1 .. Len(batch[r]) : Signed(batch[r][i].id, batch[r][i].post)
        /\ DOMAIN stored = Runs
    BY DEF IngestInv, TypeOK, RunInv, Fitting, Written
  <2>3. Hangs(db', Linking \cup Ids(batch[r]), erased)
    BY <1>0, <2>1, <2>2, UpsertAllHangs
  <2>4. Linking' \subseteq Linking \cup Ids(batch[r])
    BY <2>1, <2>2 DEF Linking, AllWritten
  <2>5. QED
    BY <2>1, <2>3, <2>4 DEF Hangs
<1>5a. ASSUME NEW p \in PostIds, NEW back \in BOOLEAN, Publish(p, back)
       PROVE  Kept
  <2> DEFINE post == AfterPublish(p, back)
  <2>1. /\ p \in Published
        /\ db' = Upsert(db, p, post)
        /\ unlinked' = IF back /\ TrueParent[p] # None THEN unlinked \cup {p}
                                                      ELSE unlinked
        /\ UNCHANGED <<erased, stored>>
    BY <1>5a DEF Publish, run, IngestInv, TypeOK
  <2>2. post \in Post
    BY <2>1, IngestAssumption, AfterPublishIsSigned
  <2>3. CASE back /\ TrueParent[p] # None
    <3> HIDE DEF post
    <3>1. Hangs(db', Linking \ {p}, erased)
      BY <1>0, <2>1, <2>2, OtherPostsHang
    <3>2. Linking' \subseteq Linking \ {p}
      BY <2>1, <2>3 DEF Linking, AllWritten
    <3>3. QED
      BY <2>1, <3>1, <3>2 DEF Hangs
  <2>4. CASE ~(back /\ TrueParent[p] # None)
    <3>1. Tied(p, post)
      BY <2>4 DEF Tied, AfterPublish, SynthesizedPost
    <3> HIDE DEF post
    <3>2. Hangs(db', Linking \cup {p}, erased)
      BY <1>0, <2>1, <2>2, <3>1, UpsertHangs
    <3>3. Linking' = Linking
      BY <2>1, <2>4 DEF Linking, AllWritten
    <3>4. QED
      BY <2>1, <3>2, <3>3 DEF Hangs
  <2>5. QED
    BY <2>3, <2>4
<1>6. ASSUME NEW p \in PostIds, Erase(p)
      PROVE  Kept
  <2> DEFINE t == DeleteRow(db, p)
  <2>1. db' = t /\ erased' = erased \cup {p} /\ UNCHANGED <<unlinked, stored>>
    BY <1>6 DEF Erase, run
  <2>2. /\ t.posts = [db.posts EXCEPT ![p] = Absent]
        /\ t.edges = {e \in db.edges : e.from # p /\ e.to # p}
        /\ Stored(t) = Stored(db) \ {p}
        /\ DOMAIN db.posts = PostIds
    BY <1>0, DeleteRowEffect, TablesFields
  <2> HIDE DEF t
  <2>3. ASSUME NEW q \in Linking \cap Stored(t), TrueParent[q] # None
        PROVE  /\ t.posts[q].parent = TrueParent[q]
               /\ ReplyEdge(q) \in t.edges \/ TrueParent[q] \in erased \cup {p}
    <3>1. q # p /\ q \in Stored(db) /\ t.posts[q] = db.posts[q]
      BY <2>2 DEF Stored
    <3>2. /\ db.posts[q].parent = TrueParent[q]
          /\ ReplyEdge(q) \in db.edges \/ TrueParent[q] \in erased
      BY <2>3, <3>1 DEF Hangs
    <3>3. ReplyEdge(q).from = q /\ ReplyEdge(q).to = TrueParent[q]
      BY DEF ReplyEdge
    <3>4. QED
      BY <2>2, <3>1, <3>2, <3>3
  <2>4. QED
    BY <2>1, <2>3 DEF Hangs, Linking, AllWritten
<1>7. ASSUME NEW r \in Runs,
             \/ \E k \in Kinds, top \in OptionOf(PostIds) : Start(r, k, top)
             \/ ReadSeeds(r) \/ Open(r) \/ FetchPage(r) \/ Take(r) \/ Turn(r)
             \/ Finish(r) \/ Fail(r) \/ FinishFailed(r) \/ Kill(r)
      PROVE  UNCHANGED <<db, erased, unlinked, stored>>
  BY <1>7 DEF Start, ReadSeeds, Open, FetchPage, Take, Turn, Finish, Fail,
              FinishFailed, Kill, store, world, run
<1>8. ASSUME NEW p \in PostIds, Vanish(p)
      PROVE  UNCHANGED <<db, erased, unlinked, stored>>
  BY <1>8 DEF Vanish, store, run
<1>9. CASE UNCHANGED vars
  BY <1>1, <1>9 DEF vars, store, world, run
<1>10. QED
  BY <1>1, <1>3, <1>4, <1>5, <1>5a, <1>6, <1>7, <1>8, <1>9 DEF Next, Step, Quiet

\* The conversation of a top-level post, as `ingest thread` reads it.
OfThread(e) ==
  /\ e.edge = "conversation"
  /\ e.of \in PostIds
  /\ TrueParent[e.of] = None

\* What a run holds says what it replies to: the edge whose fields do not,
\* me/threads, lists top-level posts.
Telling(r) ==
  /\ \A i \in 1 .. Len(batch[r]) : Tied(batch[r][i].id, batch[r][i].post)
  /\ source[r].edge = "threads" => \A p \in ToSet(page[r]) : TrueParent[p] = None

\* A thread run reads one conversation, and starts from no post.
OneThread(r) ==
  kind[r] = "thread" /\ pc[r] \in Active =>
    /\ seeds[r] = {}
    /\ \/ pc[r] = "next" /\ Len(frontier[r]) = 1 /\ OfThread(frontier[r][1])
       \/ frontier[r] = <<>> /\ OfThread(source[r])

Linked(r) == Telling(r) /\ OneThread(r)

\* What keeps a run linked when another run, or the service, steps.
SameLinks(q) ==
  /\ pc'[q] = pc[q] /\ kind'[q] = kind[q] /\ seeds'[q] = seeds[q]
  /\ frontier'[q] = frontier[q] /\ source'[q] = source[q]
  /\ page'[q] = page[q] /\ batch'[q] = batch[q]

LEMMA OthersStayLinked ==
  ASSUME NEW q \in Runs, Linked(q), SameLinks(q)
  PROVE  Linked(q)'
  BY DEF Linked, Telling, OneThread, SameLinks

\* Nothing is fetched by a step that leaves pages and batches as they are.
LEMMA MoveStaysLinked ==
  ASSUME NEW r \in Runs, Linked(r), batch'[r] = batch[r],
         page'[r] = page[r], source'[r] = source[r],
         \/ pc'[r] \notin Active
         \/ kind'[r] # "thread"
         \/ /\ kind'[r] = kind[r] /\ seeds'[r] = seeds[r]
            /\ frontier'[r] = frontier[r]
            /\ pc[r] \in Active /\ (pc[r] = "next" => pc'[r] = "next")
  PROVE  Linked(r)'
  BY DEF Linked, Telling, OneThread

LEMMA FetchPageStaysLinked ==
  ASSUME IngestInv, NEW r \in Runs, Linked(r), FetchPage(r)
  PROVE  Linked(r)'
<1>1. PICK items \in Seq(PostIds) :
        /\ \A i \in 1 .. Len(items) : items[i] \in ItemsOf(source[r])
        /\ page' = [page EXCEPT ![r] = @ \o items]
        /\ pc'[r] \in {"fetch", "take"}
  <2>1. PICK items \in Seq(PostIds), again \in BOOLEAN :
          /\ \A i \in 1 .. Len(items) : items[i] \in ItemsOf(source[r])
          /\ page' = [page EXCEPT ![r] = @ \o items]
          /\ pc' = [pc EXCEPT ![r] = IF again /\ kind[r] = "thread"
                                     THEN "fetch" ELSE "take"]
    BY FetchPageEffect DEF IngestInv
  <2>2. pc'[r] \in {"fetch", "take"}
    BY <2>1 DEF IngestInv, TypeOK
  <2>3. QED
    BY <2>1, <2>2
<1>2. /\ pc[r] = "fetch"
      /\ UNCHANGED <<kind, batch, seeds, frontier, source>>
      /\ page[r] \in Seq(PostIds)
      /\ page'[r] = page[r] \o items
  BY <1>1 DEF FetchPage, IngestInv, TypeOK
<1>3. ToSet(page'[r]) = ToSet(page[r]) \cup ToSet(items)
  BY <1>2, ConcatRange
<1>4. \A p \in ToSet(items) : p \in ItemsOf(source[r])
  <2>1. DOMAIN items = 1 .. Len(items)
    BY LenProperties
  <2>2. QED
    BY <1>1, <2>1 DEF ToSet
<1>5. source[r].edge = "threads" => \A p \in ItemsOf(source[r]) : TrueParent[p] = None
  BY DEF ItemsOf
<1>6. Telling(r)'
  BY <1>2, <1>3, <1>4, <1>5 DEF Linked, Telling
<1>7. OneThread(r)'
  BY <1>1, <1>2 DEF Linked, OneThread, Active, Reading
<1>8. QED
  BY <1>6, <1>7 DEF Linked

LEMMA TakeStaysLinked ==
  ASSUME IngestInv, NEW r \in Runs, Linked(r), Take(r)
  PROVE  Linked(r)'
<1> DEFINE p == Head(page[r])
           x == [id |-> p, post |-> Fetched(source[r], p)]
<1>1. /\ TypeOK
      /\ page[r] \in Seq(PostIds)
      /\ batch[r] \in Seq(Written)
      /\ DOMAIN pc = Runs /\ DOMAIN page = Runs /\ DOMAIN batch = Runs
  BY DEF IngestInv, TypeOK, Written
<1>2. /\ pc[r] = "take" /\ page[r] # <<>> /\ x \in Written
      /\ page'[r] = Tail(page[r])
      /\ pc'[r] \in {"flush", "take"}
      /\ UNCHANGED <<kind, source, seeds>>
      /\ batch'[r] = batch[r] \/ batch'[r] = Append(batch[r], x)
      /\ kind[r] # "engagement" => frontier' = frontier
  <2>1. /\ pc[r] = "take" /\ page[r] # <<>> /\ x \in Written
        /\ page' = [page EXCEPT ![r] = Tail(@)]
        /\ pc' = [pc EXCEPT ![r] = IF Full(batch'[r]) THEN "flush" ELSE "take"]
        /\ UNCHANGED <<kind, source, seeds>>
        /\ batch' = batch \/ batch' = [batch EXCEPT ![r] = Append(@, x)]
        /\ kind[r] # "engagement" => frontier' = frontier
    BY <1>1, TakeEffect
  <2> HIDE DEF x
  <2>2. QED
    BY <1>1, <2>1
<1>3. ToSet(page[r]) = {p} \cup ToSet(Tail(page[r]))
  BY <1>1, <1>2, HeadTailRange
<1>4. x.id = p /\ Tied(x.id, x.post)
  <2>1. source[r].edge = "threads" => TrueParent[p] = None
    BY <1>3 DEF Linked, Telling
  <2>2. source[r].edge # "threads" => Fetched(source[r], p).parent = TrueParent[p]
    BY DEF Fetched, DtoToPost, ReplyFields
  <2>3. QED
    BY <2>1, <2>2 DEF Tied
<1> HIDE DEF p, x
<1>5. \A i \in 1 .. Len(batch'[r]) : Tied(batch'[r][i].id, batch'[r][i].post)
  <2> DEFINE b == Append(batch[r], x)
  <2>1. /\ Len(b) = Len(batch[r]) + 1 /\ Len(batch[r]) \in Nat
        /\ \A i \in 1 .. Len(batch[r]) : b[i] = batch[r][i]
        /\ b[Len(batch[r]) + 1] = x
    BY <1>1, <1>2, AppendProperties, LenProperties
  <2>2. \A i \in 1 .. Len(batch[r]) : Tied(batch[r][i].id, batch[r][i].post)
    BY DEF Linked, Telling
  <2> HIDE DEF b
  <2>3. ASSUME NEW i \in 1 .. Len(b)
        PROVE  Tied(b[i].id, b[i].post)
    <3>1. i \in 1 .. Len(batch[r]) \/ i = Len(batch[r]) + 1
      BY <2>1
    <3>2. QED
      BY <1>4, <2>1, <2>2, <3>1
  <2>4. QED
    BY <1>2, <2>2, <2>3 DEF b
<1>6. Telling(r)'
  BY <1>2, <1>3, <1>5 DEF Linked, Telling
<1>7. OneThread(r)'
  BY <1>2 DEF Linked, OneThread, Active, Reading
<1>8. QED
  BY <1>6, <1>7 DEF Linked

LEMMA OpenStaysLinked ==
  ASSUME IngestInv, NEW r \in Runs, Linked(r), Open(r)
  PROVE  Linked(r)'
<1> DEFINE e == Head(frontier[r])
<1>1. /\ pc[r] = "next" /\ page'[r] = <<>>
      /\ e = frontier[r][1]
      /\ Len(frontier[r]) \in Nat \ {0}
      /\ Len(frontier'[r]) = Len(frontier[r]) - 1
      /\ kind' = kind /\ seeds' = seeds
      /\ \/ TooDeep(e) /\ UNCHANGED <<pc, source>>
         \/ /\ ~TooDeep(e)
            /\ pc'[r] = "fetch" /\ source'[r] = e
  BY OpenEffect
<1>2. batch' = batch
  BY DEF Open
<1> HIDE DEF e
<1>3. ToSet(<<>>) = {}
  BY DEF ToSet
<1>4. Telling(r)'
  BY <1>1, <1>2, <1>3 DEF Linked, Telling
<1>5. OneThread(r)'
  <2> SUFFICES ASSUME kind[r] = "thread"
               PROVE  OneThread(r)'
    BY <1>1 DEF OneThread
  <2>1. /\ seeds[r] = {}
        /\ Len(frontier[r]) = 1 /\ OfThread(e)
    <3>1. frontier[r] # <<>>
      BY DEF Open
    <3>2. QED
      BY <1>1, <3>1 DEF Linked, OneThread, Active
  <2>2. ~TooDeep(e)
    BY <2>1 DEF OfThread, TooDeep
  <2>3. frontier'[r] \in Seq(Edges) /\ Len(frontier'[r]) = 0
    BY <1>1, <2>1, NextKeepsType DEF Next, Step, TypeOK
  <2>4. frontier'[r] = <<>>
    BY <2>3, EmptySeq
  <2>5. QED
    BY <1>1, <2>1, <2>2, <2>4 DEF OneThread
<1>6. QED
  BY <1>4, <1>5 DEF Linked

LEMMA StartIsLinked ==
  ASSUME IngestInv, NEW r \in Runs, Linked(r),
         NEW k \in Kinds, NEW top \in OptionOf(PostIds), Start(r, k, top)
  PROVE  Linked(r)'
<1>1. /\ pc[r] = "idle"
      /\ kind'[r] = k
      /\ pc'[r] = IF k = "thread" THEN "next" ELSE "me"
      /\ frontier'[r] = IF k = "thread" THEN <<EdgeOf("conversation", top, 0)>>
                                        ELSE <<>>
      /\ k = "thread" => top \in PostIds /\ TrueParent[top] = None
      /\ UNCHANGED <<batch, page, source, seeds>>
  BY DEF Start, Goto, IngestInv, TypeOK
<1>2. seeds[r] = {}
  BY <1>1 DEF IngestInv, RunInv, Fresh
<1>3. CASE k = "thread"
  <2>1. Len(frontier'[r]) = 1 /\ OfThread(frontier'[r][1])
    BY <1>1, <1>3 DEF EdgeOf, OfThread
  <2>2. QED
    BY <1>1, <1>2, <1>3, <2>1 DEF Linked, Telling, OneThread
<1>4. CASE k # "thread"
  BY <1>1, <1>4, MoveStaysLinked
<1>5. QED
  BY <1>3, <1>4

LEMMA NextKeepsLinks ==
  ASSUME IngestInv, \A r \in Runs : CoverInv(r) /\ Linked(r), [Next]_vars
  PROVE  \A r \in Runs : Linked(r)'
<1> DEFINE Kept == \A r \in Runs : Linked(r)'
<1>1. /\ DOMAIN pc = Runs /\ DOMAIN kind = Runs /\ DOMAIN seeds = Runs
      /\ DOMAIN frontier = Runs /\ DOMAIN source = Runs
      /\ DOMAIN page = Runs /\ DOMAIN batch = Runs
  BY DEF IngestInv, TypeOK
<1>2. ASSUME NEW r \in Runs, Linked(r)', \A q \in Runs \ {r} : SameLinks(q)
      PROVE  Kept
  <2>1. \A q \in Runs \ {r} : Linked(q)'
    BY <1>2, OthersStayLinked
  <2>2. QED
    BY <1>2, <2>1
<1>3. CASE UNCHANGED <<pc, kind, seeds, frontier, source, page, batch>>
  <2>1. \A q \in Runs : SameLinks(q)
    BY <1>3 DEF SameLinks
  <2>2. QED
    BY <2>1, OthersStayLinked
<1>4. ASSUME NEW r \in Runs, NEW k \in Kinds, NEW top \in OptionOf(PostIds),
             Start(r, k, top)
      PROVE  Kept
  <2>1. \A q \in Runs \ {r} : SameLinks(q)
    BY <1>1, <1>4 DEF Start, Goto, SameLinks
  <2>2. QED
    BY <1>2, <1>4, <2>1, StartIsLinked
<1>5. ASSUME NEW r \in Runs, ResolveMe(r) \/ ReadSeeds(r)
      PROVE  Kept
  <2>1. /\ \A q \in Runs \ {r} : SameLinks(q)
        /\ UNCHANGED <<batch, page, source, kind>>
        /\ pc[r] \in {"resolve", "seeds"}
    BY <1>1, <1>5 DEF ResolveMe, ReadSeeds, Goto, SameLinks
  <2>2. kind'[r] # "thread"
    BY <2>1 DEF CoverInv, Routed
  <2>3. Linked(r)'
    BY <2>1, <2>2, MoveStaysLinked
  <2>4. QED
    BY <1>2, <2>1, <2>3
<1>6. ASSUME NEW r \in Runs, Open(r)
      PROVE  Kept
  <2>1. \A q \in Runs \ {r} : SameLinks(q)
    BY <1>1, <1>6 DEF Open, Goto, SameLinks
  <2>2. QED
    BY <1>2, <1>6, <2>1, OpenStaysLinked
<1>7. ASSUME NEW r \in Runs, FetchPage(r)
      PROVE  Kept
  <2>1. \A q \in Runs \ {r} : SameLinks(q)
    BY <1>1, <1>7 DEF FetchPage, Goto, SameLinks
  <2>2. QED
    BY <1>2, <1>7, <2>1, FetchPageStaysLinked
<1>8. ASSUME NEW r \in Runs, Take(r)
      PROVE  Kept
  <2>1. \A q \in Runs \ {r} : SameLinks(q)
    BY <1>1, <1>8 DEF Take, Keep, Goto, SameLinks
  <2>2. QED
    BY <1>2, <1>8, <2>1, TakeStaysLinked
<1>9. ASSUME NEW r \in Runs, Turn(r)
      PROVE  Kept
  <2>1. /\ \A q \in Runs \ {r} : SameLinks(q)
        /\ UNCHANGED <<batch, page, source, kind, seeds, frontier>>
        /\ pc[r] = "take"
    BY <1>1, <1>9 DEF Turn, Goto, SameLinks, run
  <2>2. Linked(r)'
    BY <2>1, MoveStaysLinked DEF Active, Reading
  <2>3. QED
    BY <1>2, <2>1, <2>2
<1>10. ASSUME NEW r \in Runs, Flush(r)
       PROVE  Kept
  <2>1. /\ \A q \in Runs \ {r} : SameLinks(q)
        /\ UNCHANGED <<page, source, kind, seeds, frontier>>
        /\ batch'[r] = <<>>
        /\ \/ pc[r] = "flush" /\ pc'[r] = "take"
           \/ pc[r] = "next" /\ pc'[r] = "next"
    BY <1>1, <1>10 DEF Flush, Goto, SameLinks
  <2>2. Telling(r)'
    BY <2>1 DEF Linked, Telling
  <2>3. OneThread(r)'
    BY <2>1 DEF Linked, OneThread, Active, Reading
  <2>4. QED
    BY <1>2, <2>1, <2>2, <2>3 DEF Linked
<1>11. ASSUME NEW r \in Runs,
              RecordMe(r) \/ Finish(r) \/ FinishFailed(r) \/ Fail(r) \/ Kill(r)
       PROVE  Kept
  <2>1. /\ \A q \in Runs \ {r} : SameLinks(q)
        /\ UNCHANGED <<batch, page, source>>
        /\ pc'[r] \in {"resolve", "done", "failed", "killed"}
    BY <1>1, <1>11
       DEF RecordMe, Finish, FinishFailed, Fail, Kill, Goto, SameLinks, run
  <2>2. Linked(r)'
    BY <2>1, MoveStaysLinked DEF Active, Reading
  <2>3. QED
    BY <1>2, <2>1, <2>2
<1>12. ASSUME NEW p \in PostIds,
              (\E back \in BOOLEAN : Publish(p, back)) \/ Vanish(p) \/ Erase(p)
       PROVE  Kept
  BY <1>3, <1>12 DEF Publish, Vanish, Erase, run
<1>13. CASE UNCHANGED vars
  BY <1>3, <1>13 DEF vars, run
<1>14. QED
  BY <1>4, <1>5, <1>6, <1>7, <1>8, <1>9, <1>10, <1>11, <1>12, <1>13
     DEF Next, Step, Quiet

LinkInv == Hangs(db, Linking, erased) /\ \A r \in Runs : Linked(r)

LEMMA LinkInvariant ==
  Spec => [](IngestInv /\ (\A r \in Runs : CoverInv(r)) /\ LinkInv)
<1> DEFINE Inv == IngestInv /\ \A r \in Runs : CoverInv(r)
<1>1. Init => LinkInv
  <2> SUFFICES ASSUME Init
               PROVE  LinkInv
    OBVIOUS
  <2>1. Linking = {}
    BY DEF Init, Linking, AllWritten
  <2>2. ASSUME NEW r \in Runs
        PROVE  Linked(r)
    <3>1. batch[r] = <<>> /\ page[r] = <<>> /\ pc[r] = "idle"
      BY DEF Init
    <3>2. Len(<<>>) = 0 /\ ToSet(<<>>) = {}
      BY DEF ToSet
    <3>3. QED
      BY <3>1, <3>2 DEF Linked, Telling, OneThread, Active, Reading
  <2>3. QED
    BY <2>1, <2>2 DEF LinkInv, Hangs
<1>2. Inv /\ LinkInv /\ [Next]_vars => LinkInv'
  <2> SUFFICES ASSUME Inv, LinkInv, [Next]_vars
               PROVE  LinkInv'
    OBVIOUS
  <2>1. Hangs(db, Linking, erased)'
    BY NextKeepsHangs DEF LinkInv, Linked, Telling
  <2>2. \A r \in Runs : Linked(r)'
    BY NextKeepsLinks DEF LinkInv
  <2>3. QED
    BY <2>1, <2>2 DEF LinkInv
<1>3. Spec => []Inv
  BY CoverInvariant
<1> HIDE DEF Inv
<1>4. Spec => [](Inv /\ LinkInv)
  BY <1>1, <1>2, <1>3, PTL DEF Spec
<1>5. QED
  BY <1>4 DEF Inv

\* What a run has written hangs under the post it replies to, whatever the others
\* write again, merge, resolve and delete, unless its publish has unlinked it.
THEOREM WrittenRepliesHang == Spec => []RepliesHang
<1>1. LinkInv => RepliesHang
  <2> SUFFICES ASSUME LinkInv, NEW r \in Runs,
                      NEW p \in (stored[r] \cap Stored(db)) \ unlinked,
                      TrueParent[p] # None
               PROVE  /\ db.posts[p].parent = TrueParent[p]
                      /\ \/ ReplyEdge(p) \in db.edges
                         \/ TrueParent[p] \in erased
    BY DEF RepliesHang, ReplyEdge
  <2>1. p \in Linking
    BY DEF Linking, AllWritten
  <2>2. QED
    BY <2>1 DEF LinkInv, Hangs
<1>2. QED
  BY <1>1, LinkInvariant, PTL

\* A reply to a post of a conversation is in the conversation.
LEMMA ConversationIsClosed ==
  ASSUME NEW top \in PostIds, TrueParent[top] = None, NEW p \in PostIds,
         TrueParent[p] \in PostIds,
         TrueParent[p] = top \/ TrueRoot[TrueParent[p]] = top
  PROVE  TrueRoot[p] = top
<1> DEFINE q == TrueParent[p]
<1>1. TrueRoot[p] = IF TrueParent[q] = None THEN q ELSE TrueRoot[q]
  BY IngestAssumption, PostModelAssumption
<1>2. TrueParent[q] = None => TrueRoot[q] = None
  BY IngestAssumption
<1>3. QED
  BY <1>1, <1>2, PostModelAssumption

\* What hangs below a post at some depth, and whose links are stored, is reached
\* at that depth by the query of `show --thread`.
LEMMA HangingIsReached ==
  ASSUME IngestInv, LinkInv, NEW n \in Nat, NEW top \in remote,
         TrueParent[top] = None,
         \A p \in remote : (p = top \/ TrueRoot[p] = top) => p \in AllWritten,
         NEW h, IsDescent(h, n, {top}), \A i \in 0 .. n : h[i] \cap unlinked = {},
         NEW k, IsTraversal(k, n, db, top)
  PROVE  \A i \in 0 .. n : \A p \in h[i] :
           p \in Stored(db) /\ \E d \in 0 .. i : p \in k[d]
<1> DEFINE K == {p \in remote : p = top \/ TrueRoot[p] = top}
           Right(i) == \A p \in h[i] : p \in Stored(db) /\ \E d \in 0 .. i : p \in k[d]
           S == {i \in 0 .. n : ~Right(i)}
<1>1. /\ h[0] = {top}
      /\ \A i \in 1 .. n :
           h[i] = h[i - 1] \cup {p \in remote : TrueParent[p] \in h[i - 1]}
  BY DescentLevels
<1>2. k[0] = {top} /\ \A d \in 1 .. n : k[d] = RepliesTo(db, k[d - 1])
  BY TraversalLevels
<1>3. remote \subseteq PostIds
  BY DEF IngestInv, TypeOK
<1>4. \A i \in 0 .. n : h[i] \subseteq K
  <2>1. ASSUME NEW i \in 1 .. n, NEW p \in remote, TrueParent[p] \in h[i - 1] \cap K
        PROVE  p \in K
    BY <1>3, <2>1, ConversationIsClosed
  <2> DEFINE T == {top}
  <2>2. T \subseteq K /\ IsDescent(h, n, T)
    OBVIOUS
  <2> HIDE DEF K, T
  <2>3. \A i \in 1 .. n : \A p \in remote : TrueParent[p] \in h[i - 1] \cap K => p \in K
    BY <2>1
  <2>4. QED
    BY <2>2, <2>3, DescentStaysInside
<1>5. \A p \in K : p \in AllWritten \cap Stored(db) /\ p \notin erased
  BY DEF IngestInv, WrittenPostsAreKept, AllWritten
<1> HIDE DEF K
<1>6. Right(0)
  BY <1>1, <1>2, <1>4, <1>5
<1>7. ASSUME NEW i \in 1 .. n, Right(i - 1)
      PROVE  Right(i)
  <2> SUFFICES ASSUME NEW p \in h[i]
               PROVE  p \in Stored(db) /\ \E d \in 0 .. i : p \in k[d]
    OBVIOUS
  <2>1. i \in 0 .. n /\ i - 1 \in 0 .. n /\ i \in Nat
    OBVIOUS
  <2>2. p \in Linking \cap Stored(db)
    BY <1>4, <1>5, <2>1 DEF Linking
  <2>3. CASE p \in h[i - 1]
    <3>1. PICK d \in 0 .. i - 1 : p \in k[d]
      BY <1>7, <2>3
    <3>2. d \in 0 .. i
      BY <2>1, <3>1
    <3>3. QED
      BY <2>2, <3>1, <3>2
  <2>4. CASE p \in remote /\ TrueParent[p] \in h[i - 1]
    <3>1. PICK d \in 0 .. i - 1 : TrueParent[p] \in k[d]
      BY <1>7, <2>4
    <3>2. TrueParent[p] \in K
      BY <1>4, <2>1, <2>4
    <3>3. TrueParent[p] \in PostIds /\ TrueParent[p] # None
      BY <1>3, <3>2, PostModelAssumption DEF K
    <3>4. ReplyEdge(p) \in db.edges
      BY <1>5, <2>2, <3>2, <3>3 DEF LinkInv, Hangs
    <3>5. p \in RepliesTo(db, k[d])
      BY <3>1, <3>4 DEF ReplyEdge, RepliesTo
    <3>6. d + 1 \in 1 .. n /\ d + 1 \in 0 .. i /\ d + 1 - 1 = d
      BY <2>1, <3>1
    <3>7. p \in k[d + 1]
      <4>1. k[d + 1] = RepliesTo(db, k[d + 1 - 1])
        BY <1>2, <3>6
      <4>2. QED
        BY <3>5, <3>6, <4>1
    <3>8. QED
      BY <2>2, <3>6, <3>7
  <2>5. QED
    BY <1>1, <2>3, <2>4
<1> HIDE DEF Right
<1>8. S = {}
  <2> SUFFICES ASSUME S # {}
               PROVE  FALSE
    OBVIOUS
  <2>1. PICK i \in S : \A j \in S : i <= j
    <3>1. S \in SUBSET Nat
      OBVIOUS
    <3> HIDE DEF S
    <3>2. QED
      BY <3>1, LeastNumber
  <2>2. i # 0
    BY <2>1, <1>6
  <2>3. i \in 1 .. n /\ i - 1 \in 0 .. n /\ i - 1 \notin S
    BY <2>1, <2>2
  <2>4. QED
    BY <2>1, <2>3, <1>7
<1>9. QED
  BY <1>8 DEF Right

\* `ingest thread`, then `show --thread`: every post of the conversation that
\* hangs under the post the run was given is shown, if the run ended without an
\* error: whatever vanished, and whatever other runs wrote, resolved or deleted,
\* but for the publishes that store a reply without its parent.
THEOREM IngestedThreadsAreShown == Spec => ThreadsAreShown
<1>1. ASSUME IngestInv, LinkInv, NEW r \in Runs, CoverInv(r), Finish(r),
             kind[r] = "thread", NEW top, top = source[r].of, top \in remote,
             Below({top}, Cardinality(PostIds)) \cap unlinked = {}
      PROVE  Below({top}, Cardinality(PostIds)) \subseteq ThreadRootedAt(db, top)
  <2> DEFINE n == Cardinality(PostIds)
             h == CHOOSE h : IsDescent(h, n, {top})
  <2>1. /\ pc[r] = "next" /\ frontier[r] = <<>> /\ batch[r] = <<>>
        /\ pc[r] \in Active /\ pc[r] \notin Reading
    BY <1>1 DEF Finish, Active, Reading
  <2>2. seeds[r] = {} /\ OfThread(source[r])
    <3>1. Len(<<>>) # 1
      OBVIOUS
    <3>2. QED
      BY <1>1, <2>1, <3>1 DEF LinkInv, Linked, OneThread
  <2>3. \A p \in remote : (p = top \/ TrueRoot[p] = top) => p \in seen[r]
    <3>1. Len(<<>>) # 1
      OBVIOUS
    <3>2. \A p \in remote : Fits(source[r].edge, source[r].of, p) => p \in seen[r]
      BY <1>1, <2>1, <3>1 DEF CoverInv, ThreadCovered
    <3>3. QED
      BY <1>1, <2>2, <3>2 DEF Fits, OfThread
  <2>4. seen[r] \subseteq AllWritten
    <3>1. Ids(batch[r]) = {}
      BY <2>1 DEF Ids
    <3>2. seen[r] \subseteq stored[r]
      BY <1>1, <2>2, <3>1 DEF IngestInv, RunInv, Counted
    <3>3. QED
      BY <3>2 DEF AllWritten
  <2>5. \A p \in remote : (p = top \/ TrueRoot[p] = top) => p \in AllWritten
    BY <2>3, <2>4
  <2>6. PICK k : /\ IsTraversal(k, n, db, top)
                 /\ Reached(db, top) = UNION {k[d] : d \in 0 .. n}
    BY ReachedByDepth, ServiceAssumption
  <2>7. n \in Nat
    BY ReachedByDepth, ServiceAssumption
  <2>8. IsDescent(h, n, {top})
    BY <2>7, DescentExists
  <2>9. Below({top}, n) = h[n]
    BY DEF Below, IsDescent
  <2>9a. h[n] \cap unlinked = {}
    BY <1>1, <2>9
  <2> HIDE DEF h, n
  <2>10. TrueParent[top] = None
    BY <1>1, <2>2 DEF OfThread
  <2>10a. \A i \in 0 .. n : h[i] \cap unlinked = {}
    <3>1. \A i \in 0 .. n : h[i] \subseteq h[n]
      BY <2>7, <2>8, DescentGrows
    <3>2. QED
      BY <2>9a, <3>1
  <2>11. \A i \in 0 .. n : \A p \in h[i] :
           p \in Stored(db) /\ \E d \in 0 .. i : p \in k[d]
    BY <1>1, <2>5, <2>6, <2>7, <2>8, <2>10, <2>10a, HangingIsReached
  <2>12. n \in 0 .. n
    BY <2>7
  <2>13. \A p \in h[n] : p \in Stored(db) /\ p \in Reached(db, top)
    BY <2>6, <2>11, <2>12
  <2>14. QED
    BY <2>9, <2>13 DEF ThreadRootedAt, n
<1>2. IngestInv /\ (\A r \in Runs : CoverInv(r)) /\ LinkInv
        => [\A r \in Runs :
              LET top    == source[r].of
                  thread == Below({top}, Cardinality(PostIds))
              IN  Finish(r) /\ kind[r] = "thread" /\ top \in remote
                    /\ thread \cap unlinked = {}
                    => thread \subseteq ThreadRootedAt(db, top)]_vars
  <2> SUFFICES ASSUME IngestInv, \A r \in Runs : CoverInv(r), LinkInv, NEW r \in Runs,
                      Finish(r), kind[r] = "thread", source[r].of \in remote,
                      Below({source[r].of}, Cardinality(PostIds)) \cap unlinked = {}
               PROVE  Below({source[r].of}, Cardinality(PostIds))
                        \subseteq ThreadRootedAt(db, source[r].of)
    OBVIOUS
  <2> DEFINE top == source[r].of
  <2>1. Below({top}, Cardinality(PostIds)) \subseteq ThreadRootedAt(db, top)
    <3> HIDE DEF top
    <3>1. Finish(r) /\ CoverInv(r)
      OBVIOUS
    <3>2. top = source[r].of
      BY DEF top
    <3>3. top \in remote /\ Below({top}, Cardinality(PostIds)) \cap unlinked = {}
      BY DEF top
    <3>4. QED
      BY <1>1, <3>1, <3>2, <3>3
  <2>2. QED
    BY <2>1
<1>3. QED
  BY <1>2, LinkInvariant, PTL DEF ThreadsAreShown

-----------------------------------------------------------------------------
(* How long a run can go on                                                *)

Many == Cardinality(PostIds)

\* A page costs its request, a look at each of its posts with perhaps a flush, and
\* the turn to the next; an edge, as many pages as there are posts, and one.
PageCost == 2 * PageSize + 2
EdgeCost == (Many + 1) * PageCost + 2
ReadCost == (Many + 2) * EdgeCost

\* The edges a run has still to read: those of its queue, and for an engagement
\* run one for each post it has not met.
Queued(r) ==
  Len(frontier[r]) + (IF kind[r] = "engagement" THEN Cardinality(PostIds \ seen[r])
                                                ELSE 0)

Queue(r) == Queued(r) * EdgeCost

\* What the edge it reads may still cost, and whether its batch has to be written.
Owed(r) == IF pc[r] = "fetch" \/ more[r] THEN (Cardinality(ahead[r]) + 1) * PageCost
                                         ELSE 0
Unwritten(r) == IF batch[r] = <<>> THEN 0 ELSE 1

\* The most steps a run at `at` still has ahead of it, when its queue costs
\* `queue`, the edge it reads `edge`, and `posts` wait on its pages.
Ahead(at, queue, edge, posts, flushes) ==
  CASE at = "me"      -> ReadCost + 7
    [] at = "resolve" -> ReadCost + 6
    [] at = "seeds"   -> ReadCost + 5
    [] at = "next"    -> queue + 2 + flushes
    [] at = "fetch"   -> queue + edge + 2 * posts + 3
    [] at = "take"    -> queue + edge + 2 * posts + 4
    [] at = "flush"   -> queue + edge + 2 * posts + 5
    [] at = "failed"  -> 1
    [] OTHER          -> 0

StepsLeft(r) == Ahead(pc[r], Queue(r), Owed(r), Len(page[r]), Unwritten(r))

StepsCounted == \A r \in Runs : StepsLeft(r) \in Nat

RunsFit == \A r \in Runs : StepsLeft(r) \in 0 .. ReadCost + 7

LEMMA AheadAt ==
  ASSUME NEW q, NEW e, NEW n, NEW u
  PROVE  /\ Ahead("me", q, e, n, u) = ReadCost + 7
         /\ Ahead("resolve", q, e, n, u) = ReadCost + 6
         /\ Ahead("seeds", q, e, n, u) = ReadCost + 5
         /\ Ahead("next", q, e, n, u) = q + 2 + u
         /\ Ahead("fetch", q, e, n, u) = q + e + 2 * n + 3
         /\ Ahead("take", q, e, n, u) = q + e + 2 * n + 4
         /\ Ahead("flush", q, e, n, u) = q + e + 2 * n + 5
         /\ Ahead("failed", q, e, n, u) = 1
         /\ Ahead("idle", q, e, n, u) = 0
         /\ Ahead("done", q, e, n, u) = 0
         /\ Ahead("killed", q, e, n, u) = 0
  BY DEF Ahead

\* Products, which the arithmetic below treats as numbers.
LEMMA Products ==
  ASSUME NEW k \in Nat
  PROVE  /\ \A n \in Nat : n * k \in Nat /\ (n + 1) * k = n * k + k
         /\ \A m, n \in Nat : m <= n => m * k <= n * k
<1>1. ASSUME NEW n \in Nat
      PROVE  n * k \in Nat /\ (n + 1) * k = n * k + k
  OBVIOUS
<1>2. ASSUME NEW m \in Nat, NEW n \in Nat, m <= n
      PROVE  m * k <= n * k
  <2>1. PICK d \in Nat : n = m + d
    <3>1. n - m \in Nat /\ n = m + (n - m)
      BY <1>2
    <3>2. QED
      BY <3>1
  <2>2. m * k \in Nat /\ d * k \in Nat /\ (m + d) * k = m * k + d * k
    OBVIOUS
  <2>3. QED
    BY <2>1, <2>2
<1>3. QED
  BY <1>1, <1>2

LEMMA CostsTyped ==
  /\ Many \in Nat
  /\ PageCost \in Nat /\ PageCost = 2 * PageSize + 2 /\ PageSize \in Nat
  /\ (Many + 1) * PageCost \in Nat
  /\ EdgeCost \in Nat /\ EdgeCost = (Many + 1) * PageCost + 2
  /\ Many * EdgeCost \in Nat
  /\ ReadCost \in Nat /\ ReadCost = Many * EdgeCost + EdgeCost + EdgeCost
<1>1. Many \in Nat
  BY ServiceAssumption, FS_CardinalityType DEF Many
<1>2. PageCost \in Nat /\ PageCost = 2 * PageSize + 2 /\ PageSize \in Nat
  BY IngestAssumption DEF PageCost
<1>3. (Many + 1) * PageCost \in Nat
  <2>1. Many + 1 \in Nat
    BY <1>1
  <2>2. QED
    BY <1>2, <2>1, Products
<1>4. EdgeCost \in Nat /\ EdgeCost = (Many + 1) * PageCost + 2
  BY <1>3 DEF EdgeCost
<1>5. /\ Many * EdgeCost \in Nat
      /\ ReadCost \in Nat /\ ReadCost = Many * EdgeCost + EdgeCost + EdgeCost
  <2> SUFFICES ASSUME NEW k \in Nat, k = EdgeCost, NEW n \in Nat, n = Many
               PROVE  /\ n * k \in Nat
                      /\ (n + 2) * k \in Nat /\ (n + 2) * k = n * k + k + k
    BY <1>1, <1>4 DEF ReadCost
  <2>1. QED
    OBVIOUS
<1>6. QED
  BY <1>1, <1>2, <1>3, <1>4, <1>5

\* A set of posts is finite, and there are no more of them than posts.
LEMMA FewPosts ==
  ASSUME NEW some, some \subseteq PostIds
  PROVE  IsFiniteSet(some) /\ Cardinality(some) \in Nat /\ Cardinality(some) <= Many
  BY ServiceAssumption, FS_Subset, FS_CardinalityType DEF Many

LEMMA SearchTyped ==
  ASSUME IngestInv, NEW r \in Runs
  PROVE  /\ Len(frontier[r]) \in Nat /\ Len(page[r]) \in Nat
         /\ Cardinality(ahead[r]) \in Nat /\ Cardinality(PostIds \ seen[r]) \in Nat
         /\ (Cardinality(ahead[r]) + 1) * PageCost \in Nat
         /\ Queued(r) \in Nat /\ Queue(r) \in Nat /\ Owed(r) \in Nat
         /\ Unwritten(r) \in {0, 1}
<1>1. /\ Len(frontier[r]) \in Nat /\ Len(page[r]) \in Nat
      /\ ahead[r] \subseteq PostIds
  BY LenProperties DEF IngestInv, TypeOK
<1>2. Cardinality(ahead[r]) \in Nat /\ Cardinality(PostIds \ seen[r]) \in Nat
  BY <1>1, FewPosts
<1>3. Queued(r) \in Nat
  BY <1>1, <1>2 DEF Queued
<1>4. Queue(r) \in Nat
  BY <1>3, CostsTyped, Products DEF Queue
<1>5. (Cardinality(ahead[r]) + 1) * PageCost \in Nat
  <2>1. Cardinality(ahead[r]) + 1 \in Nat
    BY <1>2
  <2>2. QED
    BY <2>1, CostsTyped, Products
<1>6. QED
  BY <1>1, <1>2, <1>3, <1>4, <1>5 DEF Owed, Unwritten

LEMMA StepsLeftTyped ==
  ASSUME IngestInv, NEW r \in Runs
  PROVE  StepsLeft(r) \in Nat
<1> SUFFICES ASSUME NEW q \in Nat, NEW e \in Nat, NEW n \in Nat, NEW u \in Nat
             PROVE  Ahead(pc[r], q, e, n, u) \in Nat
  BY SearchTyped DEF StepsLeft
<1>1. CASE pc[r] \in {"me", "resolve", "seeds", "failed", "idle", "done", "killed"}
  BY <1>1, AheadAt, CostsTyped
<1>2. CASE pc[r] \in {"next", "fetch", "take", "flush"}
  BY <1>2, AheadAt
<1>3. QED
  BY <1>1, <1>2 DEF IngestInv, TypeOK

\* What a step leaves alone of what a run has still to read.
LEMMA QueueKept ==
  ASSUME NEW r, frontier'[r] = frontier[r], kind'[r] = kind[r], seen'[r] = seen[r]
  PROVE  Queue(r)' = Queue(r)
  BY DEF Queue, Queued

LEMMA OneEdgeLess ==
  ASSUME NEW n \in Nat, NEW m, n = m + 1, m \in Nat
  PROVE  n * EdgeCost = m * EdgeCost + EdgeCost /\ m * EdgeCost \in Nat
  BY CostsTyped, Products

\* A run that begins to read has three steps behind it and at most every post
\* ahead of it.
LEMMA BeginningDescends ==
  ASSUME IngestInv, NEW r \in Runs, RecordMe(r) \/ ResolveMe(r) \/ ReadSeeds(r)
  PROVE  StepsLeft(r)' < StepsLeft(r)
<1>1. /\ StepsLeft(r) = Ahead(pc[r], Queue(r), Owed(r), Len(page[r]), Unwritten(r))
      /\ StepsLeft(r)' = Ahead(pc'[r], Queue(r)', Owed(r)', Len(page'[r]), Unwritten(r)')
      /\ Unwritten(r)' \in {0, 1}
  BY DEF StepsLeft, Unwritten
<1>2. CASE RecordMe(r)
  <2>1. pc[r] = "me" /\ pc'[r] = "resolve"
    BY <1>2 DEF RecordMe, Goto, IngestInv, TypeOK
  <2>2. QED
    BY <1>1, <2>1, AheadAt, CostsTyped
<1>3. CASE ResolveMe(r)
  <2>1. /\ pc[r] = "resolve" /\ kind'[r] = kind[r]
        /\ \/ pc'[r] = "seeds"
           \/ /\ pc'[r] = "next" /\ kind[r] = "me"
              /\ frontier'[r] = <<EdgeOf("threads", None, 0), EdgeOf("replies", None, 0)>>
    BY <1>3 DEF ResolveMe, Goto, IngestInv, TypeOK
  <2>2. CASE pc'[r] = "seeds"
    BY <1>1, <2>1, <2>2, AheadAt, CostsTyped
  <2>3. CASE /\ pc'[r] = "next" /\ kind[r] = "me"
             /\ frontier'[r] = <<EdgeOf("threads", None, 0), EdgeOf("replies", None, 0)>>
    <3>1. Queued(r)' = 2
      BY <2>1, <2>3 DEF Queued
    <3>2. Queue(r)' = EdgeCost + EdgeCost
      BY <3>1, CostsTyped DEF Queue
    <3>3. EdgeCost \in Nat /\ ReadCost \in Nat /\ EdgeCost + EdgeCost <= ReadCost
      BY CostsTyped
    <3>4. /\ StepsLeft(r) = ReadCost + 6
          /\ StepsLeft(r)' = Queue(r)' + 2 + Unwritten(r)'
      BY <1>1, <2>1, <2>3, AheadAt
    <3>5. QED
      BY <1>1, <3>2, <3>3, <3>4
  <2>4. QED
    BY <2>1, <2>2, <2>3
<1>4. CASE ReadSeeds(r)
  <2> DEFINE authored == ByAuthor(db, Me)
             k == Cardinality(authored)
  <2>1. authored \in SUBSET PostIds
    BY DEF ByAuthor, Stored
  <2>2. PICK order \in SetToSeqs(authored) :
          frontier' = [frontier EXCEPT ![r] =
            [i \in DOMAIN order |-> EdgeOf("children", order[i], 0)]]
    BY <1>4 DEF ReadSeeds
  <2>3. /\ pc[r] = "seeds" /\ pc'[r] = "next"
        /\ seen'[r] = authored
        /\ frontier'[r] = [i \in DOMAIN order |-> EdgeOf("children", order[i], 0)]
    BY <1>4, <2>2 DEF ReadSeeds, Goto, IngestInv, TypeOK
  <2>4. k \in Nat /\ order \in [1 .. k -> authored]
    BY <2>1, OrdersTyped
  <2>5. Len(frontier'[r]) = k
    <3>1. frontier'[r] \in [1 .. k -> Edges]
      BY <2>1, <2>3, <2>4 DEF EdgeOf, Edges
    <3>2. QED
      BY <2>4, <3>1, SeqDef, LenProperties
  <2>6. Cardinality(PostIds \ authored) = Many - k /\ k <= Many
    <3>1. PostIds \cap authored = authored
      BY <2>1
    <3>2. Cardinality(PostIds \ authored)
            = Cardinality(PostIds) - Cardinality(PostIds \cap authored)
      BY FS_Difference, ServiceAssumption
    <3>3. k \in Nat /\ k <= Many
      BY <2>1, FewPosts
    <3>4. QED
      BY <3>1, <3>2, <3>3 DEF Many
  <2>7. Queued(r)' \in Nat /\ Queued(r)' <= Many
    <3>1. Queued(r)' \in {k, k + (Many - k)}
      BY <2>3, <2>4, <2>5, <2>6, CostsTyped DEF Queued
    <3> HIDE DEF k
    <3>2. QED
      BY <2>4, <2>6, <3>1, CostsTyped
  <2>8. Queue(r)' \in Nat /\ Queue(r)' <= Many * EdgeCost
    BY <2>7, CostsTyped, Products DEF Queue
  <2>9. QED
    BY <1>1, <2>3, <2>8, AheadAt, CostsTyped
<1>5. QED
  BY <1>2, <1>3, <1>4

\* An edge is paid for by leaving the queue.
LEMMA OpenDescends ==
  ASSUME IngestInv, NEW r \in Runs, Open(r)
  PROVE  StepsLeft(r)' < StepsLeft(r)
<1> SUFFICES ASSUME NEW e, e = Head(frontier[r])
             PROVE  StepsLeft(r)' < StepsLeft(r)
  OBVIOUS
<1>1. /\ pc[r] = "next" /\ page[r] = <<>> /\ e \in Edges
      /\ Len(frontier[r]) \in Nat \ {0}
      /\ Len(frontier'[r]) = Len(frontier[r]) - 1
      /\ UNCHANGED <<remote, kind, seen, page>>
      /\ \/ UNCHANGED pc
         \/ pc'[r] = "fetch" /\ ahead'[r] = ItemsOf(e)
  BY OpenEffect
<1>2. batch' = batch
  BY DEF Open
<1>3. Queued(r) = Queued(r)' + 1 /\ Queued(r)' \in Nat
  <2>1. kind'[r] = kind[r] /\ seen'[r] = seen[r]
    BY <1>1
  <2>2. Cardinality(PostIds \ seen[r]) \in Nat
    BY SearchTyped
  <2>3. QED
    BY <1>1, <2>1, <2>2 DEF Queued
<1>4. Queue(r) = Queue(r)' + EdgeCost /\ Queue(r)' \in Nat
  <2>1. SUFFICES ASSUME NEW n \in Nat, NEW m \in Nat, n = m + 1
                 PROVE  n * EdgeCost = m * EdgeCost + EdgeCost /\ m * EdgeCost \in Nat
    BY <1>3, SearchTyped DEF Queue
  <2>2. QED
    BY <2>1, OneEdgeLess
<1>5. /\ StepsLeft(r) = Queue(r) + 2 + Unwritten(r)
      /\ Unwritten(r)' = Unwritten(r) /\ Unwritten(r) \in {0, 1}
  BY <1>1, <1>2, AheadAt DEF StepsLeft, Unwritten
<1>6. CASE UNCHANGED pc
  <2>1. StepsLeft(r)' = Queue(r)' + 2 + Unwritten(r)
    BY <1>1, <1>5, <1>6, AheadAt DEF StepsLeft
  <2>2. QED
    BY <1>4, <1>5, <2>1, CostsTyped
<1>7. CASE pc'[r] = "fetch" /\ ahead'[r] = ItemsOf(e)
  <2>1. Cardinality(ahead'[r]) \in Nat /\ Cardinality(ahead'[r]) <= Many
    <3>1. ItemsOf(e) \subseteq PostIds
      BY <1>1, ItemsAreRemote DEF IngestInv, TypeOK
    <3>2. QED
      BY <1>7, <3>1, FewPosts
  <2>2. Owed(r)' = (Cardinality(ahead'[r]) + 1) * PageCost
    BY <1>7 DEF Owed
  <2>3. Owed(r)' \in Nat /\ Owed(r)' <= (Many + 1) * PageCost
    <3>1. SUFFICES ASSUME NEW n \in Nat, n = Cardinality(ahead'[r])
                   PROVE  /\ (n + 1) * PageCost \in Nat
                          /\ (n + 1) * PageCost <= (Many + 1) * PageCost
      BY <2>1, <2>2
    <3>2. n + 1 \in Nat /\ Many + 1 \in Nat /\ n + 1 <= Many + 1
      BY <2>1, <3>1, CostsTyped
    <3>3. QED
      BY <3>2, CostsTyped, Products
  <2>4. Len(page'[r]) = 0
    BY <1>1
  <2>5. StepsLeft(r)' = Queue(r)' + Owed(r)' + 3
    <3>1. StepsLeft(r)' = Queue(r)' + Owed(r)' + 2 * Len(page'[r]) + 3
      BY <1>7, AheadAt DEF StepsLeft
    <3>2. QED
      BY <1>4, <2>3, <2>4, <3>1
  <2>6. QED
    BY <1>4, <1>5, <2>3, <2>5, CostsTyped
<1>8. QED
  BY <1>1, <1>6, <1>7

\* The arithmetic of a page: what is owed falls by its cost, which covers a step
\* or two for each of the posts it brings.
LEMMA PageIsPaid ==
  ASSUME NEW q \in Nat, NEW n \in Nat, NEW k \in Nat, NEW size \in Nat, k <= size,
         NEW x \in Nat, NEW y \in Nat, y <= x,
         NEW cost, cost = 2 * size + 2,
         NEW now, now = q + (x + cost) + 2 * n + 3,
         NEW left, left = q + y + 2 * (n + k) + 3 \/ left = q + y + 2 * (n + k) + 4
  PROVE  left < now
  OBVIOUS

\* A page is paid for by the posts it brings for the first time, or is the last.
LEMMA FetchPageDescends ==
  ASSUME IngestInv, NEW r \in Runs, FetchPage(r)
  PROVE  StepsLeft(r)' < StepsLeft(r)
<1>1. PICK a \in [items : SeqOf(ItemsOf(source[r]), PageSize), next : BOOLEAN] :
        /\ a.next => ToSet(a.items) \cap ahead[r] # {}
        /\ page' = [page EXCEPT ![r] = @ \o a.items]
        /\ ahead' = [ahead EXCEPT ![r] = @ \ ToSet(a.items)]
        /\ more' = [more EXCEPT ![r] = a.next]
        /\ pc' = [pc EXCEPT ![r] = IF a.next /\ kind[r] = "thread"
                                   THEN "fetch" ELSE "take"]
  BY DEF FetchPage, Answers, Goto
<1>2. /\ page'[r] = page[r] \o a.items
      /\ ahead'[r] = ahead[r] \ ToSet(a.items)
      /\ more'[r] = a.next
      /\ pc'[r] \in {"fetch", "take"} /\ (pc'[r] = "fetch" => a.next)
      /\ page[r] \in Seq(PostIds) /\ ahead[r] \subseteq PostIds
  BY <1>1 DEF IngestInv, TypeOK
<1>3. /\ pc[r] = "fetch"
      /\ UNCHANGED <<frontier, kind, seen>>
  BY DEF FetchPage
<1>4. PICK k \in 0 .. PageSize : a.items \in Seq(PostIds) /\ Len(a.items) = k
  <2>1. ItemsOf(source[r]) \subseteq PostIds
    BY ItemsAreRemote DEF IngestInv, TypeOK
  <2>2. PICK k \in 0 .. PageSize : a.items \in [1 .. k -> ItemsOf(source[r])]
    BY DEF SeqOf
  <2>3. k \in Nat /\ a.items \in [1 .. k -> PostIds]
    BY <2>1, <2>2, IngestAssumption
  <2>4. a.items \in Seq(PostIds)
    BY <2>3, SeqDef
  <2>5. QED
    BY <2>3, <2>4, LenProperties
<1>5. Len(page'[r]) = Len(page[r]) + k /\ Len(page[r]) \in Nat
  <2>1. Len(page[r] \o a.items) = Len(page[r]) + Len(a.items)
    <3>1. ASSUME NEW s \in Seq(PostIds), NEW t \in Seq(PostIds)
          PROVE  Len(s \o t) = Len(s) + Len(t)
      BY ONLY <3>1, ConcatProperties
    <3>2. QED
      BY <1>2, <1>4, <3>1
  <2>2. QED
    BY <1>2, <1>4, <2>1, LenProperties
<1>6. Queue(r)' = Queue(r)
  BY <1>3, QueueKept
<1> SUFFICES ASSUME NEW q \in Nat, q = Queue(r), NEW c \in Nat, c = Cardinality(ahead[r]),
                    NEW n \in Nat, n = Len(page[r])
             PROVE  StepsLeft(r)' < StepsLeft(r)
  BY SearchTyped
<1>7. (c + 1) * PageCost = c * PageCost + PageCost /\ c * PageCost \in Nat
  BY CostsTyped, Products
<1>8. StepsLeft(r) = q + (c * PageCost + PageCost) + 2 * n + 3
  <2>1. Owed(r) = (c + 1) * PageCost
    BY <1>3 DEF Owed
  <2>2. StepsLeft(r) = q + Owed(r) + 2 * n + 3
    BY <1>3, AheadAt DEF StepsLeft
  <2>3. QED
    BY <1>7, <2>1, <2>2
<1>9. /\ Owed(r)' \in Nat /\ Owed(r)' <= c * PageCost
      /\ \/ StepsLeft(r)' = q + Owed(r)' + 2 * (n + k) + 3
         \/ StepsLeft(r)' = q + Owed(r)' + 2 * (n + k) + 4
  <2>1. Owed(r)' \in Nat /\ Owed(r)' <= c * PageCost
    <3>1. CASE ~a.next
      <4>1. Owed(r)' = 0
        BY <1>2, <3>1 DEF Owed
      <4>2. QED
        BY <1>7, <4>1
    <3>2. CASE a.next
      <4>1. Cardinality(ahead'[r]) \in Nat /\ Cardinality(ahead'[r]) + 1 <= c
        <5>1. PICK p \in ahead[r] : p \in ToSet(a.items)
          BY <1>1, <3>2
        <5>2. ahead'[r] \subseteq ahead[r] \ {p}
          BY <1>2, <5>1
        <5>3. /\ IsFiniteSet(ahead[r] \ {p})
              /\ Cardinality(ahead[r] \ {p}) = c - 1
          BY <1>2, <5>1, FewPosts, FS_RemoveElement
        <5>4. Cardinality(ahead'[r]) <= Cardinality(ahead[r] \ {p})
          BY <5>2, <5>3, FS_Subset
        <5>5. Cardinality(ahead'[r]) \in Nat
          BY <1>2, FewPosts
        <5>6. QED
          BY <5>3, <5>4, <5>5
      <4>2. Owed(r)' = (Cardinality(ahead'[r]) + 1) * PageCost
        BY <1>2, <3>2 DEF Owed
      <4>3. QED
        <5>1. SUFFICES ASSUME NEW d \in Nat, d + 1 <= c
                       PROVE  /\ (d + 1) * PageCost \in Nat
                              /\ (d + 1) * PageCost <= c * PageCost
          BY <4>1, <4>2
        <5>2. d + 1 \in Nat
          OBVIOUS
        <5>3. QED
          BY <5>1, <5>2, CostsTyped, Products
    <3>3. QED
      BY <3>1, <3>2
  <2>2. /\ StepsLeft(r)' = Ahead(pc'[r], q, Owed(r)', n + k, Unwritten(r)')
    BY <1>5, <1>6 DEF StepsLeft
  <2>3. \/ StepsLeft(r)' = q + Owed(r)' + 2 * (n + k) + 3
        \/ StepsLeft(r)' = q + Owed(r)' + 2 * (n + k) + 4
    BY <1>2, <2>2, AheadAt
  <2>4. QED
    BY <2>1, <2>3
<1>10. k \in Nat /\ k <= PageSize /\ PageSize \in Nat /\ PageCost = 2 * PageSize + 2
  BY <1>4, CostsTyped
<1>11. /\ c * PageCost \in Nat /\ Owed(r)' \in Nat /\ k \in Nat /\ PageSize \in Nat
       /\ StepsLeft(r) = q + (c * PageCost + PageCost) + 2 * n + 3
  BY <1>7, <1>8, <1>9, <1>10
<1> DEFINE x == c * PageCost
           y == Owed(r)'
           now == StepsLeft(r)
           left == StepsLeft(r)'
<1> HIDE DEF x, y, now, left
<1>12. /\ x \in Nat /\ y \in Nat /\ y <= x
       /\ now = q + (x + PageCost) + 2 * n + 3
       /\ left = q + y + 2 * (n + k) + 3 \/ left = q + y + 2 * (n + k) + 4
  <2>1. x \in Nat /\ y \in Nat
    BY <1>11 DEF x, y
  <2>2. y <= x
    BY <1>9 DEF x, y
  <2>3. now = q + (x + PageCost) + 2 * n + 3
    BY <1>8 DEF x, now
  <2>4. left = q + y + 2 * (n + k) + 3 \/ left = q + y + 2 * (n + k) + 4
    BY <1>9 DEF y, left
  <2>5. QED
    BY <2>1, <2>2, <2>3, <2>4
<1>13. left < now
  BY ONLY <1>10, <1>12, PageIsPaid, n \in Nat, q \in Nat
<1>14. QED
  BY <1>13 DEF left, now

\* A post is paid for by leaving its page; the edge an engagement run queues for
\* it, by the post being met.
LEMMA TakeKeepsQueue ==
  ASSUME IngestInv, NEW r \in Runs, Take(r)
  PROVE  Queue(r)' = Queue(r)
<1> DEFINE p == Head(page[r])
<1>1. /\ p \in PostIds /\ kind' = kind
      /\ \/ seen' = seen /\ frontier' = frontier
         \/ /\ p \notin seen[r]
            /\ seen' = [seen EXCEPT ![r] = @ \cup {p}]
            /\ \/ kind[r] # "engagement" /\ frontier' = frontier
               \/ /\ kind[r] = "engagement"
                  /\ frontier' = [frontier EXCEPT ![r] =
                       Append(@, EdgeOf("children", p, source[r].depth + 1))]
  BY TakeEffect DEF IngestInv
<1>2. /\ seen[r] \subseteq PostIds /\ seen \in [Runs -> SUBSET PostIds]
      /\ frontier \in [Runs -> Seq(Edges)] /\ source[r] \in Edges
  BY DEF IngestInv, TypeOK
<1>3. CASE kind[r] # "engagement" /\ frontier' = frontier
  BY <1>1, <1>3 DEF Queue, Queued
<1>4. CASE seen' = seen /\ frontier' = frontier
  BY <1>1, <1>4, QueueKept
<1>5. CASE /\ kind[r] = "engagement" /\ p \notin seen[r]
           /\ seen' = [seen EXCEPT ![r] = @ \cup {p}]
           /\ frontier' = [frontier EXCEPT ![r] =
                Append(@, EdgeOf("children", p, source[r].depth + 1))]
  <2>1. EdgeOf("children", p, source[r].depth + 1) \in Edges
    BY <1>1, <1>2 DEF EdgeOf, Edges
  <2>2. Len(frontier'[r]) = Len(frontier[r]) + 1 /\ Len(frontier[r]) \in Nat
    BY <1>2, <1>5, <2>1, AppendProperties, LenProperties
  <2>3. PostIds \ seen'[r] = (PostIds \ seen[r]) \ {p}
    BY <1>2, <1>5
  <2>4. /\ Cardinality(PostIds \ seen[r]) \in Nat
        /\ Cardinality(PostIds \ seen'[r]) = Cardinality(PostIds \ seen[r]) - 1
    <3>1. PostIds \ seen[r] \subseteq PostIds /\ p \in PostIds \ seen[r]
      BY <1>1, <1>5
    <3>2. QED
      BY <2>3, <3>1, FewPosts, FS_RemoveElement
  <2>5. kind'[r] = kind[r]
    BY <1>1
  <2>6. Queued(r)' = Queued(r)
    <3>1. /\ Queued(r) = Len(frontier[r]) + Cardinality(PostIds \ seen[r])
          /\ Queued(r)' = Len(frontier'[r]) + Cardinality(PostIds \ seen'[r])
      BY <1>5, <2>5 DEF Queued
    <3>2. QED
      BY <2>2, <2>4, <3>1
  <2>7. QED
    BY <2>6 DEF Queue
<1>6. QED
  BY <1>1, <1>3, <1>4, <1>5

LEMMA TakeDescends ==
  ASSUME IngestInv, NEW r \in Runs, Take(r)
  PROVE  StepsLeft(r)' < StepsLeft(r)
<1>1. /\ pc[r] = "take" /\ page[r] # <<>>
      /\ page'[r] = Tail(page[r])
      /\ pc'[r] \in {"take", "flush"}
      /\ ahead' = ahead /\ more' = more
  <2>1. TypeOK
    BY DEF IngestInv
  <2>2. /\ pc[r] = "take" /\ page[r] # <<>>
        /\ page' = [page EXCEPT ![r] = Tail(@)]
        /\ pc' = [pc EXCEPT ![r] = IF Full(batch'[r]) THEN "flush" ELSE "take"]
        /\ ahead' = ahead /\ more' = more
    BY <2>1, TakeEffect
  <2>3. QED
    BY <2>1, <2>2 DEF TypeOK
<1>2. Len(page[r]) \in Nat /\ Len(page'[r]) \in Nat /\ Len(page[r]) = Len(page'[r]) + 1
  <2>1. page[r] \in Seq(PostIds)
    BY DEF IngestInv, TypeOK
  <2>2. QED
    BY <1>1, <2>1, HeadTailProperties, EmptySeq, LenProperties
<1>3. Queue(r)' = Queue(r) /\ Owed(r)' = Owed(r)
  BY <1>1, TakeKeepsQueue DEF Owed
<1>4. Queue(r) \in Nat /\ Owed(r) \in Nat
  BY SearchTyped
<1>5. StepsLeft(r) = Queue(r) + Owed(r) + 2 * Len(page[r]) + 4
  BY <1>1, AheadAt DEF StepsLeft
<1>6. CASE pc'[r] = "take"
  <2>1. StepsLeft(r)' = Queue(r) + Owed(r) + 2 * Len(page'[r]) + 4
    BY <1>3, <1>6, AheadAt DEF StepsLeft
  <2>2. QED
    BY <1>2, <1>4, <1>5, <2>1
<1>7. CASE pc'[r] = "flush"
  <2>1. StepsLeft(r)' = Queue(r) + Owed(r) + 2 * Len(page'[r]) + 5
    BY <1>3, <1>7, AheadAt DEF StepsLeft
  <2>2. QED
    BY <1>2, <1>4, <1>5, <2>1
<1>8. QED
  BY <1>1, <1>6, <1>7

LEMMA TurnDescends ==
  ASSUME IngestInv, NEW r \in Runs, Turn(r)
  PROVE  StepsLeft(r)' < StepsLeft(r)
<1>1. /\ pc[r] = "take" /\ page[r] = <<>>
      /\ IF more[r] THEN pc'[r] = "fetch" ELSE pc'[r] = "next"
      /\ UNCHANGED <<frontier, kind, seen, ahead, more, page, batch>>
  BY DEF Turn, Goto, run, IngestInv, TypeOK
<1>2. Queue(r)' = Queue(r) /\ Owed(r)' \in {0, Owed(r)} /\ Unwritten(r)' = Unwritten(r)
  BY <1>1, QueueKept DEF Owed, Unwritten
<1>3. Len(page[r]) = 0 /\ Len(page'[r]) = 0
  BY <1>1
<1> SUFFICES ASSUME NEW q \in Nat, q = Queue(r), NEW e \in Nat, e = Owed(r),
                    NEW f \in Nat, f = Owed(r)',
                    NEW u \in {0, 1}, u = Unwritten(r)
             PROVE  StepsLeft(r)' < StepsLeft(r)
  BY <1>2, SearchTyped
<1>4. StepsLeft(r) = q + e + 4
  <2>1. StepsLeft(r) = q + e + 2 * 0 + 4
    BY <1>1, <1>3, AheadAt DEF StepsLeft
  <2>2. QED
    BY <2>1
<1>5. StepsLeft(r)' = Ahead(pc'[r], q, f, 0, u)
  BY <1>2, <1>3 DEF StepsLeft
<1>6. CASE more[r]
  <2>1. StepsLeft(r)' = q + f + 2 * 0 + 3
    BY <1>1, <1>5, <1>6, AheadAt
  <2>2. f <= e
    BY <1>2
  <2>3. QED
    BY <1>4, <2>1, <2>2
<1>7. CASE ~more[r]
  <2>1. StepsLeft(r)' = q + 2 + u
    BY <1>1, <1>5, <1>7, AheadAt
  <2>2. QED
    BY <1>4, <2>1
<1>8. QED
  BY <1>6, <1>7

LEMMA FlushDescends ==
  ASSUME IngestInv, NEW r \in Runs, Flush(r)
  PROVE  StepsLeft(r)' < StepsLeft(r)
<1>1. /\ \/ pc[r] = "flush" /\ pc'[r] = "take"
         \/ pc[r] = "next" /\ batch[r] # <<>> /\ pc'[r] = "next"
      /\ batch'[r] = <<>>
      /\ UNCHANGED <<frontier, kind, seen, ahead, more, page>>
  BY DEF Flush, Goto, IngestInv, TypeOK
<1>2. Queue(r)' = Queue(r) /\ Unwritten(r)' = 0
  BY <1>1, QueueKept DEF Unwritten
<1>3. Queue(r) \in Nat /\ Owed(r) \in Nat /\ Len(page[r]) \in Nat
  BY SearchTyped
<1>4. CASE pc[r] = "flush" /\ pc'[r] = "take"
  <2>1. Owed(r)' = Owed(r)
    BY <1>1, <1>4 DEF Owed
  <2>2. StepsLeft(r) = Queue(r) + Owed(r) + 2 * Len(page[r]) + 5
    BY <1>4, AheadAt DEF StepsLeft
  <2>3. StepsLeft(r)' = Queue(r) + Owed(r) + 2 * Len(page[r]) + 4
    BY <1>1, <1>2, <1>4, <2>1, AheadAt DEF StepsLeft
  <2>4. QED
    BY <1>3, <2>2, <2>3
<1>5. CASE pc[r] = "next" /\ batch[r] # <<>> /\ pc'[r] = "next"
  <2>1. Unwritten(r) = 1
    BY <1>5 DEF Unwritten
  <2>2. StepsLeft(r) = Queue(r) + 2 + 1
    BY <1>5, <2>1, AheadAt DEF StepsLeft
  <2>3. StepsLeft(r)' = Queue(r) + 2 + 0
    BY <1>2, <1>5, AheadAt DEF StepsLeft
  <2>4. QED
    BY <1>3, <2>2, <2>3
<1>6. QED
  BY <1>1, <1>4, <1>5

\* A run that fails or finishes is over in a step or two.
LEMMA EndingDescends ==
  ASSUME IngestInv, NEW r \in Runs, Fail(r) \/ Finish(r) \/ FinishFailed(r)
  PROVE  StepsLeft(r)' < StepsLeft(r)
<1>1. /\ Queue(r) \in Nat /\ Owed(r) \in Nat /\ Len(page[r]) \in Nat
      /\ Unwritten(r) \in {0, 1} /\ ReadCost \in Nat
  BY SearchTyped, CostsTyped
<1>2. StepsLeft(r) = Ahead(pc[r], Queue(r), Owed(r), Len(page[r]), Unwritten(r))
  BY DEF StepsLeft
<1>3. CASE Fail(r)
  <2>1. /\ pc'[r] = "failed"
        /\ pc[r] \in {"me", "resolve", "seeds", "fetch", "flush", "next"}
        /\ pc[r] = "next" => batch[r] # <<>>
    BY <1>3 DEF Fail, Goto, IngestInv, TypeOK
  <2>2. StepsLeft(r)' = 1
    BY <2>1, AheadAt DEF StepsLeft
  <2>3. CASE pc[r] \in {"me", "resolve", "seeds"}
    BY <1>1, <1>2, <2>2, <2>3, AheadAt
  <2>4. CASE pc[r] = "fetch"
    <3>1. StepsLeft(r) = Queue(r) + Owed(r) + 2 * Len(page[r]) + 3
      BY <1>2, <2>4, AheadAt
    <3>2. QED
      BY <1>1, <2>2, <3>1
  <2>5. CASE pc[r] = "flush"
    <3>1. StepsLeft(r) = Queue(r) + Owed(r) + 2 * Len(page[r]) + 5
      BY <1>2, <2>5, AheadAt
    <3>2. QED
      BY <1>1, <2>2, <3>1
  <2>6. CASE pc[r] = "next"
    <3>1. StepsLeft(r) = Queue(r) + 2 + Unwritten(r)
      BY <1>2, <2>6, AheadAt
    <3>2. QED
      BY <1>1, <2>2, <3>1
  <2>7. QED
    BY <2>1, <2>3, <2>4, <2>5, <2>6
<1>4. CASE Finish(r)
  <2>1. pc[r] = "next" /\ pc'[r] = "done"
    BY <1>4 DEF Finish, Goto, IngestInv, TypeOK
  <2>2. StepsLeft(r)' = 0 /\ StepsLeft(r) = Queue(r) + 2 + Unwritten(r)
    BY <1>2, <2>1, AheadAt DEF StepsLeft
  <2>3. QED
    BY <1>1, <2>2
<1>5. CASE FinishFailed(r)
  <2>1. pc[r] = "failed" /\ pc'[r] = "done"
    BY <1>5 DEF FinishFailed, Goto, IngestInv, TypeOK
  <2>2. StepsLeft(r)' = 0 /\ StepsLeft(r) = 1
    BY <1>2, <2>1, AheadAt DEF StepsLeft
  <2>3. QED
    BY <2>2
<1>6. QED
  BY <1>3, <1>4, <1>5

LEMMA RunDescends ==
  ASSUME IngestInv, NEW r \in Runs, Step(r)
  PROVE  StepsLeft(r)' < StepsLeft(r)
  BY BeginningDescends, OpenDescends, FetchPageDescends, TakeDescends, TurnDescends,
     FlushDescends, EndingDescends DEF Step

\* What another run does leaves a run where it is.
LEMMA OthersKeepSearch ==
  ASSUME IngestInv, NEW r \in Runs, NEW q \in Runs, q # r,
         \/ \E k \in Kinds, top \in OptionOf(PostIds) : Start(q, k, top)
         \/ Step(q)
         \/ Kill(q)
  PROVE  SameSearch(r) /\ batch'[r] = batch[r]
<1>1. /\ DOMAIN pc = Runs /\ DOMAIN kind = Runs /\ DOMAIN more = Runs
      /\ DOMAIN seen = Runs /\ DOMAIN seeds = Runs /\ DOMAIN ahead = Runs
      /\ DOMAIN frontier = Runs /\ DOMAIN source = Runs /\ DOMAIN page = Runs
      /\ DOMAIN batch = Runs
  BY DEF IngestInv, TypeOK
<1>2. CASE \E k \in Kinds, top \in OptionOf(PostIds) : Start(q, k, top)
  BY <1>1, <1>2 DEF Start, Goto, SameSearch
<1>3. CASE RecordMe(q) \/ Fail(q) \/ Finish(q) \/ FinishFailed(q) \/ Kill(q) \/ Turn(q)
  BY <1>1, <1>3
     DEF RecordMe, Fail, Finish, FinishFailed, Kill, Turn, Goto, SameSearch, run
<1>4. CASE ResolveMe(q)
  BY <1>1, <1>4 DEF ResolveMe, Goto, SameSearch
<1>5. CASE ReadSeeds(q)
  BY <1>1, <1>5 DEF ReadSeeds, Goto, SameSearch
<1>6. CASE Open(q)
  BY <1>1, <1>6 DEF Open, Goto, SameSearch
<1>7. CASE FetchPage(q)
  BY <1>1, <1>7 DEF FetchPage, Goto, SameSearch
<1>8. CASE Take(q)
  BY <1>1, <1>8 DEF Take, Keep, Goto, SameSearch
<1>9. CASE Flush(q)
  BY <1>1, <1>9 DEF Flush, Goto, SameSearch
<1>10. QED
  BY <1>2, <1>3, <1>4, <1>5, <1>6, <1>7, <1>8, <1>9 DEF Step

\* Nothing else adds to what a run that was started has ahead of it.
LEMMA SameRunSameSteps ==
  ASSUME NEW r \in Runs, SameSearch(r), batch'[r] = batch[r]
  PROVE  StepsLeft(r)' = StepsLeft(r)
  BY DEF SameSearch, StepsLeft, Queue, Queued, Owed, Unwritten

LEMMA OthersDoNotLengthen ==
  ASSUME IngestInv, NEW r \in Runs, [Next]_vars, ~Step(r), pc[r] # "idle"
  PROVE  StepsLeft(r)' = StepsLeft(r) \/ StepsLeft(r)' = 0
<1>1. CASE UNCHANGED vars
  <2>1. SameSearch(r) /\ batch'[r] = batch[r]
    BY <1>1 DEF vars, run, SameSearch
  <2>2. QED
    BY <2>1, SameRunSameSteps
<1>2. CASE Quiet
  <2>1. SameSearch(r) /\ batch'[r] = batch[r]
    BY <1>2 DEF Quiet, vars, run, SameSearch
  <2>2. QED
    BY <2>1, SameRunSameSteps
<1>3. ASSUME NEW p \in PostIds,
             (\E back \in BOOLEAN : Publish(p, back)) \/ Vanish(p) \/ Erase(p)
      PROVE  StepsLeft(r)' = StepsLeft(r)
  <2>1. SameSearch(r) /\ batch'[r] = batch[r]
    BY <1>3 DEF Publish, Vanish, Erase, run, SameSearch
  <2>2. QED
    BY <2>1, SameRunSameSteps
<1>4. ASSUME NEW q \in Runs, q # r,
             \/ \E k \in Kinds, top \in OptionOf(PostIds) : Start(q, k, top)
             \/ Step(q)
             \/ Kill(q)
      PROVE  StepsLeft(r)' = StepsLeft(r)
  <2>1. SameSearch(r) /\ batch'[r] = batch[r]
    BY <1>4, OthersKeepSearch
  <2>2. QED
    BY <2>1, SameRunSameSteps
<1>5. CASE Kill(r)
  <2>1. pc'[r] = "killed"
    BY <1>5 DEF Kill, Goto, IngestInv, TypeOK
  <2>2. QED
    BY <2>1, AheadAt DEF StepsLeft
<1>6. ASSUME NEW k, NEW top, Start(r, k, top)
      PROVE  FALSE
  BY <1>6 DEF Start
<1>7. QED
  BY <1>1, <1>2, <1>3, <1>4, <1>5, <1>6 DEF Next

LEMMA IdleUnlessStarted ==
  ASSUME IngestInv, NEW r \in Runs, pc[r] = "idle", [Next]_vars, ~Step(r)
  PROVE  \/ \E k \in Kinds, top \in OptionOf(PostIds) : Start(r, k, top)
         \/ pc'[r] = "idle"
<1>1. CASE UNCHANGED pc
  BY <1>1
<1>2. ASSUME NEW q \in Runs, q # r,
             \/ \E k \in Kinds, top \in OptionOf(PostIds) : Start(q, k, top)
             \/ Step(q)
             \/ Kill(q)
      PROVE  pc'[r] = "idle"
  BY <1>2, OthersKeepSearch DEF SameSearch
<1>3. ~Kill(r)
  BY DEF Kill
<1>4. QED
  BY <1>1, <1>2, <1>3 DEF Next, Quiet, Publish, Vanish, Erase, vars

\* Where a run starts, it has all of its steps ahead of it, or one edge to read.
LEMMA StartFits ==
  ASSUME IngestInv, NEW r \in Runs, NEW k \in Kinds, NEW top \in OptionOf(PostIds),
         Start(r, k, top)
  PROVE  StepsLeft(r)' <= ReadCost + 7
<1>1. /\ \/ k = "thread" /\ pc'[r] = "next"
         \/ k # "thread" /\ pc'[r] = "me"
      /\ kind'[r] = k
      /\ k = "thread" => frontier'[r] = <<EdgeOf("conversation", top, 0)>>
  BY DEF Start, Goto, IngestInv, TypeOK
<1>2. CASE k # "thread" /\ pc'[r] = "me"
  <2>1. StepsLeft(r)' = ReadCost + 7
    BY <1>2, AheadAt DEF StepsLeft
  <2>2. QED
    BY <2>1, CostsTyped
<1>3. CASE k = "thread" /\ pc'[r] = "next"
  <2>1. Queued(r)' = 1
    BY <1>1, <1>3 DEF Queued
  <2>2. Queue(r)' = EdgeCost /\ Unwritten(r)' \in {0, 1}
    BY <2>1, CostsTyped DEF Queue, Unwritten
  <2>3. StepsLeft(r)' = Queue(r)' + 2 + Unwritten(r)'
    BY <1>3, AheadAt DEF StepsLeft
  <2>4. EdgeCost \in Nat /\ ReadCost \in Nat /\ EdgeCost <= ReadCost
    BY CostsTyped
  <2>5. QED
    BY <2>2, <2>3, <2>4
<1>4. QED
  BY <1>1, <1>2, <1>3

LEMMA NextKeepsFit ==
  ASSUME IngestInv, StepsCounted, StepsCounted', RunsFit, [Next]_vars
  PROVE  RunsFit'
<1> SUFFICES ASSUME NEW r \in Runs
             PROVE  StepsLeft(r)' \in 0 .. ReadCost + 7
  BY DEF RunsFit
<1>1. StepsLeft(r)' \in Nat
  BY DEF StepsCounted
<1>2. StepsLeft(r) \in Nat /\ StepsLeft(r) <= ReadCost + 7 /\ ReadCost \in Nat
  <2>1. ReadCost \in Nat
    BY CostsTyped
  <2>2. QED
    BY <2>1 DEF RunsFit
<1>3. StepsLeft(r)' <= ReadCost + 7
  <2>1. CASE Step(r)
    <3>1. StepsLeft(r)' < StepsLeft(r)
      BY <2>1, RunDescends
    <3>2. QED
      BY <1>1, <1>2, <3>1
  <2>2. CASE pc[r] # "idle" /\ ~Step(r)
    <3>1. StepsLeft(r)' = StepsLeft(r) \/ StepsLeft(r)' = 0
      BY <2>2, OthersDoNotLengthen
    <3>2. QED
      BY <1>2, <3>1
  <2>3. CASE pc[r] = "idle" /\ ~Step(r)
    <3>1. CASE \E k \in Kinds, top \in OptionOf(PostIds) : Start(r, k, top)
      BY <3>1, StartFits
    <3>2. CASE pc'[r] = "idle"
      <4>1. StepsLeft(r)' = 0
        BY <3>2, AheadAt DEF StepsLeft
      <4>2. QED
        BY <1>2, <4>1
    <3>3. \/ \E k \in Kinds, top \in OptionOf(PostIds) : Start(r, k, top)
          \/ pc'[r] = "idle"
      BY <2>3, IdleUnlessStarted
    <3>4. QED
      BY <3>1, <3>2, <3>3
  <2>4. QED
    BY <2>1, <2>2, <2>3
<1>4. QED
  BY <1>1, <1>2, <1>3

\* Whatever the store held before, and whatever the service answers, vanishes
\* or is asked for at the same time, a run takes a bounded number of steps: at
\* most ReadCost + 7, which the posts, the page size and nothing else determine.
\* Each of its steps brings its end nearer, and no other one puts it off.
THEOREM RunsAreShort ==
  Spec => /\ []RunsFit
          /\ [][\A r \in Runs :
                  /\ Step(r) => StepsLeft(r)' < StepsLeft(r)
                  /\ pc[r] # "idle" => StepsLeft(r)' <= StepsLeft(r)]_vars
<1>1. Init => RunsFit
  <2> SUFFICES ASSUME Init, NEW r \in Runs
               PROVE  StepsLeft(r) \in 0 .. ReadCost + 7
    BY DEF RunsFit
  <2>1. pc[r] = "idle"
    BY DEF Init
  <2>2. StepsLeft(r) = 0
    BY <2>1, AheadAt DEF StepsLeft
  <2>3. ReadCost \in Nat
    BY CostsTyped
  <2>4. QED
    BY <2>2, <2>3
<1>2. IngestInv => StepsCounted
  BY StepsLeftTyped DEF StepsCounted
<1>3. IngestInv /\ StepsCounted /\ StepsCounted' /\ RunsFit /\ [Next]_vars => RunsFit'
  BY NextKeepsFit
<1>4. IngestInv /\ StepsCounted /\ StepsCounted' /\ [Next]_vars =>
        [\A r \in Runs :
            /\ Step(r) => StepsLeft(r)' < StepsLeft(r)
            /\ pc[r] # "idle" => StepsLeft(r)' <= StepsLeft(r)]_vars
  <2> SUFFICES ASSUME IngestInv, StepsCounted, StepsCounted', [Next]_vars, NEW r \in Runs
               PROVE  /\ Step(r) => StepsLeft(r)' < StepsLeft(r)
                      /\ pc[r] # "idle" => StepsLeft(r)' <= StepsLeft(r)
    OBVIOUS
  <2>1. StepsLeft(r) \in Nat /\ StepsLeft(r)' \in Nat
    BY DEF StepsCounted
  <2>2. Step(r) => StepsLeft(r)' < StepsLeft(r)
    BY RunDescends
  <2>3. StepsLeft(r)' < StepsLeft(r) => StepsLeft(r)' <= StepsLeft(r)
    BY <2>1
  <2>4. pc[r] # "idle" /\ ~Step(r) => StepsLeft(r)' = StepsLeft(r) \/ StepsLeft(r)' = 0
    BY OthersDoNotLengthen
  <2>5. StepsLeft(r)' = StepsLeft(r) \/ StepsLeft(r)' = 0 => StepsLeft(r)' <= StepsLeft(r)
    BY <2>1
  <2>6. QED
    BY <2>2, <2>3, <2>4, <2>5
<1>5. QED
  BY <1>1, <1>2, <1>3, <1>4, IngestInvariant, PTL DEF Spec

=============================================================================
