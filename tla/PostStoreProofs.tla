---------------------------- MODULE PostStoreProofs ----------------------------
(***************************************************************************)
(* Theorems about PostStore, for every set of posts, accounts, usernames   *)
(* and contents, every service that satisfies ServiceAssumption and        *)
(* PoolAssumption, and any number of fetches, publishes, resolutions,      *)
(* renames and deletes.                                                    *)
(***************************************************************************)
EXTENDS PostStore, PostTablesProofs

\* Usernames are taken from the account's own pool.
HandlesInPool == \A a \in Accounts : handle[a] \in Pool[a]

\* The part of the inductive invariant that is about the tables alone.
StoreInv == TypeOK /\ AuthorsKnown /\ HandlesInPool /\ EdgesMirrorRows

StoreAndAttributionInv == StoreInv /\ AttributionSound

-----------------------------------------------------------------------------
(* What the fetches return *)

LEMMA FetchesTyped ==
  ASSUME TypeOK, NEW p \in PostIds, NEW content \in OptionOf(Contents)
  PROVE  /\ OwnerFetch(p, content) \in Post
         /\ MentionFetch(p, content) \in Post
         /\ ReplyFetch(p, content) \in Post
         /\ SynthesizedPost(p, content) \in Post
<1>1. /\ TrueAuthor[p] \in Accounts
      /\ handle[TrueAuthor[p]] \in Names
      /\ TrueParent[p] \in OptionOf(PostIds)
      /\ TrueRoot[p] \in OptionOf(PostIds)
      /\ TrueQuote[p] \in BOOLEAN
      /\ Me \in Accounts
  BY ServiceAssumption, PoolAssumption DEF TypeOK
<1>2. /\ TrueAuthor[p] \in AuthorIds
      /\ At(handle[TrueAuthor[p]]) \in AuthorIds
      /\ Nobody \in AuthorIds
  BY <1>1 DEF AuthorIds, RealIds, Handles
<1>3. handle[TrueAuthor[p]] \in OptionOf(Names) /\ None \in OptionOf(Names)
      /\ None \in OptionOf(PostIds)
  BY <1>1 DEF OptionOf
<1>4. OwnerFetch(p, content) \in Post
  BY <1>1, <1>2, <1>3 DEF OwnerFetch, OwnerPost, DtoToPost,
     OwnerFields, OrElse, Post
<1>5. MentionFetch(p, content) \in Post
  BY <1>4, <1>1 DEF MentionFetch, MentionPost, OwnerFetch, Post
<1>6. ReplyFetch(p, content) \in Post
  BY <1>1, <1>2, <1>3 DEF ReplyFetch, ReplyPost, DtoToPost,
     ReplyFields, OrElse, Post
<1>7. SynthesizedPost(p, content) \in Post
  BY <1>1, <1>2, <1>3 DEF SynthesizedPost, Post
<1>8. QED
  BY <1>4, <1>5, <1>6, <1>7

\* Every write of Next is an upsert of one of four posts.
LEMMA WriteIsUpsert ==
  ASSUME TypeOK, NEW p \in PostIds, NEW content \in OptionOf(Contents),
         \/ FetchOwn(p, content)
         \/ FetchReply(p, content)
         \/ FetchMention(p, content)
         \/ PublishFetched(p, content)
         \/ PublishSynthesized(p, content)
  PROVE  \E post \in Post : Write(p, post) /\ unwritten' \subseteq unwritten
  BY FetchesTyped
     DEF FetchOwn, FetchReply, FetchMention, PublishFetched, PublishSynthesized

-----------------------------------------------------------------------------
(* StoreInv is inductive *)

LEMMA InitStoreInv == Init => StoreInv
<1> SUFFICES ASSUME Init
             PROVE  StoreInv
  OBVIOUS
<1>1. /\ db \in Tables
      /\ Stored(db) = {}
      /\ db.edges = {}
  BY DEF Init, EmptyTables, Tables, Stored
<1>2. QED
  BY <1>1 DEF Init, StoreInv, TypeOK, AuthorsKnown, HandlesInPool,
              EdgesMirrorRows

\* What a write does to the rows and the edges.
LEMMA WriteEffect ==
  ASSUME StoreInv, NEW p \in PostIds, NEW fetched \in Post, Write(p, fetched)
  PROVE  LET post == Effective(db, p, fetched)
             resolves == ~IsHandle(post.author) /\ post.name # None
         IN  /\ post \in Post
             /\ db' \in Tables
             /\ Joined(db')
             /\ Stored(db') = Stored(db) \cup {p}
             /\ db'.posts[p] = RowOf(post)
             /\ db'.edges = {e \in db.edges : e.from # p} \cup EdgesOf(p, post)
             /\ \A q \in Stored(db) \ {p} :
                  db'.posts[q] = IF resolves /\ db.posts[q].author = At(post.name)
                                 THEN [db.posts[q] EXCEPT !.author = post.author]
                                 ELSE db.posts[q]
<1> DEFINE post == Effective(db, p, fetched)
           resolves == ~IsHandle(post.author) /\ post.name # None
           u == Upsert(db, p, fetched)
<1>1. db \in Tables /\ Joined(db)
  BY DEF StoreInv, TypeOK, AuthorsKnown, Joined
<1>2. /\ u \in Tables
      /\ Joined(u)
      /\ Stored(u) = Stored(db) \cup {p}
      /\ u.posts[p] = RowOf(post)
      /\ u.edges = {e \in db.edges : e.from # p} \cup EdgesOf(p, post)
      /\ \A q \in Stored(db) \ {p} :
           u.posts[q] = IF resolves /\ db.posts[q].author = At(post.name)
                        THEN [db.posts[q] EXCEPT !.author = post.author]
                        ELSE db.posts[q]
  BY <1>1, UpsertEffect
<1>3. db' = u
  BY DEF Write
<1>4. post \in Post
  BY <1>1, EffectiveTyped
<1> HIDE DEF u, post, resolves
<1>5. QED
  BY <1>2, <1>3, <1>4 DEF post, resolves

\* What ResolveMe does to the rows.
LEMMA ResolveEffect ==
  ASSUME StoreInv, ResolveMe
  PROVE  /\ db' \in Tables
         /\ Joined(db')
         /\ db'.edges = db.edges
         /\ Stored(db') = Stored(db)
         /\ \A q \in Stored(db) :
              db'.posts[q] = IF db.posts[q].author = At(handle[Me])
                             THEN [db.posts[q] EXCEPT !.author = Me]
                             ELSE db.posts[q]
<1> DEFINE r == Reconcile(db, handle[Me], Me)
<1>1. db \in Tables /\ Joined(db)
  BY DEF StoreInv, TypeOK, AuthorsKnown, Joined
<1>2. handle[Me] \in Names /\ Me \in RealIds
  BY ServiceAssumption, PoolAssumption DEF StoreInv, TypeOK, RealIds
<1>3. /\ r \in Tables
      /\ r.edges = db.edges
      /\ Stored(r) = Stored(db)
      /\ \A q \in Stored(db) :
           r.posts[q] = IF db.posts[q].author = At(handle[Me])
                        THEN [db.posts[q] EXCEPT !.author = Me]
                        ELSE db.posts[q]
  BY <1>1, <1>2, ReconcileEffect, ZenonT(30)
<1>4. Joined(r)
  BY <1>1, <1>2, ReconcileJoined
<1>5. db' = r
  BY DEF ResolveMe
<1> HIDE DEF r
<1>6. QED
  BY <1>3, <1>4, <1>5

LEMMA WriteKeepsStoreInv ==
  ASSUME StoreInv, NEW p \in PostIds, NEW fetched \in Post, Write(p, fetched),
         unwritten' \subseteq unwritten
  PROVE  StoreInv'
<1> DEFINE post == Effective(db, p, fetched)
           resolves == ~IsHandle(post.author) /\ post.name # None
<1>1. db \in Tables /\ Joined(db)
  BY DEF StoreInv, TypeOK, AuthorsKnown, Joined
<1>2. /\ db' \in Tables
      /\ Joined(db')
      /\ Stored(db') = Stored(db) \cup {p}
      /\ db'.posts[p] = RowOf(post)
      /\ db'.edges = {e \in db.edges : e.from # p} \cup EdgesOf(p, post)
      /\ \A q \in Stored(db) \ {p} :
           db'.posts[q] = IF resolves /\ db.posts[q].author = At(post.name)
                          THEN [db.posts[q] EXCEPT !.author = post.author]
                          ELSE db.posts[q]
      /\ post \in Post
  BY WriteEffect
<1>3. post \in Post
  BY <1>2
<1>4. /\ handle' = handle
      /\ erased' = erased
  BY DEF Write
<1> HIDE DEF post
<1>5. \A q \in Stored(db) : q \in PostIds /\ db.posts[q] \in Row
  BY <1>1, TablesFields DEF Stored
<1>6. \A q \in Stored(db) \ {p} :
        EdgesOf(q, db'.posts[q]) = EdgesOf(q, db.posts[q])
  <2>1. TAKE q \in Stored(db) \ {p}
  <2>2. CASE resolves /\ db.posts[q].author = At(post.name)
    <3>1. db'.posts[q] = [db.posts[q] EXCEPT !.author = post.author]
      BY <1>2, <2>2
    <3>2. QED
      BY <3>1, <1>5, EdgesIgnoreAuthor
  <2>3. CASE ~(resolves /\ db.posts[q].author = At(post.name))
    <3>1. db'.posts[q] = db.posts[q]
      BY <1>2, <2>3
    <3>2. QED
      BY <3>1
  <2>4. QED
    BY <2>2, <2>3
<1>7. EdgesOf(p, db'.posts[p]) = EdgesOf(p, post)
  BY <1>2, EdgesOfRowOf
<1>8. EdgesMirrorRows'
  <2>1. ASSUME NEW e \in db'.edges
        PROVE  /\ e.from \in Stored(db')
               /\ e \in EdgesOf(e.from, db'.posts[e.from])
    <3>1. CASE e \in EdgesOf(p, post)
      <4>1. e.from = p
        BY <3>1, <1>3, EdgesOfTyped DEF Post
      <4>2. QED
        BY <4>1, <3>1, <1>2, <1>7
    <3>2. CASE e \in db.edges /\ e.from # p
      BY <3>2, <1>2, <1>6 DEF StoreInv, EdgesMirrorRows
    <3>3. QED
      BY <3>1, <3>2, <1>2
  <2>2. ASSUME NEW q \in Stored(db'), NEW e \in EdgesOf(q, db'.posts[q])
        PROVE  e \in db'.edges \/ e.to \in erased
    <3>1. CASE q = p
      BY <3>1, <2>2, <1>7, <1>2
    <3>2. CASE q # p
      <4>1. q \in Stored(db) /\ e \in EdgesOf(q, db.posts[q])
        BY <3>2, <2>2, <1>2, <1>6
      <4>2. e.from = q
        BY <4>1, <1>5, RowFields, EdgesOfTyped
      <4>3. QED
        BY <4>1, <4>2, <3>2, <1>2 DEF StoreInv, EdgesMirrorRows
    <3>3. QED
      BY <3>1, <3>2
  <2>3. QED
    BY <2>1, <2>2, <1>4 DEF EdgesMirrorRows
<1>9. TypeOK' /\ AuthorsKnown' /\ HandlesInPool'
  BY <1>2, <1>4 DEF StoreInv, TypeOK, AuthorsKnown, HandlesInPool, Joined
<1>10. QED
  BY <1>8, <1>9 DEF StoreInv

LEMMA ResolveKeepsStoreInv ==
  ASSUME StoreInv, ResolveMe
  PROVE  StoreInv'
<1>1. db \in Tables /\ Joined(db)
  BY DEF StoreInv, TypeOK, AuthorsKnown, Joined
<1>2. /\ db' \in Tables
      /\ Joined(db')
      /\ db'.edges = db.edges
      /\ Stored(db') = Stored(db)
      /\ \A q \in Stored(db) :
           db'.posts[q] = IF db.posts[q].author = At(handle[Me])
                          THEN [db.posts[q] EXCEPT !.author = Me]
                          ELSE db.posts[q]
  BY ResolveEffect
<1>3. handle' = handle /\ unwritten' = unwritten /\ erased' = erased
  BY DEF ResolveMe
<1>4. \A q \in Stored(db) :
        EdgesOf(q, db'.posts[q]) = EdgesOf(q, db.posts[q])
  <2>1. TAKE q \in Stored(db)
  <2>2. CASE db.posts[q].author = At(handle[Me])
    <3>1. db'.posts[q] = [db.posts[q] EXCEPT !.author = Me]
      BY <1>2, <2>2
    <3>2. db.posts[q] \in Row
      BY <1>1, TablesFields
    <3>3. QED
      BY <3>1, <3>2, EdgesIgnoreAuthor
  <2>3. CASE db.posts[q].author # At(handle[Me])
    <3>1. db'.posts[q] = db.posts[q]
      BY <1>2, <2>3
    <3>2. QED
      BY <3>1
  <2>4. QED
    BY <2>2, <2>3
<1>5. EdgesMirrorRows'
  BY <1>2, <1>3, <1>4 DEF StoreInv, EdgesMirrorRows
<1>6. QED
  BY <1>2, <1>3, <1>5
     DEF StoreInv, TypeOK, AuthorsKnown, HandlesInPool, Joined

LEMMA RecordKeepsStoreInv ==
  ASSUME StoreInv, RecordMe
  PROVE  StoreInv'
<1>1. db \in Tables
  BY DEF StoreInv, TypeOK
<1>2. /\ handle[Me] \in Names
      /\ handle[Me] # Absent
      /\ Me \in AuthorIds
  BY ServiceAssumption, PoolAssumption, PostTablesAssumption
     DEF StoreInv, TypeOK, AuthorIds, RealIds, OptionOf
<1>3. /\ db'.users = [db.users EXCEPT ![Me] = handle[Me]]
      /\ db'.posts = db.posts
      /\ db'.edges = db.edges
      /\ db' = [users |-> db'.users, posts |-> db'.posts, edges |-> db'.edges]
  BY <1>1, TablesFields DEF RecordMe, UpsertUser
<1>4. db' \in Tables
  <2>1. db'.users \in [AuthorIds -> OptionOf(Names) \cup {Absent}]
    BY <1>1, <1>2, <1>3, TablesFields DEF OptionOf
  <2>2. QED
    BY <1>1, <1>3, <2>1, TablesFields DEF Tables
<1>5. AuthorsKnown'
  <2>1. \A a \in AuthorIds : db.users[a] # Absent => db'.users[a] # Absent
    BY <1>1, <1>2, <1>3, TablesFields
  <2>2. \A q \in Stored(db) : db.posts[q].author \in AuthorIds
    BY <1>1, TablesFields, RowFields
  <2>3. QED
    BY <2>1, <2>2, <1>3 DEF StoreInv, AuthorsKnown, Stored
<1>6. QED
  BY <1>3, <1>4, <1>5
     DEF RecordMe, StoreInv, TypeOK, HandlesInPool, EdgesMirrorRows, Stored

LEMMA DeleteKeepsStoreInv ==
  ASSUME StoreInv, NEW kind, NEW p \in PostIds, DeleteAs(kind, p)
  PROVE  StoreInv'
<1>1. db \in Tables
  BY DEF StoreInv, TypeOK
<1>2. /\ db' \in Tables
      /\ db'.users = db.users
      /\ db'.posts = [db.posts EXCEPT ![p] = Absent]
      /\ db'.edges = {e \in db.edges : e.from # p /\ e.to # p}
      /\ Stored(db') = Stored(db) \ {p}
  BY <1>1, DeleteRowEffect DEF DeleteAs
<1>3. handle' = handle /\ unwritten' = unwritten /\ erased' = erased \cup {p}
  BY DEF DeleteAs
<1>4. \A q \in Stored(db') : q \in PostIds /\ db'.posts[q] = db.posts[q]
  BY <1>1, <1>2, TablesFields DEF Stored
<1>5. AuthorsKnown'
  BY <1>2, <1>4 DEF StoreInv, AuthorsKnown
<1>6. EdgesMirrorRows'
  <2>1. \A q \in Stored(db') : \A e \in EdgesOf(q, db.posts[q]) : e.from = q
    BY <1>1, <1>2, <1>4, TablesFields, RowFields, EdgesOfTyped
  <2>2. ASSUME NEW e \in db'.edges
        PROVE  /\ e.from \in Stored(db')
               /\ e \in EdgesOf(e.from, db'.posts[e.from])
    BY <2>2, <1>2, <1>4 DEF StoreInv, EdgesMirrorRows
  <2>3. ASSUME NEW q \in Stored(db'), NEW e \in EdgesOf(q, db'.posts[q])
        PROVE  e \in db'.edges \/ e.to \in erased'
    <3>1. q \in Stored(db) /\ q # p /\ e \in EdgesOf(q, db.posts[q])
      BY <1>2, <1>4, <2>3
    <3>2. QED
      BY <3>1, <2>1, <1>2, <1>3 DEF StoreInv, EdgesMirrorRows
  <2>4. QED
    BY <2>2, <2>3 DEF EdgesMirrorRows
<1>7. QED
  BY <1>2, <1>3, <1>5, <1>6 DEF StoreInv, TypeOK, HandlesInPool

LEMMA RenameKeepsStoreInv ==
  ASSUME StoreInv, NEW a \in Accounts, Rename(a)
  PROVE  StoreInv'
<1>1. PICK n \in Pool[a] : handle' = [handle EXCEPT ![a] = n]
  BY DEF Rename
<1>2. n \in Names
  BY ServiceAssumption, PoolAssumption
<1>3. db' = db /\ unwritten' = unwritten /\ erased' = erased
  BY DEF Rename
<1>4. QED
  BY <1>1, <1>2, <1>3
     DEF StoreInv, TypeOK, AuthorsKnown, HandlesInPool, EdgesMirrorRows

LEMMA NextKeepsStoreInv == StoreInv /\ [Next]_vars => StoreInv'
<1> SUFFICES ASSUME StoreInv, [Next]_vars
             PROVE  StoreInv'
  OBVIOUS
<1>1. ASSUME NEW p \in PostIds, NEW content \in OptionOf(Contents),
             \/ FetchOwn(p, content)
             \/ FetchReply(p, content)
             \/ FetchMention(p, content)
             \/ PublishFetched(p, content)
             \/ PublishSynthesized(p, content)
      PROVE  StoreInv'
  BY <1>1, WriteIsUpsert, WriteKeepsStoreInv DEF StoreInv
<1>2. CASE RecordMe
  BY <1>2, RecordKeepsStoreInv
<1>3. CASE ResolveMe
  BY <1>3, ResolveKeepsStoreInv
<1>4. ASSUME NEW kind \in {"post", "reply"}, NEW p \in PostIds, DeleteAs(kind, p)
      PROVE  StoreInv'
  BY <1>4, DeleteKeepsStoreInv
<1>5. ASSUME NEW a \in Accounts, Rename(a)
      PROVE  StoreInv'
  BY <1>5, RenameKeepsStoreInv
<1>6. CASE UNCHANGED vars
  BY <1>6 DEF vars, StoreInv, TypeOK, AuthorsKnown, HandlesInPool,
              EdgesMirrorRows
<1>7. QED
  BY <1>1, <1>2, <1>3, <1>4, <1>5, <1>6 DEF Next

LEMMA StoreInvariant == Spec => []StoreInv
  BY InitStoreInv, NextKeepsStoreInv, PTL DEF Spec

\* The tables, the usernames and the history keep their types.
THEOREM TypeCorrect == Spec => []TypeOK
<1>1. StoreInv => TypeOK
  BY DEF StoreInv
<1>2. QED
  BY <1>1, StoreInvariant, PTL

\* load_post never misses a stored post for want of its author's users row,
\* whatever order fetches, renames and resolutions come in.
THEOREM AuthorsAreKnown == Spec => []AuthorsKnown
<1>1. StoreInv => AuthorsKnown
  BY DEF StoreInv
<1>2. QED
  BY <1>1, StoreInvariant, PTL

\* The edges table agrees with the posts table although no foreign key ties
\* the two.
THEOREM EdgesAgree == Spec => []EdgesMirrorRows
<1>1. StoreInv => EdgesMirrorRows
  BY DEF StoreInv
<1>2. QED
  BY <1>1, StoreInvariant, PTL

-----------------------------------------------------------------------------
(* Nothing is lost *)

\* No step but a delete takes a row away, a delete takes the one it names.
LEMMA StepLosesNothing ==
  ASSUME StoreInv, [Next]_vars
  PROVE  [\A p \in Stored(db) \ Stored(db)' :
            \E kind \in {"post", "reply"} : DeleteAs(kind, p)]_vars
<1> DEFINE Kept == Stored(db) \subseteq Stored(db')
<1>1. ASSUME NEW p \in PostIds, NEW content \in OptionOf(Contents),
             \/ FetchOwn(p, content)
             \/ FetchReply(p, content)
             \/ FetchMention(p, content)
             \/ PublishFetched(p, content)
             \/ PublishSynthesized(p, content)
      PROVE  Kept
  <2>1. PICK post \in Post : Write(p, post)
    BY <1>1, WriteIsUpsert DEF StoreInv
  <2>2. QED
    BY <2>1, WriteEffect
<1>2. CASE RecordMe
  BY <1>2, TablesFields DEF RecordMe, UpsertUser, Stored, StoreInv, TypeOK
<1>3. CASE ResolveMe
  BY <1>3, ResolveEffect
<1>4. ASSUME NEW kind \in {"post", "reply"}, NEW p \in PostIds, DeleteAs(kind, p)
      PROVE  \A q \in Stored(db) \ Stored(db') : DeleteAs(kind, q)
  <2>1. Stored(db') = Stored(db) \ {p}
    BY <1>4, DeleteRowEffect DEF DeleteAs, StoreInv, TypeOK
  <2>2. QED
    BY <2>1, <1>4
<1>5. ASSUME NEW a \in Accounts, Rename(a)
      PROVE  Kept
  BY <1>5 DEF Rename
<1>6. CASE UNCHANGED vars
  BY <1>6
<1>7. QED
  BY <1>1, <1>2, <1>3, <1>4, <1>5, <1>6 DEF Next

\* A post leaves the store only by the delete that names it: dropping a
\* resolved placeholder from users, from which posts cascade, takes none along.
THEOREM NothingLost == Spec => NoSilentLoss
<1>1. StoreInv /\ [Next]_vars
        => [\A p \in Stored(db) \ Stored(db)' :
              \E kind \in {"post", "reply"} : DeleteAs(kind, p)]_vars
  BY StepLosesNothing
<1>2. QED
  BY <1>1, StoreInvariant, PTL DEF Spec, NoSilentLoss

-----------------------------------------------------------------------------
(* Attribution *)

LEMMA RealIsNoHandle ==
  /\ \A a \in RealIds : ~IsHandle(a) /\ \A n \in Names : a # At(n)
  /\ Accounts \subseteq RealIds /\ Nobody \in RealIds
  BY HandleOrReal DEF RealIds, AuthorIds

\* The ids a post may resolve its author's placeholder to.
Speaks(p, author) ==
  author = TrueAuthor[p] \/ (author = Nobody /\ TrueAuthor[p] = Me)

\* The author a write leaves on its own row is one the row may have; when the
\* write also resolves a placeholder, it is one of the account it writes; and
\* a row that had an account for author keeps it, unless the write is synthesized.
LEMMA WrittenAuthor ==
  ASSUME StoreAndAttributionInv,
         NEW p \in PostIds, NEW content \in OptionOf(Contents), NEW fetched \in Post,
         \/ fetched = OwnerFetch(p, content)
         \/ fetched = MentionFetch(p, content)
         \/ fetched = ReplyFetch(p, content)
         \/ fetched = SynthesizedPost(p, content) /\ TrueAuthor[p] = Me
  PROVE  LET post == Effective(db, p, fetched)
         IN  /\ AttributedTo(p, post.author)
             /\ ~IsHandle(post.author) /\ post.name # None
                  => /\ Speaks(p, post.author)
                     /\ post.name \in Pool[TrueAuthor[p]]
             /\ p \in Stored(db) /\ db.posts[p].author \in Accounts
                  => \/ post.author = db.posts[p].author
                     \/ fetched = SynthesizedPost(p, content)
<1> DEFINE post == Effective(db, p, fetched)
           mine == TrueAuthor[p]
<1>1. /\ mine \in Accounts
      /\ handle[mine] \in Pool[mine]
      /\ handle[mine] \in Names
      /\ handle[mine] # None
  BY ServiceAssumption, PoolAssumption, PostModelAssumption
     DEF StoreAndAttributionInv, StoreInv, TypeOK, HandlesInPool
<1>2. ASSUME p \in Stored(db)
      PROVE  /\ db.posts[p].author \in AuthorIds
             /\ AttributedTo(p, db.posts[p].author)
             /\ db.posts[p].author \in Accounts => db.posts[p].author = mine
  <2>1. AttributedTo(p, db.posts[p].author)
    BY <1>2 DEF StoreAndAttributionInv, AttributionSound
  <2>2. db.posts[p].author \in Accounts => db.posts[p].author = mine
    BY <2>1, <1>1, RealIsNoHandle, ServiceAssumption, PoolAssumption, PostModelAssumption
       DEF AttributedTo
  <2>3. db.posts[p].author \in AuthorIds
    BY <1>2, TablesFields, RowFields DEF StoreAndAttributionInv, StoreInv, TypeOK
  <2>4. QED
    BY <2>1, <2>2, <2>3
<1>3. CASE \/ fetched = OwnerFetch(p, content)
           \/ fetched = MentionFetch(p, content)
  <2>1. fetched.author = mine /\ fetched.name = handle[mine]
    BY <1>3 DEF OwnerFetch, OwnerPost, MentionFetch, MentionPost, DtoToPost, OwnerFields
  <2>2. post = fetched
    BY <2>1, <1>1, RealIsNoHandle DEF Effective
  <2>3. QED
    BY <2>1, <2>2, <1>1, <1>2 DEF AttributedTo, Speaks
<1>4. CASE fetched = ReplyFetch(p, content)
  <2>1. fetched.author = At(handle[mine]) /\ fetched.name = handle[mine]
    BY <1>4 DEF ReplyFetch, ReplyPost, DtoToPost, ReplyFields
  <2>2. IsHandle(fetched.author) /\ fetched.author # Nobody
    BY <2>1, <1>1, HandleOrReal, RealIsNoHandle
  <2>3. CASE p \notin Stored(db)
    <3>1. post = fetched
      BY <2>3 DEF Effective
    <3>2. QED
      BY <3>1, <2>1, <2>2, <2>3, <1>1 DEF AttributedTo
  <2>4. CASE p \in Stored(db)
    <3>1. post = Merge(LoadPost(db, p), fetched)
      BY <2>2, <2>4 DEF Effective
    <3>2. /\ post.author = PreferReal(fetched.author, db.posts[p].author)
          /\ post.name = handle[mine]
      BY <3>1, <2>1, <1>1 DEF Merge, LoadPost, OrElse
    <3> HIDE DEF post
    <3>3. CASE IsHandle(db.posts[p].author)
      <4>1. post.author = fetched.author
        BY <3>2, <3>3 DEF PreferReal
      <4>2. db.posts[p].author \notin Accounts
        BY <3>3, RealIsNoHandle
      <4>3. QED
        BY <4>1, <4>2, <2>1, <2>2, <1>1 DEF AttributedTo, post
    <3>4. CASE ~IsHandle(db.posts[p].author)
      <4>1. post.author = db.posts[p].author
        BY <3>2, <3>4, <2>2 DEF PreferReal
      <4>2. Speaks(p, db.posts[p].author)
        <5>1. AttributedTo(p, db.posts[p].author)
          BY <1>2, <2>4
        <5>2. Pool[mine] \subseteq Names
          BY <1>1, ServiceAssumption, PoolAssumption
        <5>3. QED
          BY <5>1, <5>2, <3>4, HandleOrReal DEF AttributedTo, Speaks
      <4>3. QED
        BY <4>1, <4>2, <3>2, <1>1 DEF AttributedTo, Speaks, post
    <3>5. QED
      BY <3>3, <3>4
  <2>5. QED
    BY <2>3, <2>4
<1>5. CASE fetched = SynthesizedPost(p, content) /\ TrueAuthor[p] = Me
  <2>1. fetched.author = Nobody /\ fetched.name = None
    BY <1>5 DEF SynthesizedPost
  <2>2. post = fetched
    BY <2>1, RealIsNoHandle DEF Effective
  <2>3. mine = Me
    BY <1>5
  <2>4. QED
    BY <2>1, <2>2, <2>3, <1>5 DEF AttributedTo
<1>6. QED
  BY <1>3, <1>4, <1>5

\* Resolving a placeholder to the account that holds its name attributes only
\* that account's posts: pools are disjoint.
LEMMA PlaceholderOwner ==
  ASSUME StoreAndAttributionInv, NEW a \in Accounts, NEW n \in Pool[a],
         NEW q \in Stored(db), db.posts[q].author = At(n)
  PROVE  TrueAuthor[q] = a
<1>1. q \in PostIds /\ TrueAuthor[q] \in Accounts
  BY ServiceAssumption, PoolAssumption DEF Stored
<1>2. AttributedTo(q, At(n))
  BY DEF StoreAndAttributionInv, AttributionSound
<1>3. n \in Names
  BY ServiceAssumption, PoolAssumption
<1>4. PICK m \in Pool[TrueAuthor[q]] : At(n) = At(m)
  BY <1>1, <1>2, <1>3, RealIsNoHandle DEF AttributedTo
<1>5. m = n
  BY <1>1, <1>3, <1>4, ServiceAssumption, PoolAssumption, PostModelAssumption
<1>6. QED
  BY <1>1, <1>4, <1>5, ServiceAssumption, PoolAssumption

\* Rows that had an account for author keep it, but for one.
AuthorsStickBut(x) ==
  \A p \in Stored(db) \cap Stored(db') :
    db.posts[p].author \in Accounts
      => db'.posts[p].author = db.posts[p].author \/ p = x

AuthorsStick ==
  \A p \in Stored(db) \cap Stored(db') :
    db.posts[p].author \in Accounts =>
      \/ db'.posts[p].author = db.posts[p].author
      \/ \E content \in OptionOf(Contents) : PublishSynthesized(p, content)

\* Reattributing the rows under a placeholder of account a to a, or mine to the
\* empty id, is sound.
LEMMA ReattributionSound ==
  ASSUME StoreAndAttributionInv, NEW a \in Accounts, NEW n \in Pool[a],
         NEW q \in Stored(db), NEW row,
         NEW id, id = a \/ (id = Nobody /\ a = Me),
         \/ db.posts[q].author # At(n) /\ row = db.posts[q]
         \/ /\ db.posts[q].author = At(n)
            /\ row = [db.posts[q] EXCEPT !.author = id]
  PROVE  /\ AttributedTo(q, row.author)
         /\ db.posts[q].author \in Accounts => row.author = db.posts[q].author
<1>1. CASE db.posts[q].author = At(n)
  <2>1. TrueAuthor[q] = a
    BY <1>1, PlaceholderOwner
  <2>2. db.posts[q] \in Row
    BY TablesFields DEF StoreAndAttributionInv, StoreInv, TypeOK
  <2>3. row.author = id
    BY <1>1, <2>2 DEF Row
  <2>4. db.posts[q].author \notin Accounts
    BY <1>1, RealIsNoHandle, ServiceAssumption, PoolAssumption
  <2>5. QED
    BY <2>1, <2>3, <2>4 DEF AttributedTo
<1>2. CASE db.posts[q].author # At(n)
  BY <1>2 DEF StoreAndAttributionInv, AttributionSound
<1>3. QED
  BY <1>1, <1>2

LEMMA WriteKeepsAttribution ==
  ASSUME StoreAndAttributionInv, NEW p \in PostIds, NEW fetched \in Post,
         Write(p, fetched),
         AttributedTo(p, Effective(db, p, fetched).author),
         LET post == Effective(db, p, fetched)
         IN  ~IsHandle(post.author) /\ post.name # None
               => /\ Speaks(p, post.author)
                  /\ post.name \in Pool[TrueAuthor[p]]
  PROVE  /\ AttributionSound'
         /\ AuthorsStickBut(p)
         /\ db'.posts[p].author = Effective(db, p, fetched).author
<1> DEFINE post == Effective(db, p, fetched)
           resolves == ~IsHandle(post.author) /\ post.name # None
<1>1. /\ Stored(db') = Stored(db) \cup {p}
      /\ db'.posts[p] = RowOf(post)
      /\ \A q \in Stored(db) \ {p} :
           db'.posts[q] = IF resolves /\ db.posts[q].author = At(post.name)
                          THEN [db.posts[q] EXCEPT !.author = post.author]
                          ELSE db.posts[q]
  BY WriteEffect DEF StoreAndAttributionInv
<1>2. resolves => /\ Speaks(p, post.author)
                  /\ post.name \in Pool[TrueAuthor[p]]
  OBVIOUS
<1>4. AttributedTo(p, post.author)
  OBVIOUS
<1>5. db'.posts[p].author = post.author
  BY <1>1 DEF RowOf
<1> HIDE DEF post
<1>6. ASSUME NEW q \in Stored(db) \ {p}
      PROVE  /\ AttributedTo(q, db'.posts[q].author)
             /\ db.posts[q].author \in Accounts
                  => db'.posts[q].author = db.posts[q].author
  <2>1. CASE resolves
    <3>1. db'.posts[q] = IF db.posts[q].author = At(post.name)
                         THEN [db.posts[q] EXCEPT !.author = post.author]
                         ELSE db.posts[q]
      BY <1>1, <2>1
    <3>2. TrueAuthor[p] \in Accounts /\ post.name \in Pool[TrueAuthor[p]]
      BY <1>2, <2>1, ServiceAssumption, PoolAssumption
    <3>3. \/ db.posts[q].author # At(post.name) /\ db'.posts[q] = db.posts[q]
          \/ /\ db.posts[q].author = At(post.name)
             /\ db'.posts[q] = [db.posts[q] EXCEPT !.author = post.author]
      BY <3>1
    <3>4. \/ post.author = TrueAuthor[p]
          \/ post.author = Nobody /\ TrueAuthor[p] = Me
      BY <1>2, <2>1 DEF Speaks
    <3> DEFINE a == TrueAuthor[p]
               n == post.name
               id == post.author
               row == db'.posts[q]
    <3>5. /\ a \in Accounts /\ n \in Pool[a] /\ q \in Stored(db)
          /\ id = a \/ (id = Nobody /\ a = Me)
          /\ \/ db.posts[q].author # At(n) /\ row = db.posts[q]
             \/ /\ db.posts[q].author = At(n)
                /\ row = [db.posts[q] EXCEPT !.author = id]
      BY <3>2, <3>3, <3>4
    <3> HIDE DEF a, n, id, row
    <3>6. /\ AttributedTo(q, row.author)
          /\ db.posts[q].author \in Accounts => row.author = db.posts[q].author
      BY <3>5, ReattributionSound
    <3>7. QED
      BY <3>6 DEF row
  <2>2. CASE ~resolves
    <3>1. db'.posts[q] = db.posts[q]
      BY <1>1, <2>2
    <3>2. QED
      BY <3>1 DEF StoreAndAttributionInv, AttributionSound
  <2>3. QED
    BY <2>1, <2>2
<1>7. AttributionSound'
  BY <1>1, <1>4, <1>5, <1>6 DEF AttributionSound, AttributedTo
<1>8. AuthorsStickBut(p)
  BY <1>1, <1>6 DEF AuthorsStickBut
<1>9. QED
  BY <1>5, <1>7, <1>8 DEF post

LEMMA NextKeepsAttribution ==
  ASSUME StoreAndAttributionInv, [Next]_vars
  PROVE  AttributionSound' /\ AuthorsStick
<1>1. ASSUME NEW p \in PostIds, NEW content \in OptionOf(Contents),
             \/ FetchOwn(p, content)
             \/ FetchReply(p, content)
             \/ FetchMention(p, content)
             \/ PublishFetched(p, content)
             \/ PublishSynthesized(p, content)
      PROVE  AttributionSound' /\ AuthorsStick
  <2>1. PICK fetched \in Post :
          /\ Write(p, fetched)
          /\ \/ fetched = OwnerFetch(p, content)
             \/ fetched = MentionFetch(p, content)
             \/ fetched = ReplyFetch(p, content)
             \/ /\ fetched = SynthesizedPost(p, content)
                /\ TrueAuthor[p] = Me
          /\ fetched = SynthesizedPost(p, content)
               => PublishSynthesized(p, content)
    <3>1. OwnerFetch(p, content).author # Nobody
      BY ServiceAssumption, PostModelAssumption
         DEF OwnerFetch, OwnerPost, DtoToPost, OwnerFields
    <3>2. MentionFetch(p, content).author # Nobody
      BY ServiceAssumption, PostModelAssumption
         DEF MentionFetch, MentionPost, OwnerPost, DtoToPost, OwnerFields
    <3>3. ReplyFetch(p, content).author # Nobody
      <4>1. handle[TrueAuthor[p]] \in Names
        BY ServiceAssumption DEF StoreAndAttributionInv, StoreInv, TypeOK
      <4>2. QED
        BY <4>1, RealIsNoHandle DEF ReplyFetch, ReplyPost, DtoToPost, ReplyFields
    <3>4. SynthesizedPost(p, content).author = Nobody
      BY DEF SynthesizedPost
    <3>5. PublishSynthesized(p, content) => TrueAuthor[p] = Me
      BY PoolAssumption
         DEF PublishSynthesized, StoreAndAttributionInv, StoreInv, TypeOK
    <3>6. TypeOK
      BY DEF StoreAndAttributionInv, StoreInv
    <3>7. QED
      BY <1>1, <3>1, <3>2, <3>3, <3>4, <3>5, <3>6, FetchesTyped
         DEF FetchOwn, FetchReply, FetchMention, PublishFetched,
             PublishSynthesized
  <2>2. /\ AttributionSound'
        /\ AuthorsStickBut(p)
        /\ p \in Stored(db) /\ db.posts[p].author \in Accounts
             => \/ db'.posts[p].author = db.posts[p].author
                \/ PublishSynthesized(p, content)
    BY <2>1, WrittenAuthor, WriteKeepsAttribution
  <2>3. QED
    BY <2>2 DEF AuthorsStick, AuthorsStickBut
<1>2. CASE RecordMe
  <2>1. db'.posts = db.posts
    BY <1>2, TablesFields
       DEF RecordMe, UpsertUser, StoreAndAttributionInv, StoreInv, TypeOK
  <2>2. QED
    BY <2>1 DEF StoreAndAttributionInv, AttributionSound, AttributedTo,
                AuthorsStick, Stored
<1>3. CASE ResolveMe
  <2>1. /\ Stored(db') = Stored(db)
        /\ \A q \in Stored(db) :
             db'.posts[q] = IF db.posts[q].author = At(handle[Me])
                            THEN [db.posts[q] EXCEPT !.author = Me]
                            ELSE db.posts[q]
    BY <1>3, ResolveEffect DEF StoreAndAttributionInv
  <2>2. Me \in Accounts /\ handle[Me] \in Pool[Me]
    BY ServiceAssumption, PoolAssumption DEF StoreAndAttributionInv, StoreInv, HandlesInPool
  <2>3. ASSUME NEW q \in Stored(db)
        PROVE  /\ AttributedTo(q, db'.posts[q].author)
               /\ db.posts[q].author \in Accounts
                    => db'.posts[q].author = db.posts[q].author
    <3>1. \/ /\ db.posts[q].author # At(handle[Me])
             /\ db'.posts[q] = db.posts[q]
          \/ /\ db.posts[q].author = At(handle[Me])
             /\ db'.posts[q] = [db.posts[q] EXCEPT !.author = Me]
      BY <2>1
    <3>2. QED
      BY <3>1, <2>2, ReattributionSound
  <2>4. QED
    BY <2>1, <2>3 DEF AttributionSound, AttributedTo, AuthorsStick
<1>4. ASSUME NEW kind \in {"post", "reply"}, NEW p \in PostIds, DeleteAs(kind, p)
      PROVE  AttributionSound' /\ AuthorsStick
  <2>1. /\ Stored(db') = Stored(db) \ {p}
        /\ db'.posts = [db.posts EXCEPT ![p] = Absent]
    BY <1>4, DeleteRowEffect DEF DeleteAs, StoreAndAttributionInv, StoreInv, TypeOK
  <2>2. \A q \in Stored(db') : q \in Stored(db) /\ db'.posts[q] = db.posts[q]
    BY <2>1, TablesFields
       DEF StoreAndAttributionInv, StoreInv, TypeOK, Stored
  <2>3. QED
    BY <2>2 DEF StoreAndAttributionInv, AttributionSound, AttributedTo,
                AuthorsStick
<1>5. ASSUME NEW a \in Accounts, Rename(a)
      PROVE  AttributionSound' /\ AuthorsStick
  BY <1>5 DEF Rename, StoreAndAttributionInv, AttributionSound, AttributedTo,
              AuthorsStick
<1>6. CASE UNCHANGED vars
  BY <1>6 DEF vars, StoreAndAttributionInv, AttributionSound, AttributedTo,
              AuthorsStick
<1>7. QED
  BY <1>1, <1>2, <1>3, <1>4, <1>5, <1>6 DEF Next

LEMMA AttributionInvariant == Spec => []StoreAndAttributionInv
<1>1. Init => StoreAndAttributionInv
  <2> SUFFICES ASSUME Init PROVE StoreAndAttributionInv
    OBVIOUS
  <2>1. Stored(db) = {}
    BY DEF Init, EmptyTables, Stored
  <2>2. QED
    BY <2>1, InitStoreInv DEF StoreAndAttributionInv, AttributionSound
<1>2. StoreAndAttributionInv /\ [Next]_vars => StoreAndAttributionInv'
  BY NextKeepsAttribution, NextKeepsStoreInv DEF StoreAndAttributionInv
<1>3. QED
  BY <1>1, <1>2, PTL DEF Spec

\* Placeholders, renames and resolutions never mix up authors: each stored post
\* belongs to the account that wrote it, or to a placeholder of a username that
\* account has held, or, when it is mine, to the empty id of synthesized posts.
THEOREM AttributionIsSound == Spec => []AttributionSound
<1>1. StoreAndAttributionInv => AttributionSound
  BY DEF StoreAndAttributionInv
<1>2. QED
  BY <1>1, AttributionInvariant, PTL

\* A post attributed to an account stays with it as long as it is stored, but for
\* the late write of a publisher that could not fetch the post back.
THEOREM AttributionIsPermanent == Spec => AttributionSticks
<1>1. StoreAndAttributionInv /\ [Next]_vars
        => [\A p \in Stored(db) \cap Stored(db)' :
              db.posts[p].author \in Accounts =>
                \/ db'.posts[p].author = db.posts[p].author
                \/ \E content \in OptionOf(Contents) :
                     PublishSynthesized(p, content)]_vars
  BY NextKeepsAttribution DEF AuthorsStick
<1>2. QED
  BY <1>1, AttributionInvariant, PTL DEF Spec, AttributionSticks

-----------------------------------------------------------------------------
(* What a row says of its post *)

\* What a row says a post replies to, it does reply to.
ParentsAreTrue == \A p \in Stored(db) : db.posts[p].parent \in {None, TrueParent[p]}

PostStoreInv == StoreAndAttributionInv /\ ParentsAreTrue

LEMMA FetchedParents ==
  ASSUME NEW p \in PostIds, NEW content \in OptionOf(Contents), NEW fetched,
         \/ fetched = OwnerFetch(p, content)
         \/ fetched = MentionFetch(p, content)
         \/ fetched = ReplyFetch(p, content)
         \/ fetched = SynthesizedPost(p, content)
  PROVE  fetched.parent \in {None, TrueParent[p]}
<1>1. CASE fetched = OwnerFetch(p, content)
  BY <1>1 DEF OwnerFetch, OwnerPost, DtoToPost, OwnerFields
<1>2. CASE fetched = MentionFetch(p, content)
  <2>1. MentionFetch(p, content).parent = None
    BY DEF MentionFetch, MentionPost, OwnerPost, DtoToPost, OwnerFields
  <2>2. QED
    BY <1>2, <2>1
<1>3. CASE fetched = ReplyFetch(p, content)
  BY <1>3 DEF ReplyFetch, ReplyPost, DtoToPost, ReplyFields
<1>4. CASE fetched = SynthesizedPost(p, content)
  BY <1>4 DEF SynthesizedPost
<1>5. QED
  BY <1>1, <1>2, <1>3, <1>4

\* A row that is given another author keeps the rest.
LEMMA ReattributedRow ==
  ASSUME NEW row \in Row, NEW new, NEW author,
         new = row \/ new = [row EXCEPT !.author = author]
  PROVE  new.parent = row.parent /\ new.root = row.root
  BY DEF Row

LEMMA NextKeepsParents ==
  ASSUME StoreInv, ParentsAreTrue, [Next]_vars
  PROVE  ParentsAreTrue'
<1>0. db \in Tables /\ \A p \in Stored(db) : db.posts[p] \in Row
  BY TablesFields DEF StoreInv, TypeOK
<1>1. ASSUME NEW p \in PostIds, NEW content \in OptionOf(Contents),
             \/ FetchOwn(p, content)
             \/ FetchReply(p, content)
             \/ FetchMention(p, content)
             \/ PublishFetched(p, content)
             \/ PublishSynthesized(p, content)
      PROVE  ParentsAreTrue'
  <2>1. PICK fetched \in Post :
          /\ Write(p, fetched)
          /\ \/ fetched = OwnerFetch(p, content)
             \/ fetched = MentionFetch(p, content)
             \/ fetched = ReplyFetch(p, content)
             \/ fetched = SynthesizedPost(p, content)
    BY <1>1, FetchesTyped
       DEF FetchOwn, FetchReply, FetchMention, PublishFetched,
           PublishSynthesized, StoreInv
  <2> DEFINE post == Effective(db, p, fetched)
  <2>2. /\ Stored(db') = Stored(db) \cup {p}
        /\ db'.posts[p] = RowOf(post)
        /\ \A q \in Stored(db) \ {p} :
             \/ db'.posts[q] = db.posts[q]
             \/ db'.posts[q] = [db.posts[q] EXCEPT !.author = post.author]
    BY <2>1, WriteEffect
  <2>3. fetched.parent \in {None, TrueParent[p]}
    BY <2>1, FetchedParents
  <2>4. post.parent \in {None, TrueParent[p]}
    <3>1. CASE IsHandle(fetched.author) /\ p \in Stored(db)
      <4>1. post.parent = OrElse(fetched.parent, db.posts[p].parent)
        BY <3>1 DEF Effective, Merge, LoadPost
      <4>2. QED
        BY <2>3, <3>1, <4>1 DEF OrElse, ParentsAreTrue
    <3>2. CASE ~(IsHandle(fetched.author) /\ p \in Stored(db))
      BY <2>3, <3>2 DEF Effective
    <3>3. QED
      BY <3>1, <3>2
  <2> HIDE DEF post
  <2>5. db'.posts[p].parent \in {None, TrueParent[p]}
    BY <2>2, <2>4 DEF RowOf
  <2>6. ASSUME NEW q \in Stored(db) \ {p}
        PROVE  db'.posts[q].parent \in {None, TrueParent[q]}
    <3>1. db'.posts[q].parent = db.posts[q].parent
      BY <1>0, <2>2, ReattributedRow
    <3>2. QED
      BY <3>1 DEF ParentsAreTrue
  <2>7. QED
    BY <2>2, <2>5, <2>6 DEF ParentsAreTrue
<1>2. CASE RecordMe
  <2>1. db'.posts = db.posts
    BY <1>2, TablesFields DEF RecordMe, UpsertUser, StoreInv, TypeOK
  <2>2. QED
    BY <2>1 DEF ParentsAreTrue, Stored
<1>3. CASE ResolveMe
  <2>1. /\ Stored(db') = Stored(db)
        /\ \A q \in Stored(db) :
             \/ db'.posts[q] = db.posts[q]
             \/ db'.posts[q] = [db.posts[q] EXCEPT !.author = Me]
    BY <1>3, ResolveEffect
  <2>2. \A q \in Stored(db) : db'.posts[q].parent = db.posts[q].parent
    BY <1>0, <2>1, ReattributedRow
  <2>3. QED
    BY <2>1, <2>2 DEF ParentsAreTrue
<1>4. ASSUME NEW kind \in {"post", "reply"}, NEW p \in PostIds, DeleteAs(kind, p)
      PROVE  ParentsAreTrue'
  <2>1. /\ Stored(db') = Stored(db) \ {p}
        /\ db'.posts = [db.posts EXCEPT ![p] = Absent]
    BY <1>4, DeleteRowEffect DEF DeleteAs, StoreInv, TypeOK
  <2>2. \A q \in Stored(db') : q \in Stored(db) /\ db'.posts[q] = db.posts[q]
    BY <1>0, <2>1, TablesFields DEF Stored
  <2>3. QED
    BY <2>2 DEF ParentsAreTrue
<1>5. ASSUME NEW a \in Accounts, Rename(a)
      PROVE  ParentsAreTrue'
  BY <1>5 DEF Rename, ParentsAreTrue
<1>6. CASE UNCHANGED vars
  BY <1>6 DEF vars, ParentsAreTrue
<1>7. QED
  BY <1>1, <1>2, <1>3, <1>4, <1>5, <1>6 DEF Next

LEMMA PostStoreInvariant == Spec => []PostStoreInv
<1>1. Init => ParentsAreTrue
  <2> SUFFICES ASSUME Init PROVE ParentsAreTrue
    OBVIOUS
  <2>1. Stored(db) = {}
    BY DEF Init, EmptyTables, Stored
  <2>2. QED
    BY <2>1 DEF ParentsAreTrue
<1>2. ParentsAreTrue /\ StoreAndAttributionInv /\ [Next]_vars => ParentsAreTrue'
  BY NextKeepsParents DEF StoreAndAttributionInv
<1>3. QED
  BY <1>1, <1>2, AttributionInvariant, PTL DEF Spec, PostStoreInv

-----------------------------------------------------------------------------
(* Engagement *)

\* What the ranking counts for an author is among the posts of the accounts that
\* author may stand for; what it counts as a reply to me replies to a post of
\* mine.
LEMMA CountedIsWritten ==
  ASSUME PostStoreInv, NEW author
  PROVE  /\ RepliesBy(db, Me, author) \subseteq RepliesToMe(WrittenBy(author))
         /\ MentionsBy(db, Me, author) \subseteq WrittenBy(author)
<1>1. ByAuthor(db, author) \subseteq WrittenBy(author)
  BY DEF ByAuthor, WrittenBy, Stored, PostStoreInv, StoreAndAttributionInv,
         AttributionSound
<1>2. ASSUME NEW q \in ByAuthor(db, Me)
      PROVE  q \in PostIds /\ TrueAuthor[q] = Me
  <2>1. /\ q \in PostIds /\ TrueAuthor[q] \in Accounts
        /\ AttributedTo(q, Me)
    BY ServiceAssumption
       DEF ByAuthor, Stored, PostStoreInv, StoreAndAttributionInv, AttributionSound
  <2>2. Me \in RealIds /\ Me # Nobody /\ Pool[TrueAuthor[q]] \subseteq Names
    BY <2>1, ServiceAssumption, PoolAssumption, PostModelAssumption DEF RealIds
  <2>3. QED
    BY <2>1, <2>2, RealIsNoHandle DEF AttributedTo
<1>3. ASSUME NEW p \in RepliesBy(db, Me, author)
      PROVE  TrueParent[p] # None /\ TrueAuthor[TrueParent[p]] = Me
  <2>1. p \in Stored(db) /\ db.posts[p].parent \in ByAuthor(db, Me)
    BY DEF RepliesBy, ByAuthor
  <2>2. db.posts[p].parent # None
    BY <2>1, <1>2, PostModelAssumption
  <2>3. db.posts[p].parent = TrueParent[p]
    BY <2>1, <2>2 DEF PostStoreInv, ParentsAreTrue
  <2>4. QED
    BY <2>1, <2>2, <2>3, <1>2
<1>4. QED
  BY <1>1, <1>3 DEF RepliesBy, MentionsBy, RepliesToMe

\* Nobody is ranked above what it wrote: the replies to me an author is credited
\* with are no more than those written by the accounts it may stand for, nor the
\* mentions more than their posts, whatever was renamed, resolved or merged.
THEOREM EngagementIsAlwaysEarned == Spec => []EngagementIsEarned
<1>1. PostStoreInv => EngagementIsEarned
  <2> SUFFICES ASSUME PostStoreInv, NEW e \in EngagedAccounts(db, Me)
               PROVE  /\ e.replies <= Cardinality(RepliesToMe(WrittenBy(e.author)))
                      /\ e.mentions <= Cardinality(WrittenBy(e.author))
    BY DEF EngagementIsEarned
  <2>1. PICK a \in AuthorIds :
          e = [author   |-> a,
               replies  |-> Cardinality(RepliesBy(db, Me, a)),
               mentions |-> Cardinality(MentionsBy(db, Me, a))]
    BY DEF EngagedAccounts
  <2>2. /\ IsFiniteSet(WrittenBy(a)) /\ IsFiniteSet(RepliesToMe(WrittenBy(a)))
    BY ServiceAssumption, FS_Subset DEF WrittenBy, RepliesToMe
  <2>3. /\ Cardinality(RepliesBy(db, Me, a)) <= Cardinality(RepliesToMe(WrittenBy(a)))
        /\ Cardinality(MentionsBy(db, Me, a)) <= Cardinality(WrittenBy(a))
    BY <2>2, CountedIsWritten, FS_Subset
  <2>4. QED
    BY <2>1, <2>3
<1>2. QED
  BY <1>1, PostStoreInvariant, PTL

-----------------------------------------------------------------------------
(* Sparser fetches *)

\* A reply edge carries no owner, no media and no quote flag: what a fuller fetch
\* stored of a post survives its being fetched over such an edge again.
THEOREM ReplyFetchesLoseNothing == Spec => ReplyFetchLosesNothing
<1>1. ASSUME StoreInv, NEW p \in Stored(db), NEW content \in OptionOf(Contents),
             FetchReply(p, content)
      PROVE  NoPoorer(db.posts[p], db'.posts[p])
  <2> DEFINE fetched == ReplyFetch(p, content)
             mine == TrueAuthor[p]
             old == db.posts[p]
             post == Effective(db, p, fetched)
  <2>1. p \in PostIds /\ old \in Row
    BY <1>1, TablesFields DEF Stored, StoreInv, TypeOK
  <2>2. Write(p, fetched) /\ fetched \in Post
    BY <1>1, <2>1, FetchesTyped DEF FetchReply, StoreInv
  <2>3. db'.posts[p] = RowOf(post)
    BY <1>1, <2>1, <2>2, WriteEffect
  <2>4. /\ fetched.author = At(handle[mine])
        /\ fetched.mentions = {}
    BY DEF ReplyFetch, ReplyPost, DtoToPost, ReplyFields
  <2>5. handle[mine] \in Names
    BY <1>1, <2>1, ServiceAssumption DEF StoreInv, TypeOK
  <2>6. IsHandle(fetched.author)
    BY <2>4, <2>5, HandleOrReal
  <2>7. post = Merge(LoadPost(db, p), fetched)
    BY <2>6 DEF Effective
  <2> HIDE DEF fetched
  <2>8. /\ post.author = PreferReal(fetched.author, old.author)
        /\ post.content = OrElse(fetched.content, old.content)
        /\ post.parent = OrElse(fetched.parent, old.parent)
        /\ post.root = OrElse(fetched.root, old.root)
        /\ post.quote = (old.quote \/ fetched.quote)
        /\ post.mentions = old.mentions
    BY <2>4, <2>7 DEF Merge, LoadPost
  <2> HIDE DEF post
  <2>9. /\ db'.posts[p].author = post.author
        /\ db'.posts[p].content = post.content
        /\ db'.posts[p].parent = post.parent
        /\ db'.posts[p].root = post.root
        /\ db'.posts[p].quote = post.quote
        /\ db'.posts[p].mentions = post.mentions
    BY <2>3 DEF RowOf
  <2>10. old.author \in Accounts => ~IsHandle(old.author)
    BY RealIsNoHandle
  <2> HIDE DEF old
  <2>11. old.author \in Accounts => db'.posts[p].author = old.author
    BY <2>6, <2>8, <2>9, <2>10 DEF PreferReal
  <2>12. /\ old.content # None => db'.posts[p].content # None
         /\ old.parent # None => db'.posts[p].parent # None
         /\ old.root # None => db'.posts[p].root # None
    BY <2>8, <2>9 DEF OrElse
  <2>13. old.quote => db'.posts[p].quote
    BY <2>8, <2>9
  <2>14. old.mentions \subseteq db'.posts[p].mentions
    BY <2>8, <2>9
  <2>15. QED
    BY <2>11, <2>12, <2>13, <2>14 DEF NoPoorer, old
<1>2. StoreInv
        => [\A p \in Stored(db) \cap Stored(db)' :
              ~NoPoorer(db.posts[p], db'.posts[p]) =>
                \A content \in OptionOf(Contents) : ~FetchReply(p, content)]_vars
  BY <1>1
<1>3. QED
  BY <1>2, StoreInvariant, PTL DEF ReplyFetchLosesNothing

-----------------------------------------------------------------------------
(* Threads *)

\* When the reply edges that one set of tables has and another lacks all touch
\* a set of posts, what only the first reaches from a root hangs below that set.
LEMMA OnlyBelowIsCutOff ==
  ASSUME NEW t, NEW u, NEW root, NEW b,
         \A e \in t.edges : e.kind = "reply"
                             => e \in u.edges \/ e.from \in b[0] \/ e.to \in b[0],
         \A d \in 1 .. Cardinality(PostIds) : RepliesTo(t, b[d - 1]) \subseteq b[d]
  PROVE  Reached(t, root)
           \subseteq Reached(u, root) \cup UNION {b[d] : d \in 0 .. Cardinality(PostIds)}
<1> DEFINE n == Cardinality(PostIds)
<1>1. n \in Nat
  BY ReachedByDepth, ServiceAssumption
<1>2. PICK h : /\ IsTraversal(h, n, t, root)
               /\ Reached(t, root) = UNION {h[d] : d \in 0 .. n}
  BY ReachedByDepth, ServiceAssumption
<1>3. PICK k : /\ IsTraversal(k, n, u, root)
               /\ Reached(u, root) = UNION {k[d] : d \in 0 .. n}
  BY ReachedByDepth, ServiceAssumption
<1>4. \A d \in 1 .. n : RepliesTo(t, b[d - 1]) \subseteq b[d]
  OBVIOUS
<1> HIDE DEF n
<1>5. /\ h[0] = {root} /\ k[0] = {root}
      /\ \A d \in 1 .. n : /\ h[d] = RepliesTo(t, h[d - 1])
                           /\ k[d] = RepliesTo(u, k[d - 1])
  BY <1>1, <1>2, <1>3, TraversalLevels
<1> DEFINE Right(d) == \A q \in h[d] : q \in k[d] \/ \E c \in 0 .. d : q \in b[c]
           S == {d \in 0 .. n : ~Right(d)}
<1>6. Right(0)
  BY <1>5
<1>7. ASSUME NEW d \in 1 .. n, Right(d - 1)
      PROVE  Right(d)
  <2> SUFFICES ASSUME NEW q \in h[d], q \notin k[d]
               PROVE  \E c \in 0 .. d : q \in b[c]
    OBVIOUS
  <2>1. PICK e \in t.edges : e.kind = "reply" /\ e.to \in h[d - 1] /\ e.from = q
    BY <1>5 DEF RepliesTo
  <2>2. CASE \E c \in 0 .. d - 1 : e.to \in b[c]
    <3>1. PICK c \in 0 .. d - 1 : e.to \in b[c]
      BY <2>2
    <3>2. c + 1 \in 1 .. n /\ c + 1 \in 0 .. d /\ c + 1 - 1 = c
      BY <1>1
    <3>3. q \in RepliesTo(t, b[c])
      BY <2>1, <3>1 DEF RepliesTo
    <3>4. RepliesTo(t, b[c + 1 - 1]) \subseteq b[c + 1]
      BY <1>4, <3>2
    <3>5. q \in b[c + 1]
      BY <3>2, <3>3, <3>4
    <3>6. QED
      BY <3>2, <3>5
  <2>3. CASE ~ \E c \in 0 .. d - 1 : e.to \in b[c]
    <3>1. e.to \in k[d - 1]
      BY <1>7, <2>1, <2>3
    <3>2. e \notin u.edges
      <4>1. e \in u.edges => q \in RepliesTo(u, k[d - 1])
        BY <2>1, <3>1 DEF RepliesTo
      <4>2. QED
        BY <1>5, <4>1
    <3>3. 0 \in 0 .. d - 1 /\ 0 \in 0 .. d
      BY <1>1
    <3>4. e.to \notin b[0]
      BY <2>3, <3>3
    <3>5. q \in b[0]
      BY <2>1, <3>2, <3>4
    <3>6. QED
      BY <3>3, <3>5
  <2>4. QED
    BY <2>2, <2>3
<1> HIDE DEF Right
<1>8. S = {}
  <2> SUFFICES ASSUME S # {}
               PROVE  FALSE
    OBVIOUS
  <2>1. PICK d \in S : \A j \in S : d <= j
    <3>1. S \in SUBSET Nat
      BY <1>1
    <3> HIDE DEF S
    <3>2. QED
      BY <3>1, LeastNumber
  <2>2. d # 0
    BY <2>1, <1>6
  <2>3. d \in 1 .. n /\ d - 1 \in 0 .. n /\ d - 1 \notin S
    BY <2>1, <2>2, <1>1
  <2>4. QED
    BY <2>1, <2>3, <1>7
<1>9. ASSUME NEW d \in 0 .. n, NEW q \in h[d]
      PROVE  q \in Reached(u, root) \cup UNION {b[c] : c \in 0 .. n}
  <2>1. Right(d)
    BY <1>8
  <2>2. q \in k[d] \/ \E c \in 0 .. d : q \in b[c]
    BY <2>1 DEF Right
  <2>3. \A c \in 0 .. d : c \in 0 .. n
    BY <1>1
  <2>4. QED
    BY <1>3, <2>2, <2>3
<1>10. QED
  BY <1>2, <1>9 DEF n

\* A step that keeps the posts, and the reply edges that do not touch one post,
\* breaks off no more than what hangs below that post.
LEMMA BreaksOnlyBelow ==
  ASSUME NEW root, NEW cut,
         Stored(db) \ {cut} \subseteq Stored(db'),
         \A e \in db.edges : e.kind = "reply"
                              => e \in db'.edges \/ e.from = cut \/ e.to = cut
  PROVE  Broken(root) \subseteq ThreadRootedAt(db, cut)
<1> DEFINE n == Cardinality(PostIds)
<1>1. PICK b : /\ IsTraversal(b, n, db, cut)
               /\ Reached(db, cut) = UNION {b[d] : d \in 0 .. n}
  BY ReachedByDepth, ServiceAssumption
<1>2. n \in Nat
  BY ReachedByDepth, ServiceAssumption
<1> HIDE DEF n
<1>3. b[0] = {cut} /\ 0 \in 0 .. n /\ \A d \in 1 .. n : b[d] = RepliesTo(db, b[d - 1])
  BY <1>1, <1>2, TraversalLevels
<1>4. \A e \in db.edges : e.kind = "reply"
                           => e \in db'.edges \/ e.from \in b[0] \/ e.to \in b[0]
  BY <1>3
<1>5. Reached(db, root) \subseteq Reached(db', root) \cup Reached(db, cut)
  BY <1>1, <1>3, <1>4, OnlyBelowIsCutOff DEF n
<1>6. cut \in Reached(db, cut)
  BY <1>1, <1>3
<1>7. QED
  BY <1>5, <1>6 DEF Broken, ThreadRootedAt

\* A step that keeps the posts and the reply edges breaks nothing off.
LEMMA NothingBreaks ==
  ASSUME NEW root,
         Stored(db) \subseteq Stored(db'),
         \A e \in db.edges : e.kind = "reply" => e \in db'.edges
  PROVE  Broken(root) = {}
<1> DEFINE b == [d \in 0 .. Cardinality(PostIds) |-> {}]
<1>1. Cardinality(PostIds) \in Nat
  BY ReachedByDepth, ServiceAssumption
<1>2. \A d \in 0 .. Cardinality(PostIds) : b[d] = {}
  OBVIOUS
<1> HIDE DEF b
<1>3. \A d \in 1 .. Cardinality(PostIds) : RepliesTo(db, b[d - 1]) \subseteq b[d]
  <2>1. \A d \in 1 .. Cardinality(PostIds) : b[d - 1] = {}
    BY <1>1, <1>2
  <2>2. QED
    BY <2>1 DEF RepliesTo
<1>4. Reached(db, root) \subseteq Reached(db', root)
  <2>1. Reached(db, root) \subseteq Reached(db', root)
          \cup UNION {b[d] : d \in 0 .. Cardinality(PostIds)}
    BY <1>3, OnlyBelowIsCutOff
  <2>2. QED
    BY <1>2, <2>1
<1>5. QED
  BY <1>4 DEF Broken, ThreadRootedAt

\* The reply edge of a stored post goes to the post it replies to.
LEMMA ReplyEdges ==
  ASSUME PostStoreInv, NEW e \in db.edges, e.kind = "reply"
  PROVE  /\ e.from \in Stored(db)
         /\ TrueParent[e.from] # None
         /\ e = [from |-> e.from, to |-> TrueParent[e.from], kind |-> "reply"]
<1>1. e.from \in Stored(db) /\ e \in EdgesOf(e.from, db.posts[e.from])
  BY DEF PostStoreInv, StoreAndAttributionInv, StoreInv, EdgesMirrorRows
<1>2. PICK q \in {db.posts[e.from].parent} \ {None} :
        e = [from |-> e.from, to |-> q, kind |-> "reply"]
  BY <1>1 DEF EdgesOf
<1>3. q = TrueParent[e.from] /\ q # None
  BY <1>1, <1>2 DEF PostStoreInv, ParentsAreTrue
<1>4. QED
  BY <1>1, <1>2, <1>3

\* A write whose row says what the post replies to keeps every reply edge.
LEMMA LinkedWriteKeepsReplyEdges ==
  ASSUME PostStoreInv, NEW p \in PostIds, NEW fetched \in Post, Write(p, fetched),
         TrueParent[p] # None => Effective(db, p, fetched).parent = TrueParent[p]
  PROVE  /\ Stored(db) \subseteq Stored(db')
         /\ \A e \in db.edges : e.kind = "reply" => e \in db'.edges
<1> DEFINE post == Effective(db, p, fetched)
<1>1. StoreInv
  BY DEF PostStoreInv, StoreAndAttributionInv
<1>2. /\ Stored(db') = Stored(db) \cup {p}
      /\ db'.edges = {e \in db.edges : e.from # p} \cup EdgesOf(p, post)
  BY <1>1, WriteEffect
<1>3. TrueParent[p] # None => post.parent = TrueParent[p]
  OBVIOUS
<1> HIDE DEF post
<1>4. TrueParent[p] # None
        => [from |-> p, to |-> TrueParent[p], kind |-> "reply"] \in EdgesOf(p, post)
  BY <1>3 DEF EdgesOf
<1>5. ASSUME NEW e \in db.edges, e.kind = "reply"
      PROVE  e \in db'.edges
  <2>1. /\ e = [from |-> e.from, to |-> TrueParent[e.from], kind |-> "reply"]
        /\ TrueParent[e.from] # None
    BY <1>5, ReplyEdges
  <2>2. CASE e.from = p
    BY <1>2, <1>4, <2>1, <2>2
  <2>3. CASE e.from # p
    BY <1>2, <2>3
  <2>4. QED
    BY <2>2, <2>3
<1>6. QED
  BY <1>2, <1>5

\* So are all writes but those of a mentions page and of a post that was published
\* and fetched back.
LEMMA WriteKeepsReplyEdges ==
  ASSUME PostStoreInv, NEW p \in PostIds, NEW content \in OptionOf(Contents),
         \/ FetchOwn(p, content)
         \/ FetchReply(p, content)
         \/ PublishSynthesized(p, content)
  PROVE  /\ Stored(db) \subseteq Stored(db')
         /\ \A e \in db.edges : e.kind = "reply" => e \in db'.edges
<1>1. TypeOK
  BY DEF PostStoreInv, StoreAndAttributionInv, StoreInv
<1>2. CASE FetchReply(p, content)
  <2> DEFINE fetched == ReplyFetch(p, content)
  <2>1. fetched \in Post /\ Write(p, fetched)
    BY <1>1, <1>2, FetchesTyped DEF FetchReply
  <2>2. fetched.parent = TrueParent[p]
    BY DEF ReplyFetch, ReplyPost, DtoToPost, ReplyFields
  <2> HIDE DEF fetched
  <2>3. TrueParent[p] # None => Effective(db, p, fetched).parent = TrueParent[p]
    BY <2>2 DEF Effective, Merge, LoadPost, OrElse
  <2>4. QED
    BY <2>1, <2>3, LinkedWriteKeepsReplyEdges
<1>3. CASE PublishSynthesized(p, content)
  <2> DEFINE fetched == SynthesizedPost(p, content)
  <2>1. fetched \in Post /\ Write(p, fetched)
    BY <1>1, <1>3, FetchesTyped DEF PublishSynthesized
  <2>2. fetched.parent = TrueParent[p] /\ fetched.author = Nobody
    BY DEF SynthesizedPost
  <2> HIDE DEF fetched
  <2>3. Effective(db, p, fetched).parent = TrueParent[p]
    BY <2>2, RealIsNoHandle DEF Effective
  <2>4. QED
    BY <2>1, <2>3, LinkedWriteKeepsReplyEdges
<1>4. CASE FetchOwn(p, content)
  <2>1. TrueParent[p] = None /\ \E fetched \in Post : Write(p, fetched)
    BY <1>1, <1>4, WriteIsUpsert DEF FetchOwn
  <2>2. QED
    BY <2>1, LinkedWriteKeepsReplyEdges
<1>5. QED
  BY <1>2, <1>3, <1>4

LEMMA StepBreaksOnlyBelow ==
  ASSUME PostStoreInv, [Next]_vars, NEW r \in PostIds, Broken(r) # {}
  PROVE  \E p \in PostIds :
           /\ Broken(r) \subseteq ThreadRootedAt(db, p)
           /\ \/ \E kind \in {"post", "reply"} : DeleteAs(kind, p)
              \/ \E content \in OptionOf(Contents) :
                   FetchMention(p, content) \/ PublishFetched(p, content)
<1>0. TypeOK /\ StoreInv
  BY DEF PostStoreInv, StoreAndAttributionInv, StoreInv
<1>1. ASSUME NEW p \in PostIds, NEW content \in OptionOf(Contents),
             \/ FetchOwn(p, content)
             \/ FetchReply(p, content)
             \/ PublishSynthesized(p, content)
      PROVE  FALSE
  BY <1>1, WriteKeepsReplyEdges, NothingBreaks
<1>2. ASSUME NEW p \in PostIds, NEW content \in OptionOf(Contents),
             FetchMention(p, content) \/ PublishFetched(p, content)
      PROVE  Broken(r) \subseteq ThreadRootedAt(db, p)
  <2>1. PICK fetched \in Post : Write(p, fetched)
    BY <1>0, <1>2, WriteIsUpsert
  <2>2. /\ Stored(db') = Stored(db) \cup {p}
        /\ {e \in db.edges : e.from # p} \subseteq db'.edges
    BY <1>0, <2>1, WriteEffect
  <2>3. QED
    BY <2>2, BreaksOnlyBelow
<1>3. CASE RecordMe
  <2>1. db'.posts = db.posts /\ db'.edges = db.edges
    BY <1>0, <1>3, TablesFields DEF RecordMe, UpsertUser, TypeOK
  <2>2. QED
    BY <2>1, NothingBreaks DEF Stored
<1>4. CASE ResolveMe
  <2>1. Stored(db') = Stored(db) /\ db'.edges = db.edges
    BY <1>0, <1>4, ResolveEffect
  <2>2. QED
    BY <2>1, NothingBreaks
<1>5. ASSUME NEW kind \in {"post", "reply"}, NEW p \in PostIds, DeleteAs(kind, p)
      PROVE  Broken(r) \subseteq ThreadRootedAt(db, p)
  <2>1. /\ Stored(db') = Stored(db) \ {p}
        /\ db'.edges = {e \in db.edges : e.from # p /\ e.to # p}
    BY <1>0, <1>5, DeleteRowEffect DEF DeleteAs, DeleteRow, TypeOK
  <2>2. QED
    BY <2>1, BreaksOnlyBelow
<1>6. CASE (\E a \in Accounts : Rename(a)) \/ UNCHANGED vars
  <2>1. db' = db
    BY <1>6 DEF Rename, vars
  <2>2. QED
    BY <2>1 DEF Broken
<1>7. QED
  BY <1>1, <1>2, <1>3, <1>4, <1>5, <1>6 DEF Next

\* A thread loses posts only by a delete, a page of mentions, or the late write of
\* a publisher, and no more than the post these name and what hangs below it, to
\* any depth.
THEOREM ThreadsAlwaysHold == Spec => ThreadsHold
<1>1. PostStoreInv /\ [Next]_vars
        => [\A r \in PostIds : Broken(r) # {} =>
              \E p \in PostIds :
                /\ Broken(r) \subseteq ThreadRootedAt(db, p)
                /\ \/ \E kind \in {"post", "reply"} : DeleteAs(kind, p)
                   \/ \E content \in OptionOf(Contents) :
                        FetchMention(p, content) \/ PublishFetched(p, content)]_db
  BY StepBreaksOnlyBelow
<1>2. QED
  BY <1>1, PostStoreInvariant, PTL DEF Spec, ThreadsHold

=============================================================================
