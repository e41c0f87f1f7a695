--------------------------- MODULE PostTablesProofs ---------------------------
(***************************************************************************)
(* What the statements of PostTables return and preserve, for every value  *)
(* of the constants.  Each lemma speaks of one operator and is cited by    *)
(* the proofs about the modules that own the tables.                       *)
(***************************************************************************)
EXTENDS PostTables, FiniteSetTheorems, WellFoundedInduction, TLAPS

\* The fields of a row, and of the tables, have their types.
LEMMA RowFields ==
  ASSUME NEW row \in Row
  PROVE  /\ row.author \in AuthorIds
         /\ row.parent \in OptionOf(PostIds)
         /\ row.root \in OptionOf(PostIds)
         /\ row.mentions \in SUBSET Accounts
         /\ row.quote \in BOOLEAN
         /\ row.content \in OptionOf(Contents)
  BY DEF Row

LEMMA TablesFields ==
  ASSUME NEW t \in Tables
  PROVE  /\ t.users \in [AuthorIds -> OptionOf(Names) \cup {Absent}]
         /\ t.posts \in [PostIds -> Row \cup {Absent}]
         /\ t.edges \in SUBSET Edge
         /\ t = [users |-> t.users, posts |-> t.posts, edges |-> t.edges]
         /\ \A p \in Stored(t) : t.posts[p] \in Row
  BY DEF Tables, Stored

\* A placeholder is not a real id, and every id is one or the other.
LEMMA HandleOrReal ==
  /\ \A a \in AuthorIds : IsHandle(a) <=> a \notin RealIds
  /\ \A n \in Names : At(n) \in AuthorIds /\ IsHandle(At(n))
  /\ RealIds \subseteq AuthorIds
  BY PostModelAssumption DEF IsHandle, AuthorIds, Handles

\* A real id displaces nothing: merging keeps types, and merging a post of a
\* row never loses what the row had.
LEMMA MergeTyped ==
  ASSUME NEW old \in Post, NEW new \in Post
  PROVE  Merge(old, new) \in Post
  BY DEF Merge, Post, PreferReal, OrElse

\* The row written for a post, and the edges derived from it, are well typed.
LEMMA RowOfTyped ==
  ASSUME NEW post \in Post
  PROVE  RowOf(post) \in Row
  BY DEF RowOf, Row, Post

LEMMA EdgesOfTyped ==
  ASSUME NEW p \in PostIds, NEW post, post.parent \in OptionOf(PostIds),
         post.root \in OptionOf(PostIds), post.mentions \in SUBSET Accounts
  PROVE  /\ EdgesOf(p, post) \in SUBSET Edge
         /\ \A e \in EdgesOf(p, post) : e.from = p
  BY DEF EdgesOf, Edge, OptionOf

\* Edges do not depend on the author, so attributing a row leaves them as
\* they are.
LEMMA EdgesIgnoreAuthor ==
  ASSUME NEW p, NEW row \in Row, NEW id
  PROVE  EdgesOf(p, [row EXCEPT !.author = id]) = EdgesOf(p, row)
  BY DEF EdgesOf, Row

LEMMA EdgesOfRowOf ==
  ASSUME NEW p, NEW post
  PROVE  EdgesOf(p, RowOf(post)) = EdgesOf(p, post)
  BY DEF EdgesOf, RowOf

-----------------------------------------------------------------------------

\* reconcile_author_tx re-attributes the placeholder's posts, touches no edge
\* and, although it deletes a users row that posts cascade from, drops none.
LEMMA ReconcileEffect ==
  ASSUME NEW t \in Tables, NEW name \in Names, NEW id \in RealIds
  PROVE  LET r == Reconcile(t, name, id)
         IN  /\ r \in Tables
             /\ r.edges = t.edges
             /\ r.users = [t.users EXCEPT ![id] = name, ![At(name)] = Absent]
             /\ Stored(r) = Stored(t)
             /\ \A p \in Stored(t) :
                  r.posts[p] = IF t.posts[p].author = At(name)
                               THEN [t.posts[p] EXCEPT !.author = id]
                               ELSE t.posts[p]
<1> DEFINE u == UpsertUser(t, id, name)
           m == MovePosts(u, At(name), id)
           r == Reconcile(t, name, id)
<1>1. /\ id \in AuthorIds
      /\ At(name) \in AuthorIds
      /\ id # At(name)
  BY HandleOrReal
<1>2. /\ u.users = [t.users EXCEPT ![id] = name]
      /\ u.posts = t.posts
      /\ u.edges = t.edges
      /\ u \in Tables
  <2>1. u = [users |-> [t.users EXCEPT ![id] = name],
             posts |-> t.posts, edges |-> t.edges]
    BY TablesFields DEF UpsertUser
  <2>2. [t.users EXCEPT ![id] = name]
          \in [AuthorIds -> OptionOf(Names) \cup {Absent}]
    BY TablesFields, <1>1 DEF OptionOf
  <2>3. QED
    BY <2>1, <2>2, TablesFields DEF Tables
<1>3. ByAuthor(u, At(name)) = ByAuthor(t, At(name))
  BY <1>2 DEF ByAuthor, Stored
<1>4. /\ m.users = u.users
      /\ m.edges = u.edges
      /\ m.posts = [p \in PostIds |->
                      IF p \in ByAuthor(t, At(name))
                      THEN [t.posts[p] EXCEPT !.author = id]
                      ELSE t.posts[p]]
  <2> HIDE DEF u
  <2>1. m = [users |-> u.users,
             posts |-> [p \in PostIds |->
                          IF p \in ByAuthor(u, At(name))
                          THEN [u.posts[p] EXCEPT !.author = id]
                          ELSE u.posts[p]],
             edges |-> u.edges]
    BY <1>2, TablesFields DEF MovePosts
  <2>2. QED
    BY <2>1, <1>2, <1>3
<1>5. \A p \in ByAuthor(t, At(name)) : [t.posts[p] EXCEPT !.author = id] \in Row
  BY TablesFields, <1>1 DEF ByAuthor, Stored, Row
<1>6. /\ m \in Tables
      /\ Stored(m) = Stored(t)
      /\ ByAuthor(m, At(name)) = {}
  <2> HIDE DEF u, m
  <2>1. m.posts \in [PostIds -> Row \cup {Absent}]
    BY <1>4, <1>5, TablesFields
  <2>2. Stored(m) = Stored(t)
    <3>1. ASSUME NEW p \in PostIds
          PROVE  m.posts[p] # Absent <=> t.posts[p] # Absent
      <4>1. CASE p \in ByAuthor(t, At(name))
        <5>1. m.posts[p] \in Row
          BY <1>4, <1>5, <4>1
        <5>2. t.posts[p] # Absent
          BY <4>1 DEF ByAuthor, Stored
        <5>3. QED
          BY <5>1, <5>2, PostTablesAssumption
      <4>2. CASE p \notin ByAuthor(t, At(name))
        BY <1>4, <4>2
      <4>3. QED
        BY <4>1, <4>2
    <3>2. QED
      BY <3>1 DEF Stored
  <2>3. ASSUME NEW p \in ByAuthor(m, At(name))
        PROVE  FALSE
    <3>1. p \in Stored(t) /\ m.posts[p].author = At(name)
      BY <2>2, <2>3 DEF ByAuthor
    <3>2. p \in PostIds
      BY <3>1 DEF Stored
    <3>3. CASE p \in ByAuthor(t, At(name))
      <4>1. m.posts[p] = [t.posts[p] EXCEPT !.author = id] /\ t.posts[p] \in Row
        BY <1>4, <3>1, <3>2, <3>3, TablesFields
      <4>2. m.posts[p].author = id
        BY <4>1 DEF Row
      <4>3. QED
        BY <4>2, <3>1, <1>1
    <3>4. CASE p \notin ByAuthor(t, At(name))
      BY <1>4, <3>1, <3>2, <3>4 DEF ByAuthor
    <3>5. QED
      BY <3>3, <3>4
  <2>4. m = [users |-> u.users, posts |-> m.posts, edges |-> u.edges]
    BY <1>4, <1>2, TablesFields DEF m, MovePosts
  <2>5. QED
    BY <2>1, <2>2, <2>3, <2>4, <1>2, TablesFields DEF Tables
<1>7. /\ r.users = [t.users EXCEPT ![id] = name, ![At(name)] = Absent]
      /\ r.posts = m.posts
      /\ r.edges = t.edges
      /\ r \in Tables
  <2>1. r = DropUser(m, At(name))
    BY DEF Reconcile
  <2> HIDE DEF u, m, r
  <2>2. r = [users |-> [m.users EXCEPT ![At(name)] = Absent],
             posts |-> [p \in PostIds |->
                          IF p \in ByAuthor(m, At(name)) THEN Absent
                                                         ELSE m.posts[p]],
             edges |-> m.edges]
    <3>1. PICK mu, mp, me : m = [users |-> mu, posts |-> mp, edges |-> me]
      BY <1>6, TablesFields
    <3>2. QED
      BY <2>1, <3>1 DEF DropUser
  <2>3. [p \in PostIds |-> IF p \in ByAuthor(m, At(name)) THEN Absent
                                                          ELSE m.posts[p]]
        = m.posts
    BY <1>6, TablesFields
  <2>4. [m.users EXCEPT ![At(name)] = Absent]
          \in [AuthorIds -> OptionOf(Names) \cup {Absent}]
    BY <1>6, TablesFields
  <2>5. m.users = [t.users EXCEPT ![id] = name] /\ m.edges = t.edges
    BY <1>4, <1>2
  <2>6. QED
    BY <2>2, <2>3, <2>4, <2>5, <1>6, TablesFields DEF Tables
<1>8. \A p \in Stored(t) :
        r.posts[p] = IF t.posts[p].author = At(name)
                     THEN [t.posts[p] EXCEPT !.author = id]
                     ELSE t.posts[p]
  <2> HIDE DEF u, m, r
  <2> QED
    BY <1>7, <1>4 DEF ByAuthor, Stored
<1>9. Stored(r) = Stored(t)
  <2> HIDE DEF u, m, r
  <2> QED
    BY <1>7, <1>6 DEF Stored
<1>10. QED
  BY <1>7, <1>8, <1>9

-----------------------------------------------------------------------------

\* The row of p and the edges that leave it become those of the post; the
\* author is known to users afterwards; nothing else moves.
LEMMA WriteRowEffect ==
  ASSUME NEW t \in Tables, NEW p \in PostIds, NEW post \in Post
  PROVE  LET w == WriteRow(t, p, post)
         IN  /\ w \in Tables
             /\ w.posts = [t.posts EXCEPT ![p] = RowOf(post)]
             /\ w.edges = {e \in t.edges : e.from # p} \cup EdgesOf(p, post)
             /\ w.users[post.author] # Absent
             /\ \A a \in AuthorIds : t.users[a] # Absent => w.users[a] # Absent
             /\ Stored(w) = Stored(t) \cup {p}
<1> DEFINE w == WriteRow(t, p, post)
           name == IF post.name # None \/ t.users[post.author] = Absent
                   THEN post.name ELSE t.users[post.author]
<1>1. /\ post.author \in AuthorIds
      /\ post.name \in OptionOf(Names)
      /\ post.parent \in OptionOf(PostIds)
      /\ post.root \in OptionOf(PostIds)
      /\ post.mentions \in SUBSET Accounts
  BY DEF Post
<1>2. /\ w.users = [t.users EXCEPT ![post.author] = name]
      /\ w.posts = [t.posts EXCEPT ![p] = RowOf(post)]
      /\ w.edges = {e \in t.edges : e.from # p} \cup EdgesOf(p, post)
      /\ w = [users |-> w.users, posts |-> w.posts, edges |-> w.edges]
  BY DEF WriteRow
<1>3. name \in OptionOf(Names) /\ name # Absent
  <2>1. post.name # Absent
    BY <1>1, PostTablesAssumption
  <2>2. t.users[post.author] \in OptionOf(Names) \cup {Absent}
    BY <1>1, TablesFields
  <2>3. QED
    BY <2>1, <2>2, <1>1
<1>4. RowOf(post) \in Row /\ RowOf(post) # Absent
  BY RowOfTyped, PostTablesAssumption
<1> HIDE DEF w, name
<1>5. w \in Tables
  <2>1. w.users \in [AuthorIds -> OptionOf(Names) \cup {Absent}]
    <3>1. t.users \in [AuthorIds -> OptionOf(Names) \cup {Absent}]
      BY TablesFields
    <3>2. w.users = [t.users EXCEPT ![post.author] = name]
      BY <1>2
    <3>3. QED
      BY <3>1, <3>2, <1>3
  <2>2. w.posts \in [PostIds -> Row \cup {Absent}]
    BY <1>2, <1>4, TablesFields
  <2>3. w.edges \in SUBSET Edge
    BY <1>2, <1>1, EdgesOfTyped, TablesFields
  <2>4. QED
    BY <2>1, <2>2, <2>3, <1>2 DEF Tables
<1>6. /\ w.users[post.author] # Absent
      /\ \A a \in AuthorIds : t.users[a] # Absent => w.users[a] # Absent
  BY <1>2, <1>3, <1>1, TablesFields
<1>7. Stored(w) = Stored(t) \cup {p}
  BY <1>2, <1>4, TablesFields DEF Stored
<1>8. QED
  BY <1>2, <1>5, <1>6, <1>7 DEF w

\* delete_post removes the row and every edge at either end, only that.
LEMMA DeleteRowEffect ==
  ASSUME NEW t \in Tables, NEW p \in PostIds
  PROVE  LET d == DeleteRow(t, p)
         IN  /\ d \in Tables
             /\ d.users = t.users
             /\ d.posts = [t.posts EXCEPT ![p] = Absent]
             /\ d.edges = {e \in t.edges : e.from # p /\ e.to # p}
             /\ Stored(d) = Stored(t) \ {p}
<1> DEFINE d == DeleteRow(t, p)
<1>1. /\ d.users = t.users
      /\ d.posts = [t.posts EXCEPT ![p] = Absent]
      /\ d.edges = {e \in t.edges : e.from # p /\ e.to # p}
      /\ d = [users |-> d.users, posts |-> d.posts, edges |-> d.edges]
  BY DEF DeleteRow
<1> HIDE DEF d
<1>2. d \in Tables
  <2>1. /\ d.posts \in [PostIds -> Row \cup {Absent}]
        /\ d.users \in [AuthorIds -> OptionOf(Names) \cup {Absent}]
        /\ d.edges \in SUBSET Edge
    BY <1>1, TablesFields
  <2>2. QED
    BY <1>1, <2>1 DEF Tables
<1>3. Stored(d) = Stored(t) \ {p}
  BY <1>1, TablesFields DEF Stored
<1>4. QED
  BY <1>1, <1>2, <1>3 DEF d

-----------------------------------------------------------------------------

\* Every stored post's author has a users row, so load_post finds the post.
Joined(t) == \A p \in Stored(t) : t.users[t.posts[p].author] # Absent

LEMMA LoadPostTyped ==
  ASSUME NEW t \in Tables, Joined(t), NEW p \in Stored(t)
  PROVE  LoadPost(t, p) \in Post
<1>1. /\ p \in PostIds
      /\ t.posts[p] \in Row
  BY TablesFields DEF Stored
<1>2. t.posts[p].author \in AuthorIds
  BY <1>1, RowFields
<1>3. t.users[t.posts[p].author] \in OptionOf(Names)
  BY <1>2, TablesFields DEF Joined
<1>4. QED
  BY <1>1, <1>3, RowFields DEF LoadPost, Post

LEMMA EffectiveTyped ==
  ASSUME NEW t \in Tables, Joined(t), NEW p \in PostIds, NEW fetched \in Post
  PROVE  Effective(t, p, fetched) \in Post
  BY LoadPostTyped, MergeTyped DEF Effective

\* Resolving a placeholder leaves no stored post without its users row.
LEMMA ReconcileJoined ==
  ASSUME NEW t \in Tables, Joined(t), NEW name \in Names, NEW id \in RealIds
  PROVE  Joined(Reconcile(t, name, id))
<1> DEFINE r == Reconcile(t, name, id)
<1>1. id \in AuthorIds /\ At(name) \in AuthorIds /\ id # At(name)
  BY HandleOrReal
<1>2. name # Absent
  BY PostTablesAssumption DEF OptionOf
<1>3. /\ r.users = [t.users EXCEPT ![id] = name, ![At(name)] = Absent]
      /\ Stored(r) = Stored(t)
      /\ \A p \in Stored(t) :
           r.posts[p] = IF t.posts[p].author = At(name)
                        THEN [t.posts[p] EXCEPT !.author = id]
                        ELSE t.posts[p]
  BY ReconcileEffect
<1> HIDE DEF r
<1>4. /\ r.users[id] # Absent
      /\ \A a \in AuthorIds \ {At(name)} :
           t.users[a] # Absent => r.users[a] # Absent
  BY <1>1, <1>2, <1>3, TablesFields
<1>5. ASSUME NEW p \in Stored(t)
      PROVE  r.users[r.posts[p].author] # Absent
  <2>1. t.posts[p] \in Row /\ t.posts[p].author \in AuthorIds
    BY TablesFields, RowFields
  <2>2. CASE t.posts[p].author = At(name)
    <3>1. r.posts[p] = [t.posts[p] EXCEPT !.author = id]
      BY <1>3, <2>2
    <3>2. r.posts[p].author = id
      BY <3>1, <2>1 DEF Row
    <3>3. QED
      BY <3>2, <1>4
  <2>3. CASE t.posts[p].author # At(name)
    BY <1>3, <1>4, <2>1, <2>3 DEF Joined
  <2>4. QED
    BY <2>2, <2>3
<1>6. QED
  BY <1>3, <1>5 DEF Joined, r

\* What upsert_post_tx does to the tables, in one statement: the post's row
\* and edges are written, and, when the post carries a real author and a name,
\* the placeholder's other posts are attributed to that author.
LEMMA UpsertEffect ==
  ASSUME NEW t \in Tables, Joined(t), NEW p \in PostIds, NEW fetched \in Post
  PROVE  LET post == Effective(t, p, fetched)
             u == Upsert(t, p, fetched)
             resolves == ~IsHandle(post.author) /\ post.name # None
         IN  /\ u \in Tables
             /\ Joined(u)
             /\ Stored(u) = Stored(t) \cup {p}
             /\ u.posts[p] = RowOf(post)
             /\ u.edges = {e \in t.edges : e.from # p} \cup EdgesOf(p, post)
             /\ \A q \in Stored(t) \ {p} :
                  u.posts[q] = IF resolves /\ t.posts[q].author = At(post.name)
                               THEN [t.posts[q] EXCEPT !.author = post.author]
                               ELSE t.posts[q]
<1> DEFINE post == Effective(t, p, fetched)
           u == Upsert(t, p, fetched)
           resolves == ~IsHandle(post.author) /\ post.name # None
           k == IF resolves THEN Reconcile(t, post.name, post.author) ELSE t
<1>1. /\ post \in Post
      /\ post.author \in AuthorIds
      /\ post.name \in OptionOf(Names)
  BY EffectiveTyped DEF Post
<1>2. resolves => post.author \in RealIds /\ post.name \in Names
  <2> HIDE DEF post
  <2> QED
    BY <1>1, HandleOrReal DEF OptionOf
<1>3. u = WriteRow(k, p, post)
  BY DEF Upsert
<1>4. /\ k \in Tables
      /\ Joined(k)
      /\ k.edges = t.edges
      /\ Stored(k) = Stored(t)
      /\ \A q \in Stored(t) :
           k.posts[q] = IF resolves /\ t.posts[q].author = At(post.name)
                        THEN [t.posts[q] EXCEPT !.author = post.author]
                        ELSE t.posts[q]
  <2> HIDE DEF post
  <2>1. CASE resolves
    <3>1. k = Reconcile(t, post.name, post.author)
      BY <2>1
    <3>2. post.author \in RealIds /\ post.name \in Names
      BY <1>2, <2>1
    <3> HIDE DEF k, resolves
    <3>3. Joined(k)
      BY <3>1, <3>2, ReconcileJoined
    <3>4. /\ k \in Tables
          /\ k.edges = t.edges
          /\ Stored(k) = Stored(t)
          /\ \A q \in Stored(t) :
               k.posts[q] = IF t.posts[q].author = At(post.name)
                            THEN [t.posts[q] EXCEPT !.author = post.author]
                            ELSE t.posts[q]
      <4> DEFINE r == Reconcile(t, post.name, post.author)
      <4>1. /\ r \in Tables
            /\ r.edges = t.edges
            /\ Stored(r) = Stored(t)
            /\ \A q \in Stored(t) :
                 r.posts[q] = IF t.posts[q].author = At(post.name)
                              THEN [t.posts[q] EXCEPT !.author = post.author]
                              ELSE t.posts[q]
        BY <3>2, ReconcileEffect, ZenonT(30)
      <4>2. k = r
        BY <3>1
      <4> HIDE DEF r
      <4>3. QED
        BY <4>1, <4>2
    <3>5. QED
      BY <2>1, <3>3, <3>4
  <2>2. CASE ~resolves
    BY <2>2
  <2>3. QED
    BY <2>1, <2>2
<1> HIDE DEF post, k, u
<1>5. /\ u \in Tables
      /\ u.posts = [k.posts EXCEPT ![p] = RowOf(post)]
      /\ u.edges = {e \in k.edges : e.from # p} \cup EdgesOf(p, post)
      /\ u.users[post.author] # Absent
      /\ \A a \in AuthorIds : k.users[a] # Absent => u.users[a] # Absent
      /\ Stored(u) = Stored(k) \cup {p}
  BY <1>1, <1>3, <1>4, WriteRowEffect
<1>6. /\ u.posts[p] = RowOf(post)
      /\ \A q \in Stored(t) \ {p} : u.posts[q] = k.posts[q]
  BY <1>5, <1>4, TablesFields DEF Stored
<1>7. Joined(u)
  <2>1. u.users[u.posts[p].author] # Absent
    BY <1>5, <1>6 DEF RowOf
  <2>2. ASSUME NEW q \in Stored(t) \ {p}
        PROVE  u.users[u.posts[q].author] # Absent
    <3>1. k.posts[q].author \in AuthorIds
      BY <1>4, TablesFields, RowFields
    <3>2. QED
      BY <3>1, <1>4, <1>5, <1>6 DEF Joined
  <2>3. QED
    BY <2>1, <2>2, <1>5, <1>4 DEF Joined
<1>8. QED
  BY <1>4, <1>5, <1>6, <1>7 DEF post, u

-----------------------------------------------------------------------------
(* Numbers *)

\* Every non-empty set of numbers has a least one: what the proofs by induction
\* over levels, batches and histories rest on.
LEMMA LeastNumber ==
  ASSUME NEW S \in SUBSET Nat, S # {}
  PROVE  \E n \in S : \A m \in S : n <= m
<1> DEFINE R == OpToRel(<, Nat)
<1>1. IsWellFoundedOn(R, Nat)
  BY NatLessThanWellFounded
<1>2. \A x, y \in Nat : x < y => <<x, y>> \in R
  BY DEF OpToRel
<1> HIDE DEF R
<1>3. PICK x \in S : \A y \in S : ~ (<<y, x>> \in R)
  BY <1>1, WFMin
<1>4. ASSUME NEW y \in S
      PROVE  x <= y
  <2>1. ~(<<y, x>> \in R)
    BY <1>3
  <2>2. x \in Nat /\ y \in Nat
    OBVIOUS
  <2>3. ~ (y < x)
    BY <1>2, <2>1, <2>2
  <2>4. QED
    BY <2>2, <2>3
<1>5. QED
  BY <1>4

-----------------------------------------------------------------------------
(* Threads *)

\* The posts at each depth of thread_rooted_at's query.
IsTraversal(h, n, t, root) ==
  h = [d \in 0 .. n |-> IF d = 0 THEN {root} ELSE RepliesTo(t, h[d - 1])]

LEMMA TraversalLevels ==
  ASSUME NEW n \in Nat, NEW t, NEW root, NEW h, IsTraversal(h, n, t, root)
  PROVE  /\ DOMAIN h = 0 .. n
         /\ h[0] = {root}
         /\ \A d \in 1 .. n : h[d] = RepliesTo(t, h[d - 1])
<1> DEFINE next(d) == RepliesTo(t, h[d - 1])
<1>1. h = [d \in 0 .. n |-> IF d = 0 THEN {root} ELSE next(d)]
  BY DEF IsTraversal
<1> HIDE DEF next
<1>2. DOMAIN h = 0 .. n /\ h[0] = {root} /\ \A d \in 1 .. n : h[d] = next(d)
  BY <1>1
<1>3. QED
  BY <1>2 DEF next

LEMMA TraversalExists ==
  ASSUME NEW n \in Nat, NEW t, NEW root
  PROVE  \E h : IsTraversal(h, n, t, root)
<1> DEFINE S == {i \in Nat : ~ \E h : IsTraversal(h, i, t, root)}
<1>1. SUFFICES ASSUME S # {}
               PROVE  FALSE
  OBVIOUS
<1>2. PICK i \in S : \A j \in S : i <= j
  BY <1>1, LeastNumber
<1>3. i # 0
  <2>1. IsTraversal([j \in 0 .. 0 |-> {root}], 0, t, root)
    BY DEF IsTraversal
  <2>2. QED
    BY <2>1, <1>2
<1>4. i - 1 \in Nat /\ i - 1 \notin S /\ i \in Nat
  BY <1>2, <1>3
<1>5. PICK h : IsTraversal(h, i - 1, t, root)
  BY <1>4
<1>6. /\ h[0] = {root}
      /\ \A d \in 1 .. i - 1 : h[d] = RepliesTo(t, h[d - 1])
  BY <1>4, <1>5, TraversalLevels
<1> DEFINE g == [j \in 0 .. i |-> IF j = i THEN RepliesTo(t, h[i - 1]) ELSE h[j]]
<1>7. ASSUME NEW j \in 0 .. i
      PROVE  g[j] = IF j = 0 THEN {root} ELSE RepliesTo(t, g[j - 1])
  <2>1. CASE j = i
    <3>1. g[j] = RepliesTo(t, h[i - 1]) /\ g[j - 1] = h[i - 1]
      BY <2>1, <1>3, <1>4
    <3>2. QED
      BY <2>1, <3>1, <1>3
  <2>2. CASE j # i
    <3>1. j \in 0 .. i - 1
      BY <2>2, <1>4
    <3>2. h[j] = IF j = 0 THEN {root} ELSE RepliesTo(t, h[j - 1])
      <4>1. j = 0 \/ j \in 1 .. i - 1
        BY <3>1, <1>4
      <4>2. j \in 1 .. i - 1 => h[j] = RepliesTo(t, h[j - 1])
        BY <1>6
      <4>3. QED
        BY <4>1, <4>2, <1>6
    <3>3. g[j] = h[j] /\ (j # 0 => g[j - 1] = h[j - 1])
      BY <2>2, <3>1, <1>4
    <3>4. QED
      BY <3>2, <3>3
  <2>3. QED
    BY <2>1, <2>2
<1>8. IsTraversal(g, i, t, root)
  <2>1. g = [j \in 0 .. i |-> IF j = 0 THEN {root} ELSE RepliesTo(t, g[j - 1])]
    BY <1>7
  <2>2. QED
    BY <2>1 DEF IsTraversal
<1>9. QED
  BY <1>2, <1>8

\* What the query returns, by depth.
LEMMA ReachedByDepth ==
  ASSUME IsFiniteSet(PostIds), NEW t, NEW root
  PROVE  /\ Cardinality(PostIds) \in Nat
         /\ \E h : /\ IsTraversal(h, Cardinality(PostIds), t, root)
                   /\ Reached(t, root) = UNION {h[d] : d \in 0 .. Cardinality(PostIds)}
<1> DEFINE n == Cardinality(PostIds)
           h == CHOOSE h : IsTraversal(h, n, t, root)
<1>1. n \in Nat
  BY FS_CardinalityType
<1>2. IsTraversal(h, n, t, root)
  BY <1>1, TraversalExists
<1>3. Reached(t, root) = UNION {h[d] : d \in DOMAIN h}
  BY DEF Reached, IsTraversal
<1> HIDE DEF h, n
<1>4. DOMAIN h = 0 .. n
  BY <1>1, <1>2, TraversalLevels
<1>5. QED
  BY <1>1, <1>2, <1>3, <1>4 DEF n

=============================================================================
