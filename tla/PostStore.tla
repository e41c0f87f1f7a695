------------------------------ MODULE PostStore ------------------------------
(***************************************************************************)
(* The local post store under everything the CLI commands write to it, in  *)
(* any order: pages of me/threads, me/replies, post/replies and            *)
(* user/mentions, the post fetched back (or synthesized) after a publish,  *)
(* author resolution, and the local half of a delete.                      *)
(*                                                                         *)
(* The Threads service is the environment: who wrote a post and what it    *)
(* replies to never change, an account may take another username.          *)
(***************************************************************************)
EXTENDS Service, Naturals, FiniteSets

CONSTANTS Pool,      \* the usernames an account may hold over time
          Published  \* posts of mine that `post create` publishes

ASSUME PoolAssumption ==
  /\ Pool \in [Accounts -> SUBSET Names]
  /\ \A a, b \in Accounts : a # b => Pool[a] \cap Pool[b] = {}
  /\ Published \subseteq {p \in PostIds : TrueAuthor[p] = Me}

VARIABLES db,         \* the tables
          handle,     \* the username each account holds now
          unwritten,  \* published posts their command has yet to store
          erased      \* history: posts that were deleted here at some time

vars == <<db, handle, unwritten, erased>>

-----------------------------------------------------------------------------
(* What is written: the author's username is the one held now.             *)

OwnerFetch(p, content)   == OwnerPost(p, handle[TrueAuthor[p]], content)
MentionFetch(p, content) == MentionPost(p, handle[TrueAuthor[p]], content)
ReplyFetch(p, content)   == ReplyPost(p, handle[TrueAuthor[p]], content)

-----------------------------------------------------------------------------

\* A published post is on the service, where other commands find it, before its
\* own command writes it.
Init ==
  /\ db = EmptyTables
  /\ handle \in [Accounts -> Names]
  /\ \A a \in Accounts : handle[a] \in Pool[a]
  /\ unwritten = Published
  /\ erased = {}

Write(p, post) ==
  /\ db' = Upsert(db, p, post)
  /\ UNCHANGED <<handle, erased>>

\* ingest me, first loop
FetchOwn(p, content) ==
  /\ TrueAuthor[p] = Me
  /\ TrueParent[p] = None
  /\ Write(p, OwnerFetch(p, content))
  /\ UNCHANGED unwritten

\* ingest me (second loop), ingest engagement, and ingest thread, whose edge
\* returns the top-level post too.
FetchReply(p, content) ==
  /\ Write(p, ReplyFetch(p, content))
  /\ UNCHANGED unwritten

\* audience refresh
FetchMention(p, content) ==
  /\ Write(p, MentionFetch(p, content))
  /\ UNCHANGED unwritten

\* post create writes what it published once, however late: what other commands
\* have stored of the post meanwhile, or deleted, it does not ask.
PublishFetched(p, content) ==
  /\ p \in unwritten
  /\ Write(p, OwnerFetch(p, content))
  /\ unwritten' = unwritten \ {p}

\* ... the same when the post cannot be fetched back.
PublishSynthesized(p, content) ==
  /\ p \in unwritten
  /\ Write(p, SynthesizedPost(p, content))
  /\ unwritten' = unwritten \ {p}

\* The two store calls every ingest starts with, each its own transaction.
RecordMe ==
  /\ db' = UpsertUser(db, Me, handle[Me])
  /\ UNCHANGED <<handle, unwritten, erased>>

ResolveMe ==
  /\ db' = Reconcile(db, handle[Me], Me)
  /\ UNCHANGED <<handle, unwritten, erased>>

\* delete posts / delete replies: the local half, after the service agreed.
DeleteAs(kind, p) ==
  /\ p \in InWindow(db, Me, kind)
  /\ db' = DeleteRow(db, p)
  /\ erased' = erased \cup {p}
  /\ UNCHANGED <<handle, unwritten>>

\* The service: an account takes another of its usernames.
Rename(a) ==
  /\ \E n \in Pool[a] \ {handle[a]} : handle' = [handle EXCEPT ![a] = n]
  /\ UNCHANGED <<db, unwritten, erased>>

Next ==
  \/ \E p \in PostIds, content \in OptionOf(Contents) :
       \/ FetchOwn(p, content)
       \/ FetchReply(p, content)
       \/ FetchMention(p, content)
       \/ PublishFetched(p, content)
       \/ PublishSynthesized(p, content)
  \/ RecordMe
  \/ ResolveMe
  \/ \E kind \in {"post", "reply"}, p \in PostIds : DeleteAs(kind, p)
  \/ \E a \in Accounts : Rename(a)

Spec == Init /\ [][Next]_vars

-----------------------------------------------------------------------------
(* Properties *)

TypeOK ==
  /\ db \in Tables
  /\ handle \in [Accounts -> Names]
  /\ unwritten \subseteq Published
  /\ erased \subseteq PostIds

\* The author of every stored post has a users row, although rows of users
\* are deleted whenever a placeholder is resolved: load_post, which joins the
\* two tables, never misses a stored post.
AuthorsKnown == \A p \in Stored(db) : db.users[db.posts[p].author] # Absent

\* The edges table, which no foreign key protects, says what the posts table
\* says: every edge is one its stored source would write now, and every edge a
\* stored post would write is there unless a delete has removed its target.
EdgesMirrorRows ==
  /\ \A e \in db.edges :
       /\ e.from \in Stored(db)
       /\ e \in EdgesOf(e.from, db.posts[e.from])
  /\ \A p \in Stored(db) : \A e \in EdgesOf(p, db.posts[p]) :
       e \in db.edges \/ e.to \in erased

\* Authors are never mixed up by placeholders, renames and resolutions: a
\* stored post belongs to the account that wrote it or to a placeholder of a
\* username that account has held.  Synthesized posts have no author, and their
\* empty id may adopt a placeholder: only posts of mine ever belong to it.
AttributedTo(p, author) ==
  \/ author = TrueAuthor[p]
  \/ \E n \in Pool[TrueAuthor[p]] : author = At(n)
  \/ author = Nobody /\ TrueAuthor[p] = Me

AttributionSound == \A p \in Stored(db) : AttributedTo(p, db.posts[p].author)

\* A post leaves the store only by delete: the ON DELETE CASCADE from users
\* never takes posts along when a resolved placeholder is dropped.
NoSilentLoss ==
  [][\A p \in Stored(db) \ Stored(db)' :
       \E kind \in {"post", "reply"} : DeleteAs(kind, p)]_vars

\* No row field of the richer post is lost.
NoPoorer(old, new) ==
  /\ old.author \in Accounts => new.author = old.author
  /\ old.content # None => new.content # None
  /\ old.parent # None => new.parent # None
  /\ old.root # None => new.root # None
  /\ old.quote => new.quote
  /\ old.mentions \subseteq new.mentions

\* Fetching a stored post again over a reply edge, which carries neither owner
\* nor media nor quote flag, loses nothing of what a fuller fetch stored: no step
\* that leaves a post poorer is such a fetch of it.
ReplyFetchLosesNothing ==
  [][\A p \in Stored(db) \cap Stored(db)' :
       ~NoPoorer(db.posts[p], db'.posts[p]) =>
         \A content \in OptionOf(Contents) : ~FetchReply(p, content)]_vars

\* Once a post is attributed to an account, whatever is fetched, renamed or
\* resolved later, it stays with that account as long as it is stored.  One write
\* takes it away: a post of mine that another command stored while it was being
\* published loses me when its publisher, which could not fetch it back, writes
\* it with the empty author.
AttributionSticks ==
  [][\A p \in Stored(db) \cap Stored(db)' :
       db.posts[p].author \in Accounts =>
         \/ db'.posts[p].author = db.posts[p].author
         \/ \E content \in OptionOf(Contents) : PublishSynthesized(p, content)]_vars

\* A thread, as `show --thread` traverses it, keeps its posts while they are
\* fetched again in any order.  Only three things take posts out of it: a delete,
\* a page of mentions, which has no replied_to, and a publisher that writes the
\* post it fetched back, without replied_to either, over what an ingest stored of
\* it meanwhile.  They take no more than the post and what hangs below it.
Broken(r) == ThreadRootedAt(db, r) \ ThreadRootedAt(db', r)

ThreadsHold ==
  [][\A r \in PostIds : Broken(r) # {} =>
       \E p \in PostIds :
         /\ Broken(r) \subseteq ThreadRootedAt(db, p)
         /\ \/ \E kind \in {"post", "reply"} : DeleteAs(kind, p)
            \/ \E content \in OptionOf(Contents) :
                  FetchMention(p, content) \/ PublishFetched(p, content)]_db

\* Engagement is earned: whoever `audience engaged` ranks, under a real id or a
\* placeholder, wrote as many replies to posts of mine as it is credited with,
\* and at least as many posts as it is said to mention me in, whatever is
\* renamed, resolved, merged or deleted.
WrittenBy(author) == {p \in PostIds : AttributedTo(p, author)}

RepliesToMe(posts) ==
  {p \in posts : TrueParent[p] # None /\ TrueAuthor[TrueParent[p]] = Me}

EngagementIsEarned ==
  \A e \in EngagedAccounts(db, Me) :
    /\ e.replies <= Cardinality(RepliesToMe(WrittenBy(e.author)))
    /\ e.mentions <= Cardinality(WrittenBy(e.author))

-----------------------------------------------------------------------------
(* What comments and documents of the repository say, and the code does not *)
(* do (each checked by a run that TLC refutes).                             *)

\* "the `@` sentinel is the signal that the fetch is structurally incomplete": a
\* fetch without it is complete, and takes no reply out of its thread.  A page of
\* mentions names the owner, so it has no sentinel, and no replied_to either.
FetchKeepsThreadLinks ==
  [][\A p \in Stored(db), content \in OptionOf(Contents) :
       FetchMention(p, content) /\ db.posts[p].parent # None
         => db'.posts[p].parent # None]_vars

\* "Delete top-level posts authored by you": what `delete posts` deletes of posts
\* that no page of mentions brought is no reply.  A reply that `post create`
\* published and fetched back is stored without its parent.
DeletePostsSparesReplies ==
  [][\A p \in PostIds :
       DeleteAs("post", p) /\ db.posts[p].mentions = {} => TrueParent[p] = None]_vars

=============================================================================
