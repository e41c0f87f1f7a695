-------------------------------- MODULE Service --------------------------------
(***************************************************************************)
(* What the Threads service knows about each post, and the Post the        *)
(* provider (crates/threads-provider-official) makes of it, endpoint by    *)
(* endpoint, from the fields the manifest (threads-manifest) requests.     *)
(***************************************************************************)
EXTENDS PostTables

CONSTANTS Me,          \* the authenticated account
          TrueAuthor,  \* who wrote each post
          TrueParent,  \* what it replies to, None for a top-level post
          TrueRoot,    \* the top-level post of its thread
          TrueQuote    \* whether it quotes its parent

ASSUME ServiceAssumption ==
  /\ IsFiniteSet(PostIds)
  /\ Me \in Accounts
  /\ TrueAuthor \in [PostIds -> Accounts]
  /\ TrueParent \in [PostIds -> OptionOf(PostIds)]
  /\ TrueRoot   \in [PostIds -> OptionOf(PostIds)]
  /\ TrueQuote  \in [PostIds -> BOOLEAN]

\* What the manifest requests, of the fields that matter here.  me/threads,
\* user/mentions and the post object name the owner; me/replies, post/replies
\* and post/conversation say what is replied to.
OwnerFields == {"owner", "is_quote_post"}
ReplyFields == {"replied_to", "root_post"}

\* PostDto has the fields that were requested, and dto_to_post makes do without
\* the others: an author by username, the caller's hint of the root.
DtoToPost(p, fields, name, content, rootHint) ==
  [author   |-> IF "owner" \in fields THEN TrueAuthor[p] ELSE At(name),
   name     |-> name,
   content  |-> content,
   parent   |-> IF "replied_to" \in fields THEN TrueParent[p] ELSE None,
   root     |-> OrElse(IF "root_post" \in fields THEN TrueRoot[p] ELSE None,
                       rootHint),
   quote    |-> "is_quote_post" \in fields /\ TrueQuote[p],
   mentions |-> {}]

OwnerPost(p, name, content) == DtoToPost(p, OwnerFields, name, content, None)

\* ingest_mentions adds the mention.
MentionPost(p, name, content) ==
  [OwnerPost(p, name, content) EXCEPT !.mentions = {Me}]

ReplyPost(p, name, content) == DtoToPost(p, ReplyFields, name, content, None)

\* synthesize_post: what `post create` makes up of its own options when it cannot
\* fetch back what it published.
SynthesizedPost(p, content) ==
  [author |-> Nobody, name |-> None, content |-> content,
   parent |-> TrueParent[p], root |-> TrueParent[p],
   quote |-> FALSE, mentions |-> {}]

=============================================================================
