------------------------------ MODULE PostModel ------------------------------
(***************************************************************************)
(* The in-memory Post of crates/threads-core, and the rule that joins a    *)
(* re-fetched post with the one already stored.                            *)
(*                                                                         *)
(* Data is abstracted to what the rules tell apart:                        *)
(*   content   stands for text, created_at, permalink: option fields that  *)
(*             every rule treats alike (None when the fetch lacks them);   *)
(*   mentions  stands for media, urls and mentions: collections that every *)
(*             rule treats alike, of which only mentions make edges.       *)
(* An author id is a real account id, the empty id the publish fallback    *)
(* writes, or the placeholder "@name" of a fetch that carries no owner.    *)
(***************************************************************************)

CONSTANTS PostIds,    \* ids of posts and replies
          Accounts,   \* real account ids
          Names,      \* usernames
          Contents,   \* what the text/created_at/permalink fields may hold
          Nobody,     \* the empty user id
          None        \* an absent option field, SQL NULL

At(name) == <<"@", name>>

Handles == {At(name) : name \in Names}

\* What `!author.starts_with('@')` accepts: it does not exclude the empty id.
RealIds == Accounts \cup {Nobody}

AuthorIds == RealIds \cup Handles

ASSUME PostModelAssumption ==
  /\ None \notin PostIds \cup Names \cup Contents
  /\ Nobody \notin Accounts
  /\ RealIds \cap Handles = {}
  /\ \A m, n \in Names : At(m) = At(n) => m = n

OptionOf(S) == S \cup {None}

Post == [author   : AuthorIds,
         name     : OptionOf(Names),
         content  : OptionOf(Contents),
         parent   : OptionOf(PostIds),
         root     : OptionOf(PostIds),
         quote    : BOOLEAN,
         mentions : SUBSET Accounts]

IsHandle(author) == author \in Handles

OrElse(first, second) == IF first # None THEN first ELSE second

-----------------------------------------------------------------------------
\* Plausible slips in the two rules below, each of which breaks a property.

PreferIncoming(incoming, existing) == incoming

MergeForgetsParent(existing, incoming) ==
  [incoming EXCEPT !.name     = OrElse(incoming.name, existing.name),
                   !.content  = OrElse(incoming.content, existing.content),
                   !.root     = OrElse(incoming.root, existing.root),
                   !.quote    = existing.quote \/ incoming.quote,
                   !.mentions = existing.mentions]

-----------------------------------------------------------------------------

\* Post::prefer_real: a handle never displaces an id that is not a handle.
PreferReal(incoming, existing) ==
  IF IsHandle(incoming) /\ ~IsHandle(existing) THEN existing ELSE incoming

\* Post::merge
Merge(existing, incoming) ==
  [author   |-> PreferReal(incoming.author, existing.author),
   name     |-> OrElse(incoming.name, existing.name),
   content  |-> OrElse(incoming.content, existing.content),
   parent   |-> OrElse(incoming.parent, existing.parent),
   root     |-> OrElse(incoming.root, existing.root),
   quote    |-> existing.quote \/ incoming.quote,
   mentions |-> IF incoming.mentions = {} THEN existing.mentions
                                          ELSE incoming.mentions]

=============================================================================
