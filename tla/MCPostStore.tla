----------------------------- MODULE MCPostStore -----------------------------
(***************************************************************************)
(* A thread of three: a post of mine, a reply of another account to it,    *)
(* and my reply to that reply, which quotes it and which `post create`     *)
(* publishes.  I may hold two usernames.                                   *)
(***************************************************************************)
EXTENDS PostStore, TLC

CONSTANTS root, theirs, mine, me, bob, m1, m2, b1

MCPostIds    == {root, theirs, mine}
MCAccounts   == {me, bob}
MCNames      == {m1, m2, b1}
MCTrueAuthor == [p \in MCPostIds |-> IF p = theirs THEN bob ELSE me]
MCTrueParent ==
  [p \in MCPostIds |-> CASE p = root   -> None
                         [] p = theirs -> root
                         [] p = mine   -> theirs]
MCTrueRoot   == [p \in MCPostIds |-> IF p = root THEN None ELSE root]
MCTrueQuote  == [p \in MCPostIds |-> p = mine]
MCPublished  == {mine}
MCPool       == [a \in MCAccounts |-> IF a = me THEN {m1, m2} ELSE {b1}]
Symmetry     == Permutations({m1, m2})

=============================================================================
