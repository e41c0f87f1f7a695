------------------------------ MODULE MCIngest ------------------------------
(***************************************************************************)
(* A thread of four: a post of mine, a reply of another account to it, my  *)
(* reply to that, and a reply of the other account to mine.                *)
(***************************************************************************)
EXTENDS Ingest

CONSTANTS root, theirs, mine, last, me, bob, m, b

MCPostIds    == {root, theirs, mine, last}
MCAccounts   == {me, bob}
MCNames      == {m, b}
MCHandleOf   == [a \in MCAccounts |-> IF a = me THEN m ELSE b]
MCTrueAuthor == [p \in MCPostIds |-> IF p \in {root, mine} THEN me ELSE bob]
MCTrueParent ==
  [p \in MCPostIds |-> CASE p = root   -> None
                         [] p = theirs -> root
                         [] p = mine   -> theirs
                         [] p = last   -> mine]
MCTrueRoot   == [p \in MCPostIds |-> IF p = root THEN None ELSE root]
MCTrueQuote  == [p \in MCPostIds |-> FALSE]
MCPublished  == {mine}
Symmetry     == Permutations(Runs)

=============================================================================
