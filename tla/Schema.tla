--------------------------------- MODULE Schema ---------------------------------
(***************************************************************************)
(* What the store promises about its schema                                *)
(* (crates/threads-store/src/migrations.rs): it only grows, one version    *)
(* after another, and whoever uses the store finds every version.          *)
(***************************************************************************)
EXTENDS Integers

CONSTANTS Latest,  \* version of this program's schema
          Users

VARIABLES schema,  \* versions whose tables exist
          using    \* processes that use the store

vars == <<schema, using>>

\* The database of an older program, or a new one.
Init ==
  /\ \E k \in 0 .. Latest : schema = 1 .. k
  /\ using = {}

Migrate ==
  /\ \E k \in 0 .. Latest - 1 : schema = 1 .. k /\ schema' = 1 .. (k + 1)
  /\ UNCHANGED using

Enter(u) ==
  /\ schema = 1 .. Latest
  /\ using' = using \cup {u}
  /\ UNCHANGED schema

Leave(u) ==
  /\ using' = using \ {u}
  /\ UNCHANGED schema

Next == Migrate \/ \E u \in Users : Enter(u) \/ Leave(u)

Spec == Init /\ [][Next]_vars

=============================================================================
