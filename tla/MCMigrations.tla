----------------------------- MODULE MCMigrations -----------------------------
(***************************************************************************)
(* Three processes and the five versions of the repository, from a new     *)
(* file, from every older version and from one that is not known.          *)
(***************************************************************************)
EXTENDS Migrations, TLC

CONSTANTS p1, p2, p3

MCProcess == {p1, p2, p3}
Symmetric == Permutations(MCProcess)

MCLatest == 5
MCStatements == <<3, 1, 3, 1>>

\* users, organizations, and everything else.
MCFresh ==
  << {<<0, 1>>} \cup {<<1, i>> : i \in 1 .. 3} \cup {<<2, 1>>},
     {<<0, 2>>, <<3, 1>>, <<3, 3>>, <<4, 1>>},
     {<<0, 3>>, <<3, 2>>} >>
==============================================================================
