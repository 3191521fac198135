---------------------------- MODULE MCRepositoryInit ----------------------------
(* Two repositories, which nothing tells apart, and two acts at once. *)
EXTENDS RepositoryInit, TLC
ActsDef == {1, 2}
Alike == Permutations(Repositories)
================================================================================
