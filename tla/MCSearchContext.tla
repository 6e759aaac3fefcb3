---------------------------- MODULE MCSearchContext ----------------------------
(* Threads and handles that are alike, and a table with fewer places than handles. *)
EXTENDS SearchContext, TLC

CONSTANTS t1, t2, h1, h2, h3

Symmetry == Permutations(Threads) \union Permutations(Handles)
================================================================================
