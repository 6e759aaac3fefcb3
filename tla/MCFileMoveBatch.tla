---------------------------- MODULE MCFileMoveBatch ----------------------------
(* Three lists and a table of two; drains and resynchronisations nest. *)
EXTENDS FileMoveBatch, TLC

CONSTANTS a, b, c

\* 261 is action 5 with a bit above the byte that is tested; 6 is the control action.
MCActions == {1, 6, 261}
MCCounts == {-1, 0, 1, 2, 3}
ListSymmetry == Permutations(Lists)
================================================================================
