----------------------------- MODULE MCWicPicture ------------------------------
(* Two callers and as many threads. *)
EXTENDS WicPicture

CONSTANTS c1, c2, w1, w2
================================================================================
