------------------------------- MODULE MCLaunch --------------------------------
(* The limits are small enough to be reached, and far enough apart that none of them *)
(* is always the first.                                                              *)
EXTENDS Launch
================================================================================
