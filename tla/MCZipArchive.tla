----------------------------- MODULE MCZipArchive ------------------------------
(* Two archives with one spelling, be it lossy or that of the first; one entry of *)
(* the first can be read by the plugin only.                                      *)
EXTENDS ZipArchive, TLC

CONSTANTS lossy, spelled, a, b, t1, t2

MCNames == [x \in Paths |-> {a, b}]
MCDecode == [x \in Spelled |-> a]
ThreadSymmetry == Permutations(Threads)
MCSpecial == {<<a, 1>>}
================================================================================
