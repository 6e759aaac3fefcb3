------------------------------ MODULE TraceStream ------------------------------
(***************************************************************************)
(* What the diagnostic trace of the injected DLL promises, without any of  *)
(* its machinery: trace records are accepted in one total order until      *)
(* Capacity of them have been taken, every later one is lost and counted,  *)
(* and what has been published is always a prefix of what was accepted.    *)
(* TraceBuffer implements this specification.                              *)
(***************************************************************************)
EXTENDS Naturals, Sequences

CONSTANTS Records,   \* everything a hooked function may report
          Capacity   \* how many records a session keeps

VARIABLES accepted,  \* the records kept, in the order they were accepted
          published, \* the records written to the log
          lost       \* how many records were refused

vars == <<accepted, published, lost>>

Init == accepted = <<>> /\ published = <<>> /\ lost = 0

\* Some record is appended.
Accept ==
  /\ Len(accepted) < Capacity
  /\ accepted' \in Seq(Records)
  /\ Len(accepted') = Len(accepted) + 1
  /\ \A i \in 1 .. Len(accepted) : accepted'[i] = accepted[i]
  /\ UNCHANGED <<published, lost>>

Lose ==
  /\ Len(accepted) = Capacity
  /\ lost' = lost + 1
  /\ UNCHANGED <<accepted, published>>

Publish ==
  /\ Len(published) < Len(accepted)
  /\ published' = Append(published, accepted[Len(published) + 1])
  /\ UNCHANGED <<accepted, lost>>

Next == Accept \/ Lose \/ Publish

Spec == Init /\ [][Next]_vars
================================================================================
