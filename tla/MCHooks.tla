-------------------------------- MODULE MCHooks --------------------------------
(* Three classes of folder with methods of their own, two with the same QueryInterface; *)
(* a Leeyes.exe that matches, and some that lack a signature of one kind.               *)
EXTENDS Hooks, TLC

CONSTANTS t1, t2, f1, f2, f3, q1, q2, a, b, c

MCTargets   == BatchHooks \union TraceHooks
MCMethods   == { Method(t) : t \in MCTargets }
MCFunctions == MCMethods \union {f1, f2, f3}
MCHooks     == { HookOf(t) : t \in MCTargets } \union {GetDisplayNameOfHook}
MCClients   == MCTargets \union {q1, q2}
MCTrampolines == 1 .. 9

MCImages ==
  { [anchors |-> Targets \ lacking, changeCallsRefresh |-> TRUE] :
      lacking \in {{}, {"refresh"}, {"layoutUpdate"}, {"fullResync"}} } \union
  { [anchors |-> Targets, changeCallsRefresh |-> FALSE] }

MCQuery == [class \in Classes |-> IF class = b THEN q2 ELSE q1]
MCName == [class \in Classes |-> CASE class = a -> f1 [] class = b -> f2 [] class = c -> f3]

ThreadSymmetry == Permutations(Threads)
================================================================================
