\* Every setting, every failing step of the installation over five images, then classes of
\* folder bound, refused and called from two threads.
SPECIFICATION Spec
CONSTANTS
  t1 = t1
  t2 = t2
  f1 = f1
  f2 = f2
  f3 = f3
  q1 = q1
  q2 = q2
  a = a
  b = b
  c = c
  Threads = {t1, t2}
  Classes = {a, b, c}
  Functions <- MCFunctions
  Refusals <- MCFunctions
  Hooks <- MCHooks
  Trampolines <- MCTrampolines
  Clients <- MCClients
  Images <- MCImages
  QueryInterface <- MCQuery
  GetDisplayNameOf <- MCName
  GetDisplayNameOfHook = GetDisplayNameOfHook
  E_FAIL = Failed
  Null = Null
SYMMETRY ThreadSymmetry
INVARIANTS TypeOK HookReachesOriginal FeaturesWhole OwnMethod
