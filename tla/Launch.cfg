\* With a file and without, hidden and shown; every call may fail and Leeyes exit any time.
SPECIFICATION FairSpec
CONSTANTS
  WindowWaitLimit = 3
  StableNeeded = 3
  StabilityLimit = 6
  MaxForms = 3
INVARIANTS TypeOK NeverLeftSuspended BootstrapWhole OutcomeTruthful
PROPERTIES StableDrop InjectorEnds
CHECK_DEADLOCK FALSE
