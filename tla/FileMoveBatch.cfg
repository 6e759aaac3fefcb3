\* Every nesting of drains and resynchronisations with Delphi exceptions unwinding any of them.
SPECIFICATION BatchSpec
CONSTANTS
  a = a
  b = b
  c = c
  Lists = {a, b, c}
  NullList = NullList
  kMaximumDirtyLists = 2
  threshold = 1
  Counts <- MCCounts
  RawActions <- MCActions
  MaxDepth = 3
  MaxFrames = 3
SYMMETRY ListSymmetry
INVARIANTS BatchTypeOK NothingLost ResyncUnsuppressed OneTreatment
