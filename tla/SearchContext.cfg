\* Two threads, three handle values that Windows gives out again, two places in the table.
SPECIFICATION Spec
CONSTANTS
  t1 = t1
  t2 = t2
  h1 = h1
  h2 = h2
  h3 = h3
  Threads = {t1, t2}
  Handles = {h1, h2, h3}
  INVALID_HANDLE_VALUE = INVALID
  TableSize = 2
  MaxSearches = 4
  NoEntry = NoEntry
SYMMETRY Symmetry
INVARIANTS TypeOK ContextCurrent WideGoesOn ClosedNotKept
CHECK_DEADLOCK FALSE
