\* Every interleaving of two appenders, the worker, Start and RequestStop.
SPECIFICATION FairSpec
CONSTANTS
  t1 = t1
  t2 = t2
  Threads = {t1, t2}
  Capacity = 2
  CounterModulus = 5
  MaxTickets = 4
  Blank = Blank
  Torn = Torn
INVARIANTS TypeOK TicketsAccounted DrainedOnStop
PROPERTIES StreamSpec AcceptedPrinted StopEnds
CHECK_DEADLOCK FALSE
