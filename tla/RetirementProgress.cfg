SPECIFICATION Spec
\* Bounded requests and work: the threads stop.
CHECK_DEADLOCK FALSE
CONSTANTS
  t1 = t1
  t2 = t2
  main = main
  side = side
  lane = lane
  Leases = {1, 2, 3, 4}
  Streams = {main, side, lane}
  Threads = {t1, t2}
  TaskStream = main
  Lane = lane
  Setups <- Answering
  None = None
INVARIANTS
  PendingExact
PROPERTIES
  AllocationAnswered
  RetirementsDrain
