SPECIFICATION LockSpec
\* The threads stop when their calls are made.
CHECK_DEADLOCK FALSE
CONSTANTS
  MaxCalls = 2
  Clients = {c1, c2}
  r1 = r1
  r2 = r2
  r3 = r3
  Records = {r1, r2, r3}
  Demands <- Coalescing
  Nobody = Nobody
  Worker = Worker
  Boundary = Boundary
  NoRecord = NoRecord
PROPERTIES
  ReservationSettles
