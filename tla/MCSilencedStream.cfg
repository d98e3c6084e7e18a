\* One reader that sleeps through a forced reconfiguration.
CONSTANTS
  m1 = m1
  m2 = m2
  Readers = {r1}
  Modules = {m1, m2}
  Products = {"img16", "ph256"}
  Requests <- MCRequests
  QueueSize = 1
  WireSize = 1
  MaxConns = 2
  MaxFrames = 3
  MaxInits = 1
SPECIFICATION StreamSpec
INVARIANT NewerFound
CHECK_DEADLOCK FALSE
