\* One client slot used by one client after the other, two modules, two products
\* of different types, two connections, a
\* queue of one, three frames, one reconfiguration.
CONSTANTS
  m1 = m1
  m2 = m2
  Readers = {r1}
  Modules = {m1, m2}
  Products = {"img16", "ph256"}
  Requests <- MCRequests
  QueueSize = 1
  WireSize = 1
  MaxConns = 2
  MaxFrames = 3
  MaxInits = 1
SPECIFICATION StreamFairSpec
INVARIANT PipelineInOrder
PROPERTY NeverTwice
PROPERTY NewestArrives
CHECK_DEADLOCK FALSE
