\* Two edges that send up to three responses each through a queue of two;
\* or up to three calls to them, one after another.
CONSTANTS
  Edges = {e1, e2}
  QueueSize = 2
  MaxFrames = 3
  ProxyCalls = 3
  Sentinel = Sentinel
SPECIFICATION MCSpec
INVARIANT NothingLost
INVARIANT ProxyHonest
PROPERTY CallersServed
CHECK_DEADLOCK FALSE
