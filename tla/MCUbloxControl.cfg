\* Two InitF9t calls, overlapping or one after the other, one client and two packets, with a
\* shutdown; or the conversation that configures a receiver, with up to five settings in a
\* group, two to a message, and a position south of zero.
CONSTANTS
  Inits = {i1, i2}
  Captures = {c1}
  Packets = 2
  QueueSize = 1
  None = None
  ChunkSize = 2
  Plans <- MCPlans
  SignalSettings = {1, 5}
SPECIFICATION MCSpec
INVARIANT OnePort
INVARIANT ConfigTrue
PROPERTY AllEnd
CHECK_DEADLOCK FALSE
