\* Two head nodes, two files, one repeated attempt per call, and one
\* connection that breaks or one crash.
CONSTANTS
  Heads = {h1, h2}
  NumFiles = 2
  MaxAttempts = 2
  MaxFaults = 1
  None = None
SPECIFICATION Spec
INVARIANT NoUnverifiedDeletion
INVARIANT StreamWhole
PROPERTY TransferEnds
CHECK_DEADLOCK FALSE
