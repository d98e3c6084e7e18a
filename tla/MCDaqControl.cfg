\* Two calls that overlap in every way, on a server that finds or starts
\* hashpipe (two processes), a run of two directories with a manifest of which
\* clients know the digest or another one, one restart of the server.
CONSTANTS
  Callers = {c1, c2}
  Pids = {1, 2}
  NumDirs = 2
  Manifests = {m1}
  Digests = {m1, m2}
  MaxCalls = 2
  MaxRestarts = 1
  None = None
SPECIFICATION FairSpec
INVARIANT OneHashpipe
PROPERTY StopStops
PROPERTY CleanupFindsLost
PROPERTY DigestGuards
PROPERTY CallsAnswered
CHECK_DEADLOCK FALSE
