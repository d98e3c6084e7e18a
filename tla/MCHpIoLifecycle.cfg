\* The initial task, one InitHpIo, which may restore what the initial task
\* started, and a shutdown.
CONSTANTS
  live = live
  sim = sim
  Writers = {w1}
  Boot = boot
  Closer = closer
  Configs = {live, sim}
  SimConfigs = {sim}
  DefaultConfig = live
  Settings <- MCSettings
  MaxCalls = 1
  None = None
SPECIFICATION FairSpec
INVARIANT OneLiveTask
INVARIANT EventsOwned
PROPERTY AnswersTrue
PROPERTY WritersAnswered
PROPERTY ShutdownReturns
CHECK_DEADLOCK FALSE
