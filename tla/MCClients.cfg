SPECIFICATION MCSpec
CONSTANTS
  Hosts = {h1, h2}
  Target = h1
  MaxAttempts = 3
  MaxCalls = 2
  MaxFaults = 2
  MaxItems = 2
  Seconds <- MCSeconds
  Skews <- MCSkews
  FrameTime = 2
  PerSecond = 4
  MaxFrames = 14
  Files <- MCFiles
INVARIANT AnswersHonest
INVARIANT MergeFaithful
INVARIANT TimesTrue
INVARIANT SeekClose
PROPERTY CallsReturn
PROPERTY StreamsEnd
CHECK_DEADLOCK FALSE
