SPECIFICATION LogSpec
CONSTANTS
  Loggers = {hp, control}
  Logs = 4
  Invalid = {3}
  QueueSize = 1
  BatchSize = 2
  MaxSetups = 2
  MaxOutages = 1
  MaxStops = 1
INVARIANT LogsAccounted
PROPERTY RecordsSettle
CHECK_DEADLOCK FALSE
