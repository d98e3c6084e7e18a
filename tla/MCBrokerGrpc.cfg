\* The same clients and predictions with the servicer context of grpc.aio, which has no is_active.
CONSTANTS
  s1 = s1
  s2 = s2
  a1 = a1
  Streams = {s1, s2}
  Alerts = {a1}
  NumPreds = 4
  Cloudy = {1, 4}
  Matching <- MCMatching
  Stalled = {s1}
  IsActive = {"raises"}
  QueueSize = 2
  MaxSubs = 1
SPECIFICATION BrokerSpec
PROPERTY LastArrives
CHECK_DEADLOCK FALSE
