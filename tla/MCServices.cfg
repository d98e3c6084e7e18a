\* Every choice of services, both roles of daq_data, two overlapping calls and a gateway with
\* two edges.  Two clients for one slot of StreamPredictions, one of which may stop reading, and
\* an alert subscriber; four predictions through queues of two; is_active answers, or raises.
\* Two clients of the telemetry service, a production and an experimental type that may be
\* missing in the configuration, three reports, two faults.
CONSTANTS
  Calls = {c1, c2}
  Edges = {e1, e2}
  s1 = s1
  s2 = s2
  a1 = a1
  Streams = {s1, s2}
  Alerts = {a1}
  NumPreds = 4
  Cloudy = {1, 4}
  Matching <- MCMatching
  Stalled = {s1}
  IsActive = {"true", "false", "raises"}
  QueueSize = 2
  MaxSubs = 1
  MaxClients = 2
  Production = {gnss}
  Experimental = {lidar}
  MaxReports = 3
  MaxFaults = 2
SPECIFICATION MCSpec
INVARIANT ServingWhenIdle
INVARIANT NewestKept
INVARIANT StatusTrue
PROPERTY SignalEnds
CHECK_DEADLOCK FALSE
