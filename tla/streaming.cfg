SPECIFICATION StreamsSpec
CONSTANTS
  Starters = {t1, t2}
  Stoppers = {s1}
  Cap = 2
  MaxFrames = 2
  SenderFails = TRUE
  Callers = {x1}
  Runner = Runner
  QueueCap = 1
  MaxSent = 2
  MaxQueued = 1
  MaxMessages = 1
  MaxProxied = 2
INVARIANTS
  ConnectionsExact
  StopDrainsRunningLoop
  LateSendRefused
PROPERTIES
  
  StreamsEnd
CHECK_DEADLOCK FALSE
