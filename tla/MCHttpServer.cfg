SPECIFICATION Spec
CONSTANTS
  c1 = c1
  c2 = c2
  c3 = c3
  w1 = w1
  w2 = w2
  Conn <- MCConn
  Worker <- MCWorker
  Pipelining <- MCPipelining
  Requests <- MCRequests
  KeepAliveMax = 3
  Routes <- MCRoutes
  Levels <- MCLevels
  Algorithms <- MCAlgorithms
INVARIANTS
  AnswersInStep
  JobsHaveWorkers
PROPERTIES
  CloseIsAnnounced
  EverythingEnds
CHECK_DEADLOCK FALSE
