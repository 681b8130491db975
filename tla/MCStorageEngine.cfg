CONSTANTS
  csdA = csdA
  csdB = csdB
  noPeer = noPeer
  Query <- MCQuery
  Csd <- MCCsd
  Peer <- MCPeer
  NoPeer = noPeer
  Hasty <- MCHasty
  TextUnits = 2
  RecvMax = 2
  Stream <- MCStream
  SstInfo <- MCSstInfo
  Rows <- MCRows
  Schema <- MCSchema
  Projections <- MCProjections
  Metric = TRUE
  MaxFaults = 1
SPECIFICATION Spec
CHECK_DEADLOCK FALSE
INVARIANTS
  AnswerIsWhole
  AnswerShowsWhatIsStored
  ReceiverStopsOnlyFor
PROPERTIES
  QueriesAnswered
