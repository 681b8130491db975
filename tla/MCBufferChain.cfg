CONSTANTS
  s = s
  mid = mid
  top = top
  client = client
  noWork = noWork
  s1 = s1
  s2 = s2
  Work <- ChainWork
  Whole <- ChainWhole
  Streamed <- ChainStreamed
  NoWork = noWork
  Limit <- ChainLimit
  Final = top
  Client = client
  Result <- ChainResult
  WorkOf <- ChainWorkOf
  Blocks <- ChainBlocks
  RowCount <- ChainRowCount
  Scanned <- ChainScanned
  BatchRows = 2
  SpuriousWakeups = TRUE
SPECIFICATION Spec
INVARIANTS
  ScannedExact
  AnswerCutAsPlanned
  FaultOnlyAfterEarlyRead
PROPERTY QueryAnswered
