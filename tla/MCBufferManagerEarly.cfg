CONSTANTS
  left = left
  right = right
  join = join
  client = client
  noWork = noWork
  l1 = l1
  l2 = l2
  r1 = r1
  r2 = r2
  Work <- MCWork
  Whole <- MCWhole
  Streamed <- MCStreamed
  NoWork = noWork
  Limit <- MCLimit
  Final = join
  Client = client
  Result <- SmallResult
  WorkOf <- SmallWorkOf
  Blocks <- SmallBlocks
  RowCount <- SmallRowCount
  Scanned <- SmallScanned
  BatchRows = 2
  SpuriousWakeups = TRUE
SPECIFICATION Spec
INVARIANT NoEarlyRead
