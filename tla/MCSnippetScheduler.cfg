CONSTANTS
  csdA = csdA
  csdB = csdB
  noCsd = noCsd
  Csd <- MCCsd
  NoCsd = noCsd
  Snippet <- MCSnippet
  SstInfo <- MCSstInfo
  Schema <- MCSchema
  Projections <- MCProjections
  Score <- MCScore
  Algorithm <- Every
  FirstAlgorithm = "dcs"
  SstUpperBound = 3
  BlockUpperBound = 3
  MaxUpdates = 2
SPECIFICATION Spec
INVARIANTS
  SstsReachHolders
  StuckOnlyByManySsts
  MessagesDescribeTheirSsts
  ColumnsExactUnlessDeparts
PROPERTY EverySnippetScheduled
