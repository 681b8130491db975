CONSTANTS
  Id <- MCId
  Files <- MCFiles
  FileCsdMap <- MCFileCsdMap
  Fetch <- MCFetch
  IdOf <- MCIdOf
  OtherType = {"other"}
  MaxFaults = 1
SPECIFICATION Spec
CHECK_DEADLOCK FALSE
INVARIANTS
  EachChunkHandedOutOnce
  NobodyWaitsBesideAChunk
  EmptyTakeNeedsRival
  ChunksComeAsNamed
PROPERTIES
  OffloadedFilesComeIn
  FetchesAnswered
