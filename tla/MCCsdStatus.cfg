SPECIFICATION Spec
CONSTANTS
  c1 = c1
  c2 = c2
  p1 = p1
  p2 = p2
  Csd <- MCCsd
  Pusher <- MCPusher
  MaxMeasured <- MCMaxMeasured
  MaxPushes = 2
INVARIANTS
  ReadsAreWhole
  LockedCallsNeverRace
PROPERTIES
  NewestShownAgain
CHECK_DEADLOCK FALSE
