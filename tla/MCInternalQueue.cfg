CONSTANTS
  p1 = p1
  p2 = p2
  c1 = c1
  c2 = c2
  Producers <- MCProducers
  Consumers <- MCConsumers
  MaxItems = 4
SPECIFICATION Spec
INVARIANTS
  TypeOK
  NoLostWakeup
PROPERTY ImplementsFifo
