SPECIFICATION SpecIds
CONSTANTS QueueMaxSize = 4
INVARIANTS QueueTypeOK IdsDistinct
PROPERTIES ActsAsFifo
