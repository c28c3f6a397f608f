SPECIFICATION EFairSpec
CONSTANTS
  MaxPdus = 4
  PduSize = {70, 190, 216, 226}
  Payload = 230
  padding_threshold = 16
  GSE_MAX_SIZE = 150
  QueueMaxSize = 2
  TimeStamps = 2
  IdleLoops = 2
  EncapPool = 2
INVARIANTS ETypeOK FrameSound UsedIsContents StreamWellFormed TimeStampsDiffer FreedOnce
PROPERTIES CarriesInOrder AllFlushed
