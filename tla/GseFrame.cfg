SPECIFICATION Spec
CONSTANTS
  Prefix = {1, 2}
  Suffix = {1, 2}
  LocalPrefix = 1
  LocalSuffix = 1
  DataSize = {5}
  Protocol = {"ip", "ctrl"}
  FragSeq = {9}
  Payload = 40
  LineErrors = {0, 320}
  MaxPackets = 3
  MaxFrames = 2
CHECK_DEADLOCK FALSE
INVARIANTS HandsOnWhatIsMeant BurstsRefused
PROPERTIES FramesEnd
