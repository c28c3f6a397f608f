SPECIFICATION SpecTimed
CONSTANTS
  FragId = {"a"}
  FRAG_BUFFER_NUM = 2
  FRAG_MAX_NUM = 3
  Fragment <- CatalogOne
  Mbuf = {m1, m2}
  Null = Null
  Tailroom = 40
  RingSize = 2
  Threshold = 1
  CheckPeriod = 0
  TimerStarted = FALSE
  MaxArrivals = 1
CHECK_DEADLOCK FALSE
PROPERTIES TimeoutDiscards
