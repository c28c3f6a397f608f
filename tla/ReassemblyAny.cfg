SPECIFICATION SpecAny
CONSTANTS
  FragId = {"a"}
  FRAG_BUFFER_NUM = 2
  FRAG_MAX_NUM = 3
  Fragment <- CatalogAny
  Mbuf = {m1, m2}
  Null = Null
  Tailroom = 40
  RingSize = 1
  Threshold = 1
  CheckPeriod = 0
  TimerStarted = TRUE
  MaxArrivals = 2
SYMMETRY MbufSymmetry
CHECK_DEADLOCK FALSE
INVARIANTS TypeOK MbufUnique NoReplay DeliveredIntact
