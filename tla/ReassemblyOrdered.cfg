SPECIFICATION SpecOrdered
CONSTANTS
  FragId = {"a", "b", "c"}
  FRAG_BUFFER_NUM = 2
  FRAG_MAX_NUM = 3
  Fragment <- CatalogOrdered
  Mbuf = {m1, m2, m3, m4, m5}
  Null = Null
  Tailroom = 40
  RingSize = 5
  Threshold = 0
  CheckPeriod = 0
  TimerStarted = FALSE
  MaxArrivals = 1
SYMMETRY MbufSymmetry
CHECK_DEADLOCK FALSE
INVARIANTS ArrivedIsDelivered NoLeak
