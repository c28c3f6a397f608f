SPECIFICATION RingSpec
CONSTANTS
  Producer = {t1, t2}
  Consumer = {t2, t3}
  Size = 4
  IndexMod = 16
  Start = {14}
  SpEnq = {FALSE, TRUE}
  ScDeq = {FALSE, TRUE}
  MaxBurst = 2
  MaxObjs = 4
INVARIANTS RingTypeOK IndicesOrdered ReservedApart
PROPERTIES ActsAsBurstQueue CallsReturn
