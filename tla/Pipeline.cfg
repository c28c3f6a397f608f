SPECIFICATION Spec
CONSTANTS
  RcvMbuf = {r1, r2}
  DecapMbuf = {d1, d2}
  EncapMbuf = {e1}
  None = None
  Traffic <- MCTraffic
  MaxPackets = 3
  IdleLoops = 1
  MaxCuts = 2
INVARIANTS EachInOnePlace DataInside SentAsReceived
PROPERTIES AllGivenBack
