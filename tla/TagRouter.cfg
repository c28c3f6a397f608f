SPECIFICATION Spec
CONSTANTS
  Router = {1, 2, 3}
  Port = {0, 1, 2}
  RouterConf <- MCRouterConf
  MappingConf <- MCMappingConf
  DstId <- MCDstId
  Cable <- MCCable
  HostPort <- MCHostPort
  PktLen = {6, 21, 50}
  ROUTER_HEADER_LEN = 4
  L2L1_MSG_HEADER = 10
  PDU_BUFFER_SIZE = 60
  HeaderSizeRead = {0, 10, 65535}
  RingSize = 1
  MaxPackets = 3
CHECK_DEADLOCK FALSE
INVARIANTS HeadersSound WayFollowed NothingForgotten InOrder
PROPERTIES AllArrive
