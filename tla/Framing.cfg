\* Two frames of version-2 records read by a version-1 service. A read
\* returns 1 or 3 bytes or fills the whole 1024-byte buffer (MsgBuffSize),
\* so headers and payloads are split at every offset and both frames also
\* arrive in one read.
CONSTANTS
  Word = 28
  SendT <- MC_SendT
  RecvT <- MC_RecvT
  MsgReg <- MC_MsgReg
  Payloads <- MC_Payloads
  Services = {"spb", "rpc"}
  RpcPayloads <- MC_RpcPayloads
  NumFrames = 2
  ReadSizes = {1, 3, 1024}
  RecvListLen = 2
  MaxMsgSize = 2097152
SPECIFICATION Spec
\* A connection whose peer stays open and silent waits for input forever.
CHECK_DEADLOCK FALSE
INVARIANT TypeOK FramesDeliveredInOrder
PROPERTY AllDeliveredWhileOpen
