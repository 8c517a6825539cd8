SPECIFICATION FairSpec
CONSTANTS
  Commands = {}
  Audio = {}
  Direct = {}
  Requests = {}
  None = None
  Reconnect = FALSE
  Protobuf = FALSE
  QueueSize = 2
  MaxEpoch = 1
  MaxBackoff = 1
  Faults = {"lost"}
PROPERTIES LossNoticed
CHECK_DEADLOCK FALSE
