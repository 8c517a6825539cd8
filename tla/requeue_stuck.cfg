SPECIFICATION FairSpec
CONSTANTS
  Commands = {c1, c2}
  Audio = {}
  Direct = {}
  Requests = {}
  None = None
  Reconnect = TRUE
  Protobuf = FALSE
  QueueSize = 1
  MaxEpoch = 1
  MaxBackoff = 1
  Faults = {"timeout"}
PROPERTIES RequeueCompletes
CHECK_DEADLOCK FALSE
