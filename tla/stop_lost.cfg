SPECIFICATION FairSpec
CONSTANTS
  Commands = {}
  Audio = {}
  Direct = {}
  Requests = {}
  None = None
  Reconnect = TRUE
  Protobuf = FALSE
  QueueSize = 2
  MaxEpoch = 2
  MaxBackoff = 1
  Faults = {"lost"}
PROPERTIES StopTerminates
CHECK_DEADLOCK FALSE
