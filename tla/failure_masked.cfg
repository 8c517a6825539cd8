SPECIFICATION FairSpec
CONSTANTS
  Commands = {}
  Audio = {}
  Direct = {}
  Requests = {}
  None = None
  Reconnect = TRUE
  Protobuf = FALSE
  QueueSize = 2
  MaxEpoch = 1
  MaxBackoff = 1
  Faults = {"timeout"}
PROPERTIES FailureEndsSession
CHECK_DEADLOCK FALSE
