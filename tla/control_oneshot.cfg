SPECIFICATION FairSpec
CONSTANTS
  Commands = {c1}
  Audio = {}
  Direct = {}
  Requests = {}
  None = None
  Reconnect = FALSE
  Protobuf = FALSE
  QueueSize = 5
  MaxEpoch = 2
  MaxBackoff = 2
  Faults = {"lost", "parent"}
INVARIANTS IInv GateClosedUntilSync NoUninvitedReconnect
PROPERTIES StopTerminates CommandReachesServer
CHECK_DEADLOCK FALSE
