SPECIFICATION Spec
CONSTANTS
  Commands = {c1}
  Audio = {a1}
  Direct = {d1}
  Requests = {r1}
  None = None
  Reconnect = TRUE
  Protobuf = TRUE
  QueueSize = 2
  MaxEpoch = 2
  MaxBackoff = 1
  Faults = {"lost", "timeout", "bad", "resync"}
INVARIANTS TypeOK GateOpenWhileAnnounced ConnectAnnouncedOnce
PROPERTIES SocketKeptDuringSession ImplementsCommandPipe
CONSTRAINT ExtrasApart
ACTION_CONSTRAINT FaultsWithExtras
CHECK_DEADLOCK FALSE
