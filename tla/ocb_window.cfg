SPECIFICATION DataSpec
CONSTANTS
  Base = 8
  Half = 4
  Window = 3
  None = None
  Keys <- MCKeys
  Start <- MCStart
  Sends <- MCSends
  Resyncs = 1
  Sessions <- MCSessions
  Known <- MCKnown
  Numbers <- MCNumbers
  Lengths = {0, 1, 130}
  Overwritten = Overwritten
  Connections = 2
  Count <- MCCount
  Edge <- MCEdge
  ReadSize = 9
  Misread = {0, 3}
  SequenceDuration = 2
  ResetInterval = 7
  BufferTime = 2
  Durations = {1, 2}
  FirstDuration = 2
  Bursts = {3}
  Boot = 7
  MaxTime = 13
  MaxFed = 6
  Names = {n1, n2}
  Members = {m1, m2}
  Absent = Absent
  Entry = Entry
INVARIANTS TypeOK NonceIsHighest LostCount HistoryOK InWindowAccepted HeardAsSent FirstFrameHeard BufferIsRest NothingKeptBack OutTypeOK GroupsAsSent EndsByNameOnly
PROPERTIES AcceptedOnce ImplementsMessageStream NumbersGrow NumbersFollowClock FramesInOrder CallReturns
CHECK_DEADLOCK FALSE
