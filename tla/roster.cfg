SPECIFICATION Spec
CONSTANTS
  People = {me, p}
  Me = me
  SessionIds = {s1, s2}
  ChannelIds = {root, sub}
  Root = root
  Blobs = {b1, b2, x}
  Short = {x}
  Terse = {me}
  Faceless = {me}
  None = None
  Greedy = TRUE
  Connections = 2
  News = 3
  Lag = 2
SYMMETRY Alike
CONSTRAINT Apart
INVARIANTS TypeOK MapsAreServers MyselfInMap CallbacksComplete NothingForgotten CacheTrue
CHECK_DEADLOCK FALSE
