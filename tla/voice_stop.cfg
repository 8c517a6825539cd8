SPECIFICATION FairSpec
CONSTANTS
  Syncs = {s1, s2}
  Listeners = {l1, l2, l3}
  None = None
  Sessions = 1
  Outages = 1
  Events = {"stop", "request", "junk", "unreachable", "early", "tcp"}
INVARIANTS TypeOK
PROPERTIES StopEndsListeners
CHECK_DEADLOCK FALSE
