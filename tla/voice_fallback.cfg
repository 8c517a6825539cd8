SPECIFICATION FairSpec
CONSTANTS
  Syncs = {s1, s2}
  Listeners = {l1, l2, l3}
  None = None
  Sessions = 2
  Outages = 0
  Events = {"voice", "audio", "nonce"}
INVARIANTS IInv LockNeverLeft
PROPERTIES VoiceFallsBack VoiceNotBlocked
CHECK_DEADLOCK FALSE
