SPECIFICATION InputSpec
CONSTANTS
  Sessions <- MCSessions
  Known <- MCKnown
  Numbers <- MCNumbers
  Lengths = {0, 1, 130}
  Overwritten = Overwritten
INVARIANTS ListenerSurvives
CHECK_DEADLOCK FALSE
