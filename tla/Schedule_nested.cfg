CONSTANTS
  Wrap = 6
  LongMod = 6
  ClockSkew = 2
  MaxLag = 1
  MaxLate = 1
  Ids = {}
  AutoIds = 1
  Delays = {1}
  Modes = {TRUE, FALSE}
  Nested = {"schedule", "deschedule", "wait"}
  Jobs = {j1, j2}
  RIds = {1, 2, 3, 4, 5, 6}
  MaxDepth = 2
SPECIFICATION Spec
INVARIANT WalksSound
