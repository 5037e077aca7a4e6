CONSTANTS
  Wrap = 8
  LongMod = 64
  ClockSkew = 2
  MaxLag = 1
  MaxLate = 0
  Ids = {}
  AutoIds = 1
  Delays = {2}
  Modes = {FALSE}
  Nested = {}
  Jobs = {j1, j2}
  RIds = {1, 2, 3, 4}
  MaxDepth = 1
SPECIFICATION FairSpec
PROPERTIES EventuallyDone
