CONSTANTS
  Wrap = 6
  LongMod = 6
  ClockSkew = 2
  MaxLag = 1
  MaxLate = 1
  Ids = {1}
  AutoIds = 1
  Delays = {0, 1}
  Modes = {TRUE, FALSE}
  Nested = {"schedule"}
  Jobs = {j1, j2}
  RIds = {1, 2, 3, 4}
  MaxDepth = 1
SPECIFICATION FairSpec
INVARIANTS TypeOK  OneRecordPerJob QueueSorted
PROPERTIES NeverEarly ImplementsPromise 
