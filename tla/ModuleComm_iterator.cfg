CONSTANTS
  N = 2
  Initial = 2
  ListenOnly = {}
  Classes = {"sync"}
  MaskOf <- AllSync
  EventOps = {"broadcast"}
  QueuedOps = {}
  SyncOps = {"broadcast"}
  MaxMsgs = 2
  MaxItems = 1
  PipeCap = 1
  MaxDepth = 1
SPECIFICATION Spec
INVARIANTS NoUseAfterFree
