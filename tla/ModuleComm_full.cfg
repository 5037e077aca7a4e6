CONSTANTS
  N = 2
  Initial = 2
  ListenOnly = {}
  Classes = {"sync"}
  MaskOf <- AllSync
  EventOps = {"broadcast"}
  QueuedOps = {"reply", "wait"}
  SyncOps = {"broadcast"}
  MaxMsgs = 2
  MaxItems = 1
  PipeCap = 1
  MaxDepth = 2
SPECIFICATION Spec
PROPERTIES ReliableChannels
CHECK_DEADLOCK FALSE
