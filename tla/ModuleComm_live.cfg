CONSTANTS
  N = 2
  Initial = 2
  ListenOnly = {}
  Classes = {"sync"}
  MaskOf <- AllNoGrab
  EventOps = {"broadcast"}
  QueuedOps = {"reply"}
  SyncOps = {"masks"}
  MaxMsgs = 2
  MaxItems = 1
  PipeCap = 1
  MaxDepth = 1
SPECIFICATION FairSpec
PROPERTIES UnlockIsOwn  DeadModulesGo
