SPECIFICATION Spec
CONSTANTS
  DisplayHeight = 10
  VyMax = 10
  MinHeight = 1
  BaseHeight = 1
  HeightInc = 2
  Styles <- MCStyles
  Gravities <- MCGravities
  ShadeDirs = {"N", "S", "SW", "W"}
  MaxSteps = 4
  Targets = {8}
  Heights = {3}
INVARIANTS TypeOK FrameAgrees PlaceKept 
CHECK_DEADLOCK FALSE
