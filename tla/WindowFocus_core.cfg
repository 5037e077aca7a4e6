SPECIFICATION Spec
CONSTANTS
  main = main
  dialog = dialog
  tool = tool
  Windows = {main, dialog, tool}
  Unmanaged = {popup}
  NoFocusWin = NoFocusWin
  Root = Root
  Nowhere = Nowhere
  None = None
  StyleOf <- MCStyleOf
  ParentOf <- MCParentOf
  SwiftPointer = FALSE
  MaxInFlight = 3
INVARIANTS
  TypeOK
  HiliteAgrees
  
CHECK_DEADLOCK FALSE
