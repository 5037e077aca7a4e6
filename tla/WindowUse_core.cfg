CONSTANTS
  Clients = {a, b}
  Recs = {r1, r2, r3}
  Functions = {f}
  EventCommands = {"close", "wait", "function", "menu", "destroyfunc", "addtofunc"}
  ClickCommands = {"function", "menu"}
  FunctionCommands = {"close", "wait", "function", "menu", "all", "destroyfunc"}
  MenuCommands = {"close", "wait", "function", "menu", "all"}
  AllCommands = {"close", "wait", "function"}
  LockCommands = {"function"}
  MaxFrames = 4
  None = None
SYMMETRY Symmetry
SPECIFICATION Spec
INVARIANTS TypeOK NoUseAfterFree ContextsCurrent AnnouncedOnce NothingLeftBehind
