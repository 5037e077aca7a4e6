CONSTANTS
  a = a
  b = b
  c = c
  Windows = {a, b, c}
  None = None
  Root = Root
  RaiseTr = {a, b}
  LowerTr = {a}
  StackParent = {b, c}
  ClickFocus = {a}
  ClickRaise = {b, c}
  Layers = {0, 1}
  HintsOf <- Tree
  Ops = {"new", "withdraw", "raise", "lower", "restack", "raiselower", "layer",
         "configure", "iconify", "hint"}
  Listening = TRUE
  MaxMapping = 1
  StaleMarks = FALSE
SPECIFICATION Spec
INVARIANTS TypeOK RingConsistent CommandsRestack
PROPERTIES ListPublished ClicksRaise IconsStayReachable PagerFollows
