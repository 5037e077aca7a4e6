CONSTANTS
  a = a
  b = b
  None = None
  Clients = {a,b}
  Desks = {0, 1}
  Hint <- Pair
  StartIconic = {b}
  Impatient = {}
  Hasty = FALSE
  OpensAny = FALSE
  Ops <- AllOps
  MaxQueue = 3
SPECIFICATION FairSpec
INVARIANTS TypeOK FlagsMatchServer WishesGranted
PROPERTIES OnlyClientsWithdraw WishesCome
CHECK_DEADLOCK FALSE
