SPECIFICATION AccountsSpec
CONSTANTS
  Ops = {o1, o2}
  Settings = {s1}
  Passwords = {p1, p2}
  Blank = Blank
  NoSetting = NoSetting
  MaxTime = 2
  MaxWrites = 3
  NoAccount = NoAccount
  NoRequest = NoRequest
  MaxId = 3
  Listings = {l1}
SYMMETRY Symmetry
CHECK_DEADLOCK FALSE
INVARIANTS
  IInv
  ListedOnce
PROPERTIES
  ImplementsRegister
  UndisturbedKeeps
