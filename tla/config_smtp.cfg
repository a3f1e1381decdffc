SPECIFICATION Spec
CONSTANTS
  Ops = {o1, o2}
  Settings = {s1, s2}
  Passwords = {p1, p2}
  Blank = Blank
  NoSetting = NoSetting
  MaxTime = 2
  MaxWrites = 3
  NoAccount = NoAccount
  NoRequest = NoRequest
CHECK_DEADLOCK FALSE
INVARIANT
  BlankMeansImap
