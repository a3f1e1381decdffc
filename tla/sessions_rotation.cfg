SPECIFICATION MemorySpec
CONSTANTS
  Tokens = {a1, a2, a3}
  Grants = {g1}
  Ops = {o1, o2}
  AccessTTL = 1
  RefreshTTL = 2
  MaxDelay = 1
  MaxTime = 3
  NoToken = NoToken
  NoGrant = NoGrant
  NoSession = NoSession
SYMMETRY Symmetry
INVARIANTS
  RotationReplaces
