SPECIFICATION FairSpec
CONSTANTS
  Tokens = {a1, a2, a3}
  Grants = {g1}
  Ops = {o1, o2}
  AccessTTL = 1
  RefreshTTL = 1
  MaxDelay = 1
  MaxTime = 2
  NoToken = NoToken
  NoGrant = NoGrant
  NoSession = NoSession
INVARIANTS
  IInv
  Survives
  BoundedLifetime
PROPERTIES
  RevokedForever
  StaysOver
  Findable
