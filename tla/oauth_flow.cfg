SPECIFICATION FlowSpec
CONSTANTS
  States = {s1, s2}
  Codes = {c1, c2}
  Replicas = {r1, r2}
  Ops = {o1, o2}
  Clients = {m1}
  WebUI = WebUI
  PendingTTL = 2
  CodeTTL = 1
  CleanupPeriod = 1
  MaxDelay = 1
  MaxTime = 6
  NoClient = NoClient
  NoState = NoState
  NoReplica = NoReplica
  ClientIds = {m1}
  Loopback = {loopback}
  Https = {https}
  Custom = {custom}
  Other = {other}
  Attempts = {a1}
  ClientTTL = 1
  AttemptTTL = 1
  LastTime = 3
  NoAttempt = NoAttempt
SYMMETRY Symmetry
INVARIANTS
  IInv
  OneTime
  ProofOfPossession
  InTime
  MapsBounded
  SentWhereAllowed
PROPERTIES
  ImplementsOneTimeGrant
  NothingForgotten
