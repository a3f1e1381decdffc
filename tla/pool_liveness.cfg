SPECIFICATION ServingSpec
CONSTANTS
  Keys = {k1}
  Ops = {o1, o2}
  Pools = {p1, p2}
  Conns = {c1, c2}
  MaxConns = 1
  MaxWrites = 1
  NoOp = NoOp
  NoKey = NoKey
  NoPool = NoPool
  NoConn = NoConn

  Procs = {q1, q2}
  MaxInFlight = 1
INVARIANTS LifeIInv SavedIsFound
PROPERTY RequestsEnd
