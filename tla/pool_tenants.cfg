SPECIFICATION Spec
CONSTANTS
  Keys = {k1, k2}
  Ops = {o1, o2}
  Pools = {p1, p2, p3, p4}
  Conns = {c1, c2, c3}
  MaxConns = 2
  MaxWrites = 1
  NoOp = NoOp
  NoKey = NoKey
  NoPool = NoPool
  NoConn = NoConn
SYMMETRY Symmetry
INVARIANT TenantIsolation
PROPERTY ImplementsLease
