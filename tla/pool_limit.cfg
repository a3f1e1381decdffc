SPECIFICATION Spec
CONSTANTS
  Keys = {k1}
  Ops = {o1, o2, o3}
  Pools = {p1, p2, p3}
  Conns = {c1, c2, c3}
  MaxConns = 1
  MaxWrites = 2
  NoOp = NoOp
  NoKey = NoKey
  NoPool = NoPool
  NoConn = NoConn
SYMMETRY Symmetry
INVARIANT PoolLimit
