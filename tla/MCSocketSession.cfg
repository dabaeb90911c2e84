CONSTANTS
    None = None
    Conns = {c1, c2}
    Sessions = {s1, s2}
    Users = {u1, u2}
    Terms = {t1}
    DefaultTerm = DefaultTerm
    Sockets = {k1, k2}
INIT SocketInit
NEXT SocketNext
SYMMETRY SocketSymmetry
CHECK_DEADLOCK FALSE
INVARIANTS
    SocketHoldsItsOwn
    PooledIsKnown
    OneLiveSessionPerUser
    SessionKeepsItsUser
