CONSTANTS
    None = None
    Conns = {c1, c2}
    Sessions = {s1, s2}
    Users = {u1}
    Terms = {t1}
    DefaultTerm = DefaultTerm
SPECIFICATION SshSpec
INVARIANTS
    UsableIsLive
PROPERTIES
    ImplementsLease
    UnpooledClientCloses
