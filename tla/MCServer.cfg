SPECIFICATION Spec
INVARIANTS RegistrySafe
SYMMETRY MCSymmetry
CONSTANTS
    c1 = c1
    c2 = c2
    c3 = c3
    n1 = n1
    n2 = n2
    t1 = t1
    t2 = t2
    a1 = a1
    a2 = a2
    r1 = r1
    r2 = r2
    NoConn = NoConn
    Conns = {c1, c2, c3}
    Names = {n1, n2}
    Name <- MCName
    Token <- MCToken
    Account <- MCAccount
    Grants <- MCGrants
    Revocable = {}
    Expirable = {}
    Requests = {r1, r2}
    Target <- MCTarget
    MaxAgents = 1
    MaxStreams = 1
CHECK_DEADLOCK FALSE
