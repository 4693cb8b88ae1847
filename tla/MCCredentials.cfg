SPECIFICATION MCSpec
PROPERTIES RevokedIsCut GateSound StoreSound
CONSTANTS
    c1 = c1
    c3 = c3
    n1 = n1
    n2 = n2
    t1 = t1
    t2 = t2
    a1 = a1
    a2 = a2
    g1 = g1
    g2 = g2
    h1 = h1
    h2 = h2
    NoConn = NoConn
    Conns = {c1, c3}
    Names = {n1, n2}
    Name <- MCName
    Token <- MCToken
    Account <- MCAccount
    Grants <- MCGrants
    Revocable = {n2}
    Expirable = {t1}
    Requests = {}
    Target <- MCTarget
    MaxAgents = 2
    MaxStreams = 1
    Callers = {g1, g2}
    Kinds <- MCKinds
    Statuses = {"ok", "over", "revoked"}
    GateTTL = 1
    GateTimeout = 1
    Handshakes = {h1, h2}
    TunnelNames = {n1, n2}
    Claim <- MCClaim
    StoreTTL = 1
    StoreTimeout = 1
CHECK_DEADLOCK FALSE
