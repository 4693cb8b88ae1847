SPECIFICATION MCSpec
INVARIANTS MeterSafe
PROPERTIES ImplementsLedger EventuallyCharged GateLive
CONSTANTS
    a1 = a1
    a2 = a2
    u1 = u1
    u2 = u2
    g1 = g1
    g2 = g2
    Accounts = {a1, a2}
    Units = {u1, u2}
    Owner <- MCOwner
    MaxAccounts = 1
    MaxRetryBatches = 1
    MaxBoots = 2
    Callers = {g1, g2}
    Kinds <- MCKinds
    Statuses = {"ok", "over", "revoked"}
    GateTTL = 1
    GateTimeout = 0
CHECK_DEADLOCK FALSE
