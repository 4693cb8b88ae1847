SPECIFICATION RaceSpec
CONSTANTS
    Threads = {t1, t2}
    Payers = {p1, p2}
    Refs = {r1, r2}
    Amounts = {1, 2}
    Nobody = Nobody
    MaxU = 3
    MaxSeq = 4
    Callers = {"c1", "c2"}
    Accounts = {a, b}
    Charges = {1, 2}
    Receipts <- MCReceipts
    Presents <- SharedPresents
    MaxCharges = 4
    U64 = 5
    Schedules <- MCSchedules
    Kinds <- Kind
    Units = {1, 2, 5}
    TopUps = {2, 5}
    EngineRefs = {e1, e2}
    Refunds = {1, 3}
    Currency = "usd"
    Threshold = 1
    MaxReceipts = 3
    Keys = {"ik1", "ik2"}
    Payloads = {"x", "y"}
    Expiries = {"none", "soon"}
    Deadline <- MCDeadline
    SigNames = {"s1", "s2"}
    MaxNow = 1
    Workers = {w1, w2}
    Environments <- MCEnvironments
    Visibilities <- MCVisibilities
    AdSchedules <- MCAdSchedules
    Metered <- Kind
    Agendas <- MCAgendas
    MaxRotations = 2
    MaxRecorded = 1
INVARIANT
    CreditedOnce
CHECK_DEADLOCK FALSE
