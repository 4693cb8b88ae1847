SPECIFICATION MCSpec
INVARIANTS HandoffSafe 
PROPERTIES QueueSteps ClientsLive
CONSTANTS
    l1 = l1
    l2 = l2
    p1 = p1
    p2 = p2
    None = None
    Loops = {l1, l2}
    PoPs = {p1, p2}
    m1 = m1
    m2 = m2
    m3 = m3
    k1 = k1
    k2 = k2
    w1 = w1
    w2 = w2
    Keys = {k1, k2}
    Queues = {"mailbox"}
    Msgs = {m1, m2, m3}
    To <- MCTo
    In <- MCIn
    Size <- MCSize
    Pollers = {w1, w2}
    PollKey <- MCPollKey
    PollQueue <- MCPollQueue
    MaxPerKeyBlobs = 2
    MaxPerKeyBytes = 3
    MaxKeys = 1
    MaxTTL = 1
    SweepEvery = 2
    Skew = 1
CHECK_DEADLOCK FALSE
