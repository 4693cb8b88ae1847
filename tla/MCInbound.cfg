SPECIFICATION FairSpec
INVARIANTS MailSafe ColdGateHolds
PROPERTIES SlotReturns
CONSTANTS
    Conns = {"c1", "c2", "c3"}
    IPs = {"ip1", "ip2"}
    Peer <- MCPeer
    Forms = {"angle"}
    Senders = {"s1"}
    Rcpts = {"r1", "r3", "r4"}
    Lines = {"text"}
    BlockedIPs = {}
    BlockedSenders = {}
    KnownIPs = {"ip2"}
    KnownSenders = {"s1"}
    Directory = {"r1", "r3"}
    DomainOf <- MCDomainOf
    AttestKey <- MCAttestKey
    SpfResult <- MCSpf
    DkimVerdict <- MCDkim
    DmarcVerdict <- MCDmarc
    SpfEnforce = TRUE
    DkimEnforce = TRUE
    DmarcEnforce = TRUE
    TlsOffered = TRUE
    RateLimit = 1
    RateWindow = 1
    MinRetry = 1
    GreyTtl = 2
    MaxConns = 2
    MaxTransaction = 2
    MaxLines = 1
    MaxClock = 3
    MaxMsgs = 1
CHECK_DEADLOCK FALSE
