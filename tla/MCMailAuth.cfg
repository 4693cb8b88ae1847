SPECIFICATION MCSpec
INVARIANTS  NoSpoofing AddressSound 
PROPERTIES DnsReads
CONSTANTS
    W4 = 2
    W6 = 3
    MaxLookups = 3
    MaxVoidLookups = 1
    MaxChainDepth = 3
    OrgDomain <- MCOrgDomain
    Scenario <- MCScenario
    Cases <- MCCases
    Datagrams <- MCDatagrams
    Pointer = 192
    Reserved = 64
    MaxJumps = 2
    QTail = 1
    RRHead = 1
    Alphabet = {"a", "A", "-", "."}
    Pairs <- MCPairs
    MAX_LOCALPART_LEN = 8
    Gateways = {"gw1", "gw2"}
    Bodies = {"b1", "b2"}
    Claims = {"AR"}
    HostDomains = {"Host", "other"}
    Folded <- MCFolded
    Entries <- MCEntries
    KeyRegistered = {"gw1"}
    MaxHops = 2
    MaxTampers = 2
CHECK_DEADLOCK FALSE
