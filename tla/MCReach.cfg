SPECIFICATION MCSpec
INVARIANTS BoxesAuthentic RoutingSafe HelloRead
 
CONSTANTS
    Conns = {"c1", "c2", "c3"}
    Iks = {"k1", "k2"}
    Names = {"a", "A"}
    Services = {"web"}
    Key <- MCKey
    Announces <- MCAnnounces
    MaxPending = 2
    Clients = {"v", "w"}
    Hosts = {"a", "A"}
    Service = "web"
    NoConn = "none"
    Lower <- MCLower
    HelloLen = 1
    StreamLen = 2
    Hellos <- MCHellos
    Header = 2
    MaxRecord = 6
    MaxHello = 6
    Chunk = 3
CHECK_DEADLOCK FALSE
