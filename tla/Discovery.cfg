SPECIFICATION FairSpec
CONSTANTS
    lan = lan
    ip1 = ip1
    ip2 = ip2
    p1 = p1
    p2 = p2
    None = None
    Host <- MCHost
    Port <- MCPort
    HostClass <- MCHostClass
    Seen <- MCSeen
    Socket = {a, b}
    MaxStarts = 2
INVARIANTS
    TypeOK
    DescriptionIsTrue
PROPERTIES
    DiscoveryEnds
CHECK_DEADLOCK FALSE
