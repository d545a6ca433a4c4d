SPECIFICATION PresenceFairSpec
CONSTANTS
    lan = lan
    port = port
    None = None
    Host <- MCHost
    Port <- MCPort
    HostClass <- MCHostClass
    Peer = {p1, p2}
    Session = {s1}
    Message = {}
    Profile <- RelayProfiles
    ObservedIp = {lan}
    PresenceLease = 2
    RelaySessionTimeout = 1
INVARIANTS
    PresenceTypeOK
    RunningIsOnline
    StatusTellsPresence
PROPERTIES
    LossIsNoticed
    NothingLingers
