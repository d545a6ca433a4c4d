SPECIFICATION PromptFairSpec
CONSTANTS
    lan = lan
    port = port
    None = None
    Host <- MCHost
    Port <- MCPort
    HostClass <- MCHostClass
    Peer = {p1, p2}
    Session = {s1}
    Message = {m1, m2}
    Profile <- RelayProfiles
    ObservedIp = {lan}
    PresenceLease = 3
    RelaySessionTimeout = 3
    HeartbeatInterval = 2
    PollInterval = 2
INVARIANTS
    PromptTypeOK
    BeatingPeersStayOnline
    WaitingSessionsStayOpen
    NothingIsDropped
PROPERTIES
    EverythingArrives
