SPECIFICATION AnsweredSpec
CONSTANTS
    lan = lan
    port = port
    None = None
    Host <- MCHost
    Port <- MCPort
    HostClass <- MCHostClass
    Peer = {p1}
    Session = {}
    Message = {}
    Profile <- RelayProfiles
    ObservedIp = {lan}
    PresenceLease = 2
    RelaySessionTimeout = 1
PROPERTIES
    PresenceIsKept
