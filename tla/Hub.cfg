SPECIFICATION Spec
CONSTANTS
    lan = lan
    public = public
    port = port
    None = None
    Host <- MCHost
    Port <- MCPort
    HostClass <- MCHostClass
    Peer = {p1, p2, p3}
    Session = {s1}
    Message = {m1, m2, m3}
    Profile <- MixedProfiles
    ObservedIp <- SeenPublic
    PresenceLease = 1
    RelaySessionTimeout = 2
SYMMETRY ClientSymmetry
INVARIANTS
    TypeOK
    RelayFifo
    OfflineIsFinal
    OnlyTheAddressee
PROPERTIES
    ImplementsMailbox
    SessionsEndForCause
