SPECIFICATION DecisionSpec
CONSTANTS
    lo = lo
    lo2 = lo2
    any = any
    lan1 = lan1
    lan2 = lan2
    pub = pub
    p1 = p1
    p2 = p2
    None = None
    Host <- MCHost
    Port <- MCPort
    HostClass <- MCHostClass
    Source <- MCSource
    Target <- MCTarget
INVARIANTS
    CandidatesAreTheUsableOnes
    ReasonExplainsRelay
    ObservedTargetAddressChangesNothing
    LoopbackIsNeverOffered
CHECK_DEADLOCK FALSE
