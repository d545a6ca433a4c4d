SPECIFICATION Spec
CONSTANTS
    auto = auto
    direct = direct
    relay = relay
    receiver = receiver
    m1 = m1
    m2 = m2
    m3 = m3
    NoSession = NoSession
    Peer = {auto, direct, relay, receiver}
    Message = {m1, m2, m3}
    Sender <- MCSender
    target_peer_id <- MCTarget
    communication_mode <- MCMode
    Listeners <- MCListeners
    Session = {s1, s2, s3}
    Fragile = {receiver}
SYMMETRY SessionSymmetry
INVARIANTS
    TypeOK
    SentDirectIsStored
    EnvelopesAreSomewhere
    DuplicatesOnlyByFallback
    ForcedModeIsKept
