SPECIFICATION FairSpec
CONSTANTS
    None = None
    Thread = {t1, t2}
    Chat = {cli}
    Address <- MCAddress
    Clash <- MCClash
    Config <- MCConfig
    MaxCalls = 3
INVARIANTS
    TypeOK
    NothingIsLeftRunning
    WritersTakeTurns
PROPERTIES
    CallsReturn
CHECK_DEADLOCK FALSE
