SPECIFICATION Spec
CONSTANTS
    Main = main
    Task = {main, loop}
    MAX_EVENTS = 2
    MaxId = 2
    MaxReceived = 0
    MaxRuns = 2
    MaxFailures = 0
    Poll = {one, two}
INVARIANTS
    FeedTypeOK
    CursorPassesNothing
PROPERTIES
    RepeatsNeedOverlap
CHECK_DEADLOCK FALSE
