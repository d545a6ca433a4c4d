SPECIFICATION JournalSpec
CONSTANTS
    Main = main
    Task = {main, loop}
    MAX_EVENTS = 2
    MaxId = 3
    MaxReceived = 1
    MaxRuns = 2
    MaxFailures = 1
INVARIANTS
    TypeOK
    ToldIsWritten
    IdsNameEvents
    DamageHasCause
CHECK_DEADLOCK FALSE
