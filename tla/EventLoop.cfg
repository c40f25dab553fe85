SPECIFICATION FairSpec
CONSTANTS
    MaxTasks = 3
    Cycle = 2  MaxForced = 4
    Sizes = {1, 2}
INVARIANTS
    NoStrandedResult
    SurfaceFollowsWindow
PROPERTIES
    ImplementsTaskService
    ResultsAreReceived
    ClosingEndsProgram
CHECK_DEADLOCK FALSE
