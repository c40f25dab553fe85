SPECIFICATION FairSpec
CONSTANT MaxTasks = 4
INVARIANTS
    NothingLost
    ClearLeavesAtMostOne
    AtMostOneLateResult
PROPERTIES
    EveryTaskAnswered
    DestructionTerminates
CHECK_DEADLOCK FALSE
