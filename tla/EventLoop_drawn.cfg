SPECIFICATION Spec
CONSTANTS
    MaxTasks = 1
    Cycle = 4  MaxForced = 4
    Sizes = {1}
INVARIANT ForcedFramesAreDrawn
CHECK_DEADLOCK FALSE
