SPECIFICATION FairSpec
CONSTANTS
    f = f  g = g  n1 = n1  n2 = n2  n3 = n3  m1 = m1  m2 = m2
    Embedded = Embedded
    Paths = {f, g}
    Documents <- MCDocuments
    Builds = {FALSE, TRUE}
    MaxChannels = 2
    FrameCounts = {0, 3}
    ChunkFrames = 2
INVARIANTS
    SignalsAreWholeChannels
    SavedProjectLoads
PROPERTIES
    ImplementsProjectLoad
    EveryFileAnswers
CHECK_DEADLOCK FALSE
