SPECIFICATION FairSpec
CONSTANTS
    p0 = p0  p1 = p1  p2 = p2  a = a  b = b
    ProjectFiles = {p0, p1, p2}
    Externals = {a, b}
    SourcesOf <- MCSourcesOf
    Builds = {FALSE, TRUE}
    LoadEnds = {"project", "error", "null"}
    MaxSelections = 2
    MaxUploads = 3
    MaxEdits = 1
INVARIANTS
    ModalOwnsUnloaded
    DecisionsAreCurrent
    EachFileLoadedOnce
    CancelledStaysOut
    SignalsFollowTheirProject
PROPERTIES
    CompletedLoadGoesOn
    CompletedLoadEnds
CHECK_DEADLOCK FALSE
