SPECIFICATION Spec
CONSTANTS
    p0 = p0  p1 = p1  p2 = p2  a = a  b = b
    ProjectFiles = {p0, p1, p2}
    Externals = {a, b}
    SourcesOf <- MCSourcesOf
    Builds = {FALSE}
    LoadEnds = {"project", "error"}
    MaxSelections = 2
    MaxUploads = 1
    MaxEdits = 0
INVARIANT ModalCanBeAnswered
CHECK_DEADLOCK FALSE
