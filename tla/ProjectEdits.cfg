SPECIFICATION Spec
CONSTANTS
    p = p  q = q  broken = broken
    s1 = s1  s2 = s2  s3 = s3  s4 = s4  s5 = s5  s6 = s6
    v1 = v1  v2 = v2  v3 = v3  v4 = v4  v5 = v5
    Projects = {p, q, broken}
    SignalsOf <- MCSignalsOf
    SensorsOf <- MCSensorsOf
    MappingOf <- MCMappingOf
    MaxColour = 3
    NoProject = NoProject
    Nil = Nil
INVARIANTS
    Inverse
    FileMappingsHold
    ColoursAgree
