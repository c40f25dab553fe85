SPECIFICATION Spec
CONSTANTS
    p = p  q = q  long = long  short = short  irregular = irregular
    Constant = Constant  Hann = Hann
    Projects = {p, q}
    SignalsOf <- MCSignalsOf
    SizeLog <- MCSizeLog
    Uniform = {long, short}
    Windows = {Constant, Hann}
    NoProject = NoProject
    MaxResets = 1  MaxUnderWay = 2
INVARIANT TransformFits
