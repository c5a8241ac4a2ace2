SPECIFICATION Spec
CONSTANTS
    Instances = {a}
    Requests = {r1, r2}
    Ports = {p1}
    NoPort = NoPort
    NoInstance = NoInstance
    Free = Free
    Touched = {}
    Ops <- StopStart
SYMMETRY RequestSymmetry
INVARIANTS VncOnlyForRunning
