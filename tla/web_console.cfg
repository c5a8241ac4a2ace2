SPECIFICATION Spec
CONSTANTS
    Instances = {a, b}
    Requests = {r1, r2}
    Ports = {p1, p2}
    NoPort = NoPort
    NoInstance = NoInstance
    Free = Free
    Touched = {a}
    Ops <- AllButCreate
SYMMETRY RequestPortSymmetry
INVARIANTS TypeOK LimaCtlSerialized ConsoleMatchesVm AnswerIsTrue
PROPERTIES ImplementsSerialLimactl
