SPECIFICATION PFairSpec
CONSTANTS
    Instances = {a, b}
    Requests = {r1}
    Ports = {p1, p2}
    NoPort = NoPort
    NoInstance = NoInstance
    Free = Free
    Touched = {a}
    Sessions = {s1}
    Ops <- StartStopDelete
INVARIANTS ProxyTypeOK SteadySessionReachesItsVm
PROPERTIES RelayIsTornDown
