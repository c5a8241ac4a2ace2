SPECIFICATION SFairSpec
CONSTANTS
    Instances = {a}
    Requests = {r1, r2}
    Ports = {p1}
    NoPort = NoPort
    NoInstance = NoInstance
    Free = Free
    Touched = {a}
    Terminals = {t1}
    Ops <- CreateStopBootc
INVARIANTS ShellTypeOK
PROPERTIES EveryRequestAnswered StartupRegisters DepartedBrowserEndsShell TerminalEndsWithShell
