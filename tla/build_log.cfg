SPECIFICATION LogFairSpec
CONSTANTS
    Jobs = {j1}
    Names = {n1}
    MaxMs = 0
    MaxKept = 2
    MaxLines = 3
    NoJob = NoJob
    NoFile = NoFile
    Blank = Blank
INVARIANTS LogTypeOK LateStreamIsComplete
PROPERTIES StreamEnds EveryBuildEnds
