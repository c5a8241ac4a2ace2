SPECIFICATION LogSpec
CONSTANTS
    Jobs = {j1}
    Names = {n1}
    MaxMs = 0
    MaxKept = 2
    MaxLines = 2
    NoJob = NoJob
    NoFile = NoFile
    Blank = Blank
INVARIANTS FollowsNewContent
