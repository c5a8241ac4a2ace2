SPECIFICATION Spec
CONSTANTS
    Jobs = {j1, j2}
    Names = {n1, n2}
    MaxMs = 1
    MaxKept = 1
    NoJob = NoJob
    NoFile = NoFile
    Blank = Blank
SYMMETRY JobNameSymmetry
INVARIANTS TypeOK WorkspacePrivate CompleteMadeOwnVm LeavesOnlyUnremovable
PROPERTIES OutcomeIsFinal ImplementsLifecycle
