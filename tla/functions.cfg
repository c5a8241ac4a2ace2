SPECIFICATION FunctionsSpec
CONSTANTS
    MaxLines = 3
    MaxArgs = 4
INVARIANTS ErrorIsLastError ReadersAgree RunsOnTcg
CHECK_DEADLOCK FALSE
