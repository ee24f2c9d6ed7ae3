CONSTANTS
    Null = Null
    NotJson = NotJson
    Abort = Abort
    MaxStarts = 2
    MaxInbox = 3
SPECIFICATION Spec
INVARIANTS
    TeardownMirrorsStartup
    ReleasedPathDropped
PROPERTIES
    CreateSessionCompletes
CHECK_DEADLOCK FALSE
