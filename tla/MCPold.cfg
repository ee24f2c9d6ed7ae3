CONSTANTS
    Agents = {1, 10}
    AppOwners = {3, 4}
    PoldName = 5
    Paths = {"p1"}
    Names = {"app", "alice", "eng", "(null)"}
    ValidNames = {"app", "alice", "eng"}
    SelinuxAnswer <- MCSelinuxAnswer
    Uid <- MCUid
    Passwd <- MCPasswd
    Groups <- MCGroups
    DefaultDoc <- MCDefaultDoc
    OwnDoc <- MCOwnDoc
    InitialDisk <- MCInitialDisk
    Responses <- MCResponses
    Requests = {r1, r2}
    MaxFetches = 2
    SenderOutcomes = {"intact", "garbage"}
    InitialStale = {TRUE}
    EmptyId <- MCEmptyId
    NullStr = NullStr
    Nul = Nul
    NoId = NoId
    NullJson = NullJson
    NotArray = NotArray
    NotObject = NotObject
    None = None
    ErrorReply = ErrorReply
SPECIFICATION Spec
INVARIANTS
    TypeOK
    IndexConsistency
PROPERTIES
SYMMETRY MCSymmetry
CHECK_DEADLOCK FALSE
