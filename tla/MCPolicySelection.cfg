CONSTANTS
    Names = {"alice", "app", "(null)"}
    ValidNames = {"alice", "app"}
    OtherIds <- MCOtherIds
    Default <- MCDefault
    Uids = {1000, 1001, 1002}
    Passwd <- MCPasswd
    Groups <- MCGroups
    NullStr = NullStr
    Nul = Nul
SPECIFICATION Spec
INVARIANTS
    ActiveSelectionMatchesSpec
