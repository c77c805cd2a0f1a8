SPECIFICATION Spec
CONSTANTS
    s1 = s1
    s2 = s2
    h1 = h1
    h2 = h2
    c1 = c1
    c2 = c2
    NoSession = NoSession
    NoIndex = NoIndex
    NoCall = NoCall
    NoCaller = NoCaller
    NoRequest = NoRequest
    NoTitle = NoTitle
    NoProject = NoProject
    Sessions = {s1, s2}
    Workspace <- OwnWorkspaces
    Callers = {h1, h2}
    Requests <- TheRequests
    Calls = {c1, c2}
    MaxCalls = 4
    ColumnAuthor <- TheColumns
    Matrix = "Matrix"
CHECK_DEADLOCK FALSE
INVARIANTS IndexIsLinked RecordedIsAttributed NoWaitCycle
SYMMETRY Symmetry
CONSTRAINT Scenes
