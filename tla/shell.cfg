CONSTANTS
  pathA = pathA
  pathB = pathB
  text = text
  code = code
  docs = docs
  call1 = call1
  call2 = call2
  freely = freely
  Paths = {pathA, pathB}
  Content = {Deleted, Blank, text}
  Deleted = Deleted
  Blank = Blank
  Unset = Unset
  Workers = {code, docs}
  Judges = {}
  AgentOf <- MCAgentOf
  Free = freely
  ReadSets <- NoReads
  Nothing = Nothing
  Kinds = {"capture", "inspect", "query", "native"}
  Calls = {call1}
  MaxKeys = 2
  MaxRevision = 2
  MaxAttempts = 2
SPECIFICATION ShellSpec
INVARIANTS InspectionsExcludeClaims
PROPERTIES CaptureOverwritesNothing CapturedByItsAttempt
CHECK_DEADLOCK FALSE
SYMMETRY SameShell
CONSTRAINT Scenes
