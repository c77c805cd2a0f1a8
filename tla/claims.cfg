CONSTANTS
  pathA = pathA
  pathB = pathB
  text = text
  code = code
  docs = docs
  check1 = check1
  check2 = check2
  freely = freely
  Paths = {pathA, pathB}
  Content = {text}
  Unset = Unset
  Workers = {code, docs}
  Judges = {check1, check2}
  AgentOf <- MCAgentOf
  Free = freely
  ReadSets <- SomeReads
  Nothing = Nothing
  MaxKeys = 3
  MaxRevision = 2
  MaxAttempts = 2
SPECIFICATION Spec
INVARIANTS StagedOwned OwnedHasBase BindIsUnambiguous AssignedClaimsRespectReaders
INVARIANTS GatesAreDeclared
PROPERTIES WorkIsKept LatestGateSpeaks FailingNeedsAcceptance
CHECK_DEADLOCK FALSE
SYMMETRY SameAgent
CONSTRAINT Scenes
