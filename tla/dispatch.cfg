CONSTANTS
  r1 = r1
  u1 = u1
  u2 = u2
  c1 = c1
  c2 = c2
  c3 = c3
  o1 = o1
  o2 = o2
  Roots = {r1}
  Units = {u1, u2}
  RootOf <- MCRootOf
  Calls = {c1, c2, c3}
  CallUnit <- MCCallUnit
  Objectives = {o1, o2}
  ObjectiveRoot <- MCObjectiveRoot
  Specialists = 2
  UnplannedUnits = 2
  ContestLimit = 1
  RecoveryFailures = 1
  MaxActions = 1
  MaxAttempts = 1
  None = None
  PlanInputs <- MCPlanInputs
  RoundInputs <- MCRoundInputs
  MaxAdmissions = 2
  MaxBus = 2
  MaxExceptions = 1
  MaxVersion = 2
SPECIFICATION DSpec
INVARIANTS ScopesDisjoint RoundsAreBounded
PROPERTIES AdmissionSeesConsumption
CHECK_DEADLOCK FALSE
CONSTRAINT Scenes
SYMMETRY SameObjectives
