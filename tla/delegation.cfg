CONSTANTS
  r1 = r1
  u1 = u1
  u2 = u2
  c1 = c1
  c2 = c2
  c3 = c3
  h1 = h1
  i1 = i1
  i2 = i2
  Roots = {r1}
  Units = {u1, u2}
  RootOf <- MCRootOf
  Calls = {c1, c2, c3}
  CallUnit <- MCCallUnit
  Objectives = {}
  ObjectiveRoot <- MCObjectiveRoot
  Specialists = 2
  UnplannedUnits = 2
  ContestLimit = 1
  RecoveryFailures = 1
  MaxActions = 1
  MaxAttempts = 1
  None = None
  PlanInputs = {}
  RoundInputs = {}
  MaxAdmissions = 2
  MaxBus = 0
  MaxExceptions = 0
  MaxVersion = 0
  Children = {h1}
  ChildOf <- MCChildOf
  Resuming = {c2, c3}
  Background = {c1}
  Instances = {i1, i2}
  InstanceOf <- MCInstanceOf
  MaxCrashes = 1
SPECIFICATION FairSpec
INVARIANTS LiveExecutionHoldsItsUnit ChildRunsOne
PROPERTIES OnlyOverWorkIsSettled TerminationIsSettled
CHECK_DEADLOCK FALSE
CONSTRAINT Scenes
