CONSTANTS
  Paths <- MCPaths
  Dirs <- MCDirs
  Root = "root"
  DirOf <- MCDirOf
  Absent = Absent
  Unset = Unset
  NoCycle = NoCycle
  Null = Null
  CycleOf <- MCCycleOf
  v1 = v1
  v2 = v2
  ordinary = ordinary
  upkeep = upkeep
  cyc = cyc
  Content = {v1, v2}
  Agents = {ordinary, upkeep}
  Cycles = {cyc}
  MaxEdits = 2
  MaxJournal = 2
SPECIFICATION FairSpec
INVARIANTS NoTemporaryOutlives IInv
PROPERTIES ImplementsAtomic OverwritesKnownContentOnly RollbackRemovesDirs PendingResolves
CONSTRAINT Scenes
