SPECIFICATION Spec
CONSTANTS
  a1 = a1
  a12 = a12
  a2 = a2
  t = t
  c = c
  f = f
  g = g
  n1 = n1
  Actions = {a1, a12, a2}
  UnitOf <- MCUnitOf
  Tasks = {t}
  StepOf <- MCStepOf
  Extends <- MCSessionsApart
  LastRoot = 2
  Paths = {f, g}
  OutputSets <- MCOutputSets
  Places = {"x"}
  PlaceOf <- MCPlaceOf
  Unmapped = Unmapped
  Skews <- MCSkews
  MaxTime = 1
  JobRoots = {1, 2, 3}
  LocalDirs <- MCLocalDirs
  Names = {f, g}
  NestedNames = {g}
  PrefixOf <- MCPrefixOf
  FilterGroups <- MCFilterGroups
  MaxCalls = 3
  InputGroups <- MCInputGroups
VIEW View
INVARIANTS TypeOK AttemptsNotMixed LastAttemptCounts StepsAgree  NothingLost  ShownCanMove
PROPERTIES MovedWhereAsked
CHECK_DEADLOCK FALSE
