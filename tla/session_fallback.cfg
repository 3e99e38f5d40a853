SPECIFICATION Spec
CONSTANTS
  i = i
  i_1 = i_1
  o1 = o1
  o2 = o2
  r1 = r1
  r2 = r2
  c1 = c1
  c2 = c2
  Files = {i, i_1}
  Roots = {r1}
  OutputsOf <- MCInputOutputsOf
  Contents = {c1, c2}
  Inputs <- MCInputs
  Deps <- MCDeps
  CopyOf <- MCCopyOf
  InputTime = 1
  AttachmentSync = FALSE
  Virtual = TRUE
  VfsOutcomes = {TRUE, FALSE}
  Absent = Absent
  NoObject = NoObject
  NoFile = NoFile
  MaxActions = 2
  MaxSyncs = 2
  MaxTime = 3
  MayLinger = TRUE
  MayVanish = TRUE
  MayBackdate = TRUE
  MayFail = TRUE
INVARIANTS FallsBack ManifestBacked
CHECK_DEADLOCK FALSE
