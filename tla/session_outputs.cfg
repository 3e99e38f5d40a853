SPECIFICATION Spec
CONSTANTS
  i = i
  i_1 = i_1
  o1 = o1
  o2 = o2
  r1 = r1
  r2 = r2
  c1 = c1
  c2 = c2
  Files = {i, i_1, o1, o2}
  Roots = {r1, r2}
  OutputsOf <- MCOutputsOf
  Contents = {c1, c2}
  Inputs <- MCInputs
  Deps <- MCDeps
  CopyOf <- MCCopyOf
  InputTime = 1
  AttachmentSync = TRUE
  Virtual = FALSE
  VfsOutcomes = {TRUE, FALSE}
  Absent = Absent
  NoObject = NoObject
  NoFile = NoFile
  MaxActions = 2
  MaxSyncs = 2
  MaxTime = 4
  MayLinger = TRUE
  MayVanish = FALSE
  MayBackdate = FALSE
  MayFail = FALSE
INVARIANTS  OutputsAreWritten InputsInPlace
CHECK_DEADLOCK FALSE
