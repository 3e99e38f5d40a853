SPECIFICATION Spec
CONSTANTS
  m1 = m1
  m2 = m2
  m3 = m3
  Mounts = {m1, m2, m3}
  MaxSyncs = 2
  MaxFaults = 0
  NoFile = NoFile
  NoMount = NoMount
  Faults = {}
SYMMETRY MountSymmetry
INVARIANT EntriesApart
CHECK_DEADLOCK FALSE
