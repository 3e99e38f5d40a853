SPECIFICATION Spec
CONSTANTS
  m1 = m1
  m2 = m2
  m3 = m3
  Mounts = {m1, m2, m3}
  MaxSyncs = 3
  MaxFaults = 2
  NoFile = NoFile
  NoMount = NoMount
  Faults = {"given_up", "late", "dies", "left", "fails"}
SYMMETRY MountSymmetry
INVARIANTS TypeOK MountsTracked EnteredOnce CleanedUp ServesEverything
CHECK_DEADLOCK FALSE
