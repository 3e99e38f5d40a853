SPECIFICATION Spec
CONSTANTS
  s1 = s1
  s2 = s2
  f1 = f1
  f2 = f2
  f3 = f3
  k1 = k1
  k2 = k2
  d0 = d0
  d1 = d1
  d2 = d2
  Subs = {s1, s2}
  Files = {f1, f2, f3}
  Keys = {k1, k2}
  HashOf <- MCHashOf
  ManifestOf <- MCManifestOf
  Large = {f3}
  Forced = {}
  Workers = 2
  SampleLimit = 1
  Dbs = {d0, d1, d2}
  InitDb = d0
  NoDb = NoDb
  NoObject = NoObject
  MayVanish = FALSE
  MayChange = FALSE
  MaxTouched = 1
  MayLose = TRUE
  MayFail = FALSE
SYMMETRY DbSymmetry
INVARIANTS CacheOnlySeen FinishedComplete
CHECK_DEADLOCK FALSE
