SPECIFICATION FairSpec
CONSTANTS
  s1 = s1
  s2 = s2
  f1 = f1
  f2 = f2
  f3 = f3
  k1 = k1
  k2 = k2
  d0 = d0
  d1 = d1
  d2 = d2
  Subs = {s1}
  Files = {f1, f2, f3}
  Keys = {k1, k2}
  HashOf <- MCHashOf
  ManifestOf <- MCOneManifestOf
  Large = {f3}
  Forced = {}
  Workers = 2
  SampleLimit = 1
  Dbs = {d0, d1}
  InitDb = d0
  NoDb = NoDb
  NoObject = NoObject
  MayVanish = TRUE
  MayChange = TRUE
  MaxTouched = 1
  MayLose = FALSE
  MayFail = TRUE
INVARIANTS CancelledNeverOk QuietAfterEnd
PROPERTY Terminates
CHECK_DEADLOCK FALSE
