SPECIFICATION WorkstationSpec
CONSTANTS
  t1 = t1
  t2 = t2
  h1 = h1
  m1 = m1
  m2 = m2
  m3 = m3
  c1 = c1
  c2 = c2
  Files = {h1}
  Tasks = {t1, t2}
  FileOf <- MCFileOf
  Contents = {c1, c2}
  Times = {m1, m2, m3}
  Mixed = Mixed
  NoTime = NoTime
  NoEntry = NoEntry
  NoAnswer = NoAnswer
  Raised = Raised
  Enabled = TRUE

  r = r
  l = l
  lm = lm
  lf = lf
  lg = lg
  s = s
  sx = sx
  h = h
  d = d
  u = u
  hd = hd
  GPaths = {r, l, lm, lf, lg, s, sx, h, d, u, hd}
  Above <- MCAbove
  Real <- MCReal
  Length <- MCLength
  Local = {l, lm}
  Shared = {s}
  GDisks <- MCGDisks
  GRows = 2
  GRequests <- MCGRequests
  GCalls = 2
  GChanges = 2

  p1 = p1
  p2 = p2
  p3 = p3
  p4 = p4
  TFiles = {p1, p2, p3, p4}
  BatchOf <- MCBatchOf
  Batches = 2
  MaxChunk = 2
  TKinds = {"hash", "upload", "download", "snapshot"}
  Caller = Caller
  Nobody = Nobody

  f1 = f1
  f2 = f2
  b1 = b1
  b2 = b2
  bb = bb
  SFiles = {f1, f2}
  SContents = {b1, b2, bb}
  Size <- MCSize
  STimes = {2, 3, 5}
  SDisks <- MCSDisks
  Patterns = {{f1, f2}}
  SSeconds = 2
  SCalls = 2
  SEdits = 2
  Gone = Gone

  top = top
  x = x
  X = X
  y = y
  n1 = n1
  n2 = n2
  n3 = n3
  to1 = to1
  to2 = to2
  to3 = to3
  Parts = {top, x, X, y}
  Lower <- MCLower
  MPaths <- MCMPaths
  Sources <- MCSources
  Targets <- MCTargets
  Destinations = {to1, to2, to3}
  Unmapped = Unmapped
  MCalls = 2

  w1 = w1
  w2 = w2
  j1 = j1
  s1 = s1
  Runs = {w1, w2}
  DJobs = {j1}
  Stamps = {1}
  Indexes = {s1}
  Margins = {0, 120}
  DefaultMargin = 120
  Absent = Absent
INVARIANTS WorkstationTypeOK HitIsCurrent GroupedRight RootsApart NoIsFinal 
INVARIANTS  DiffTells LongestRuleWins StateSurvives
PROPERTY Implements
CHECK_DEADLOCK FALSE
