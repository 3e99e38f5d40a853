SPECIFICATION FairSpec
CONSTANTS
  e1 = e1
  e2 = e2
  e3 = e3
  Absent = Absent
  User = User
  Empty = Empty
  Part = Part
  Entries = {e1, e2, e3}
  Paths <- MCPaths
  PathOf <- MCPathOf
  CopyPath <- MCCopyPath
  MaxCopies = 5
  UserPaths <- MCUserPaths
  Small = {e2}
  Legacy = {e1}
  Modes = {"SKIP", "OVERWRITE", "CREATE_COPY"}
  Workers = 2
  MaxCalls = 2
INVARIANTS CopiesApart Delivered SkippedUsable
CHECK_DEADLOCK FALSE
PROPERTIES UserFilesKept Terminates
