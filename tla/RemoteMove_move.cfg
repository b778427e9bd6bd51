\* One process, two operations on three paths that hold two files.
CONSTANTS
  Instance = {i1}
  NoInstance = NoInstance
  Operation = {o1, o2}
  NoOperation = NoOperation
  Folder = {a, b, c}
  NoFolder = NoFolder
  Name = {n1}
  File = {f1, f2}
  NoFile = NoFile
  MaxSources = 2
SPECIFICATION FairSpec
INVARIANTS RouteHeld NoFileLost Accounted
PROPERTIES ReportsAdvance OperationsEnd
