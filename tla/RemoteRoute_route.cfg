\* Two instances, two paths, two destinations; heartbeats are in time.
SPECIFICATION Spec
CONSTANTS
  Scanner = {s1, s2}
  NoScanner = NoScanner
  Dest = {A, B}
  FirstDest = A
  Object = {p, q}
  NoObject = NoObject
  Asked = {p, q}
  BatchSize = 1
  Prompt = TRUE
SYMMETRY RouteSymmetry
INVARIANTS ReadyExact ScanOwnsRoute NoOrphans
PROPERTIES RowsLostOnlyBySweep RefreshKept
