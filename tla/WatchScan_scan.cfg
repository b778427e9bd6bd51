SPECIFICATION Spec
CONSTANTS
  Scanner = {s1, s2}
  NoScanner = NoScanner
  File = {f1}
  Target = {A}
  FirstTarget = A
  NoTarget = NoTarget
  MaxVersion = 2
  TaskEvents = {"fail", "cancel", "retry", "remove"}
  Prompt = TRUE
SYMMETRY ScannerSymmetry
INVARIANTS LeaseConsistent MarkDelivered SnapshotFirst MissingOnlyIfGone
PROPERTIES SnapshotAdvances HaltSticks
