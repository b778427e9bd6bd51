\* Two instances that may stall beyond their lease, and what becomes of it.
SPECIFICATION FairSpec
CONSTANTS
  Scanner = {s1, s2}
  NoScanner = NoScanner
  Dest = {A, B}
  FirstDest = A
  Object = {p}
  NoObject = NoObject
  Asked = {}
  BatchSize = 1
  Prompt = FALSE
PROPERTY Heals
