\* Two overlapping CreateTask calls for one file with two destinations.
CONSTANTS
  k1 = k1
  k2 = k2
  i1 = i1
  i2 = i2
  Worker = {k1}
  Instance = {i1}
  Home <- OneHome
  NoWorker = NoWorker
  Task = {t1}
  NoTask = NoTask
  File = {f1}
  Target = {x, y}
  NoTarget = NoTarget
  NoKey = NoKey
  Client = {c1, c2}
  MaxVersion = 1
  MaxAttempts = 1
SPECIFICATION Spec
INVARIANT MarkDelivered
