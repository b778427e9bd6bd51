\* Two tasks with two destinations and two attempts each, one worker.
CONSTANTS
  k1 = k1
  k2 = k2
  i1 = i1
  i2 = i2
  Worker = {k1}
  Instance = {i1}
  Home <- OneHome
  NoWorker = NoWorker
  Task = {t1, t2}
  NoTask = NoTask
  File = {f1}
  Target = {x, y}
  NoTarget = NoTarget
  NoKey = NoKey
  Client = {c1}
  MaxVersion = 1
  MaxAttempts = 2
SPECIFICATION FairSpec
INVARIANTS RowsConsistent MarkDelivered
PROPERTIES CancelSticks MarkWithSuccess ImplementsLifecycle ClaimableServed
