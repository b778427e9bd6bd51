\* One task of a changing file, two instances with one worker each.
CONSTANTS
  k1 = k1
  k2 = k2
  i1 = i1
  i2 = i2
  Worker = {k1, k2}
  Instance = {i1, i2}
  Home <- TwoHomes
  NoWorker = NoWorker
  Task = {t1}
  NoTask = NoTask
  File = {f1}
  Target = {x}
  NoTarget = NoTarget
  NoKey = NoKey
  Client = {c1}
  MaxVersion = 2
  MaxAttempts = 2
SPECIFICATION Spec
SYMMETRY QueueSymmetry
INVARIANTS TypeOK SuccessDelivered
PROPERTY LiveLeaseRespected
