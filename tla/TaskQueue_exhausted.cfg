\* The last attempt of the only task of an idle system ends without an answer.
CONSTANTS
  k1 = k1
  k2 = k2
  i1 = i1
  i2 = i2
  Worker = {k1}
  Instance = {i1}
  Home <- OneHome
  NoWorker = NoWorker
  Task = {t1}
  NoTask = NoTask
  File = {f1}
  Target = {x}
  NoTarget = NoTarget
  NoKey = NoKey
  Client = {c1}
  MaxVersion = 1
  MaxAttempts = 1
SPECIFICATION FairSpec
PROPERTY ExhaustedFinalized
