CONSTANTS
  WGs = {w1, w2}
  Threads = {t1, t2}
  None = None
  MaxOps = 4
  IndicesSize = 2
  Kinds <- MCKindsLife
  SpinBuild = "hoisted"

SPECIFICATION LSpec
PROPERTY InitReturns
