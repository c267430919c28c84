CONSTANTS
  WGs = {w1, w2}
  Threads = {t1, t2}
  None = None
  MaxOps = 4
  IndicesSize = 2
  Kinds <- MCKindsLife
  SpinBuild = "reread"

SPECIFICATION LSpec
INVARIANT NoAbandon
PROPERTY InitReturns
PROPERTY ShutdownCompletes
PROPERTY ImplementsQuietSpec
