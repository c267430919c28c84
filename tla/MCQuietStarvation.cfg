CONSTANTS
  WGs = {w1}
  Threads = {t1, t2}
  None = None
  MaxOps = 3
  IndicesSize = 2
  Kinds <- MCKindsStarve

SPECIFICATION SSpec
PROPERTY QuietEventuallyReleased
