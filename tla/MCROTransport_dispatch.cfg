CONSTANTS
  WGs = {w1, w2}
  Threads = {t1, t2}
  None = None
  MaxOps = 3
  IndicesSize = 2
  Kinds <- MCKindsAll

SPECIFICATION Spec
SYMMETRY MCSymmetry
INVARIANT TypeOK
INVARIANT TrackingConsistent
INVARIANT SignalSound
