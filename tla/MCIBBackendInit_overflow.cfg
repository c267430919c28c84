CONSTANTS
  PEs = {p1, p2, p3}
  BarrierSyncSize = 2
  MaxNumTeams = 2

SPECIFICATION Spec
INVARIANT BarrierSyncInBounds
\* Every PE ends at "finalized" once ~GPUIBBackend has freed its world comm.
CHECK_DEADLOCK FALSE
