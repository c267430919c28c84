CONSTANTS
  p1 = p1
  p2 = p2
  p3 = p3
  PEs = {p1, p2, p3}
  BarrierSyncSize = 3
  MaxNumTeams = 3
  CharBit = 2
  TeamIds = {1, 2}
  Groups <- MCGroups

SPECIFICATION Spec
INVARIANT BarrierSyncInBounds
INVARIANT SyncReadyAfterBarrier
INVARIANT PoolMatchesTeams
INVARIANT SlotAgreed
INVARIANT TeamSlotsInitialized
PROPERTY ImplementsTeamPool
\* Every PE ends at "finalized" and the system stops there.
CHECK_DEADLOCK FALSE
