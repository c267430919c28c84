CONSTANTS
  PEs = {"p1", "p2", "p3"}
  WGs = {"a", "b"}
  Shapes = {"Pair", "World"}
  Members <- MCMembers
  Prog <- MCProg
  InitCache <- MCCacheCold

SPECIFICATION Spec
PROPERTY CollectivesComplete
\* The kernels end and the system stops; a stop before that violates
\* CollectivesComplete.
CHECK_DEADLOCK FALSE
