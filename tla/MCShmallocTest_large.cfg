CONSTANTS
  NoNum = NoNum
  NProcs = {8}
  Argvs <- MCArgvsLarge

SPECIFICATION Spec
INVARIANT AllocSizeExact
\* The program ends: it returns, or exits through usage() or a failed
\* allocation.
CHECK_DEADLOCK FALSE
