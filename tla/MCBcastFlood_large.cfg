CONSTANTS
  None = None
  BcastSyncSize = 4
  Argvs <- MCArgvsLarge

SPECIFICATION Spec
INVARIANT ElementsAsWritten
\* The program ends: it returns 0 or 1, or calls roc_shmem_global_exit.
CHECK_DEADLOCK FALSE
