CONSTANTS
  Unmapped = Unmapped
  Invalid = Invalid
  Packets <- MCPacketsAll

SPECIFICATION Spec
INVARIANT UnmappedIsFatal
\* exit(-1) ends the process: a state after it has no successor.
CHECK_DEADLOCK FALSE
