---------------------------- MODULE MCROLifecycle ----------------------------
EXTENDS ROLifecycle

(* An inline put, a non-blocking put, a quiet and the closing FINALIZE.    *)
MCKindsLife == {"P", "PUT_NBI", "QUIET", "FINALIZE"}
=============================================================================
