-------------------------- MODULE MCQuietStarvation --------------------------
(***************************************************************************)
(* One workgroup of two threads: one quiets while the other keeps posting  *)
(* non-blocking puts; three ids are enough for two puts in flight beside   *)
(* the quiet.                                                              *)
(***************************************************************************)
EXTENDS QuietStarvation

MCKindsStarve == {"PUT_NBI", "QUIET"}
=============================================================================
