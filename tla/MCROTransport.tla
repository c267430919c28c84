---------------------------- MODULE MCROTransport ----------------------------
(***************************************************************************)
(* Model-checking instance of ROTransport: two workgroups of two threads,  *)
(* a handful of packets, and a Testsome window smaller than the number of  *)
(* requests that can be tracked at once, so completions beyond the window  *)
(* and several completions in one batch both occur.                        *)
(***************************************************************************)
EXTENDS ROTransport

(* Every class of packet submitRequestsToMPI dispatches, one of each.      *)
MCKindsAll == {"PUT", "P", "PUT_NBI", "GET", "GET_NBI", "AMO_FOP",
               "TO_ALL", "BARRIER_ALL", "QUIET"}

MCSymmetry == Permutations(WGs) \cup Permutations(Threads)
=============================================================================
