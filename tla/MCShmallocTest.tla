----------------------------- MODULE MCShmallocTest -----------------------------
(***************************************************************************)
(* An argument list for shmalloc whose sizes wrap in int arithmetic.      *)
(***************************************************************************)
EXTENDS ShmallocTest

A(n, s) == [num |-> n, suf |-> s]

(* 80M longs on 8 PEs: target (640 MiB) and source (1280 MiB) fit an int, *)
(* but result, 8 * 8 * 80M bytes = 5 GiB, keeps only its low 32 bits.     *)
MCArgvsLarge == {<< A(80, "M"), A(1, "") >>}
=============================================================================
