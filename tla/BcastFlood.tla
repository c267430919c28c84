------------------------------ MODULE BcastFlood ------------------------------
(***************************************************************************)
(* The bcast_flood client (src/clients/sos_tests/bcast_flood.cpp).  It     *)
(* reads -e elements, -l loops and -p pSync blocks with atoi_scaled, scales *)
(* ps_cnt by ROC_SHMEM_BCAST_SYNC_SIZE, allocates pSync, source and target, *)
(* then broadcasts loops times, rotating through the pSync blocks.  The    *)
(* counts are ints; atoi_scaled scales a long and casts it to int.         *)
(*                                                                         *)
(* An option is a record: its letter, and for e, l and p its argument: the *)
(* number strtol reads (0 if none) and the character after it ("" at the  *)
(* end of the string).  Timing and printing are left out.                  *)
(***************************************************************************)
EXTENDS CInt, Sequences

CONSTANTS
  Argvs,           \* the option lists getopt returns
  BcastSyncSize,   \* ROC_SHMEM_BCAST_SYNC_SIZE, defined outside this repository
  None             \* model value: the count was not given on the command line

ASSUME BcastSyncSize \in 1..2^14

SizeofLong == 8
DfltLoops  == 600
NElements  == 25600

VARIABLES
  pc,        \* "opts", "loop", "done", "usage", "error"
  opts,      \* the options getopt has still to return
  elements, loops, psCnt, serialize,
  elemArg,   \* the argument elements was read from, or None
  i, ps      \* the loop counter and the first pSync element of the next call

vars == <<pc, opts, elements, loops, psCnt, serialize, elemArg, i, ps>>

(* The multiplier of each suffix.                                          *)
ScaleShift(suf) == CASE suf \in {"k", "K"} -> 10
                     [] suf \in {"m", "M"} -> 20
                     [] suf \in {"g", "G"} -> 30
                     [] OTHER              -> 0

(* atoi_scaled: strtol, then the long is scaled by K, M or G (no overflow  *)
(* in a long) and cast to int, keeping its low 32 bits.  Any other trailing *)
(* character leaves the number as read.                                    *)
AtoiScaled(a) == Int32Scale(a.num, ScaleShift(a.suf))

(* The end of a loop iteration: ps += ROC_SHMEM_BCAST_SYNC_SIZE, back to 0 *)
(* once it reaches ps_cnt; with ps_cnt <= 1 ps stays 0.                    *)
NextPs(p) ==
  IF psCnt > 1
    THEN IF Int32Add(p, BcastSyncSize) >= psCnt THEN 0 ELSE Int32Add(p, BcastSyncSize)
    ELSE p

Init ==
  /\ opts \in Argvs
  /\ pc = "opts"
  /\ elements = NElements /\ loops = DfltLoops /\ psCnt = 2
  /\ serialize = FALSE
  /\ elemArg = None
  /\ i = 0 /\ ps = 0

(* One option of the getopt loop.  A count atoi_scaled gives as <= 0       *)
(* finalizes and returns 1, as does an unknown switch; -h returns 0.       *)
ReadOpt ==
  /\ pc = "opts"
  /\ opts # << >>
  /\ LET o == Head(opts)
         v == AtoiScaled(o.arg)
     IN /\ opts' = Tail(opts)
        /\ CASE o.opt = "e" -> /\ elements' = v /\ elemArg' = o.arg
                               /\ pc' = IF v <= 0 THEN "error" ELSE "opts"
                               /\ UNCHANGED <<loops, psCnt, serialize>>
             [] o.opt = "l" -> /\ loops' = v
                               /\ pc' = IF v <= 0 THEN "error" ELSE "opts"
                               /\ UNCHANGED <<elements, elemArg, psCnt, serialize>>
             [] o.opt = "p" -> /\ psCnt' = v
                               /\ pc' = IF v <= 0 THEN "error" ELSE "opts"
                               /\ UNCHANGED <<elements, elemArg, loops, serialize>>
             [] o.opt = "s" -> /\ serialize' = TRUE /\ pc' = "opts"
                               /\ UNCHANGED <<elements, elemArg, loops, psCnt>>
             [] o.opt = "v" -> /\ pc' = "opts"
                               /\ UNCHANGED <<elements, elemArg, loops, psCnt, serialize>>
             [] o.opt = "h" -> /\ pc' = "usage"
                               /\ UNCHANGED <<elements, elemArg, loops, psCnt, serialize>>
             [] OTHER       -> /\ pc' = "error"
                               /\ UNCHANGED <<elements, elemArg, loops, psCnt, serialize>>
  /\ UNCHANGED <<i, ps>>

(* ps_cnt *= ROC_SHMEM_BCAST_SYNC_SIZE in int, then the allocations.       *)
(* ps_cnt * sizeof(long) converts a negative ps_cnt to a size near 2^64,   *)
(* and roc_shmem_malloc of it, or of 0, returns NULL: global_exit.  The    *)
(* positive elements always fit a size_t product.                          *)
Allocate ==
  /\ pc = "opts"
  /\ opts = << >>
  /\ LET n == Int32Mul(psCnt, BcastSyncSize)
     IN /\ psCnt' = n
        /\ pc' = IF n <= 0 THEN "error" ELSE "loop"
  /\ i' = 0 /\ ps' = 0
  /\ UNCHANGED <<opts, elements, loops, serialize, elemArg>>

(* One broadcast with pSync at &pSync[ps], the optional barrier, and the   *)
(* rotation of ps.                                                         *)
Broadcast ==
  /\ pc = "loop"
  /\ i < loops
  /\ i' = i + 1
  /\ ps' = NextPs(ps)
  /\ UNCHANGED <<pc, opts, elements, loops, psCnt, serialize, elemArg>>

(* The loop ends: the final barrier, the frees and roc_shmem_finalize.     *)
Finish ==
  /\ pc = "loop"
  /\ i >= loops
  /\ pc' = "done"
  /\ UNCHANGED <<opts, elements, loops, psCnt, serialize, elemArg, i, ps>>

Next == ReadOpt \/ Allocate \/ Broadcast \/ Finish

Spec == Init /\ [][Next]_vars

-----------------------------------------------------------------------------
(* The elements the test broadcasts are the number -e writes, scaled by    *)
(* its K, M or G: the int cast of atoi_scaled must not turn a large count  *)
(* into a smaller positive one.                                            *)
ElementsAsWritten ==
  pc \in {"loop", "done"} /\ elemArg # None =>
    /\ elements % 2^ScaleShift(elemArg.suf) = 0
    /\ elements \div 2^ScaleShift(elemArg.suf) = elemArg.num
=============================================================================
