------------------------------ MODULE ShmallocTest ------------------------------
(***************************************************************************)
(* The shmalloc client (src/clients/sos_tests/shmalloc.cpp).  It reads     *)
(* nWords, loops and incWords with getSize, then loops: each pass          *)
(* allocates result (nProcs * nWords longs), target (nWords) and source    *)
(* (2 * nWords), fills and checks them, frees them, and grows nWords.  The *)
(* sizes are ints.  getSize shifts an int by 20 or 10, and result_sz is a  *)
(* size_t product stored into an int.                                      *)
(*                                                                         *)
(* An argument is a record: the number sscanf's %d reads (NoNum if none)   *)
(* and the character after it.  The fill and check loops see the same     *)
(* sizes as the allocation, so they are left out.                          *)
(***************************************************************************)
EXTENDS CInt, Sequences

CONSTANTS
  Argvs,    \* the argument lists after the options
  NProcs,   \* the values roc_shmem_n_pes() may return
  NoNum     \* model value: sscanf matched no number

SizeofLong == 8

VARIABLES
  pc,        \* "nWords", "loops", "incWords", "alloc", "done", "usage", "failed"
  argv,      \* the positional arguments still to read
  nProcs, power2,
  nWords, loops, incWords,
  l,         \* the loop counter
  resultSz,  \* result_sz of the last pass, or 0 before the first
  passWords  \* the nWords that pass allocated for

vars == <<pc, argv, nProcs, power2, nWords, loops, incWords, l,
          resultSz, passWords>>

(* getSize: sscanf(str, "%d%1[mMkK]", &size, mod).  One match returns the  *)
(* number; a k or m suffix shifts it left (an int shift, so it wraps); no  *)
(* number returns -1.                                                      *)
GetSize(a) ==
  CASE a.num = NoNum         -> -1
    [] a.suf \in {"m", "M"} -> Int32Scale(a.num, 20)
    [] a.suf \in {"k", "K"} -> Int32Scale(a.num, 10)
    [] OTHER                 -> a.num

(* result_sz = nProcs * (nWords * sizeof(DataType)): computed in size_t    *)
(* and stored into an int, so only the low 32 bits are kept.               *)
ResultSize(n, w) == Int32Mul(w, n * SizeofLong)

(* main up to the first getSize: the options -p and -v, roc_shmem_init.   *)
Init ==
  /\ argv \in Argvs
  /\ nProcs \in NProcs
  /\ power2 \in BOOLEAN
  /\ pc = "nWords"
  /\ nWords = 0 /\ loops = 0 /\ incWords = 0
  /\ l = 0
  /\ resultSz = 0
  /\ passWords = 0

(* One positional argument: its default when absent, usage() and exit(1)   *)
(* when getSize gives a value below the least one the test accepts.        *)
ReadArg(least, next) ==
  IF argv = << >>
    THEN pc' = next /\ UNCHANGED argv
    ELSE /\ argv' = Tail(argv)
         /\ pc' = IF GetSize(Head(argv)) < least THEN "usage" ELSE next

ArgValue(dflt) == IF argv = << >> THEN dflt ELSE GetSize(Head(argv))

(* nWords: default 32; getSize(...) <= 0 is refused.                       *)
ReadNWords ==
  /\ pc = "nWords"
  /\ ReadArg(1, "loops")
  /\ nWords' = ArgValue(32)
  /\ UNCHANGED <<nProcs, power2, loops, incWords, l, resultSz, passWords>>

(* loops: default 50; a negative value is refused.                         *)
ReadLoops ==
  /\ pc = "loops"
  /\ ReadArg(0, "incWords")
  /\ loops' = ArgValue(50)
  /\ UNCHANGED <<nProcs, power2, nWords, incWords, l, resultSz,
                 passWords>>

(* incWords: default 1025; a negative value is refused.  Then -p replaces  *)
(* nWords and loops by 1 and 21.                                           *)
ReadIncWords ==
  /\ pc = "incWords"
  /\ ReadArg(0, "alloc")
  /\ incWords' = ArgValue(1025)
  /\ IF power2 THEN nWords' = 1 /\ loops' = 21 ELSE UNCHANGED <<nWords, loops>>
  /\ UNCHANGED <<nProcs, power2, l, resultSz, passWords>>

(* One pass of the loop.  roc_shmem_malloc of a negative int asks for a    *)
(* size_t near 2^64, and of 0 for nothing; either returns NULL and the     *)
(* test exits.  result, target and source are allocated in turn; the three *)
(* allocations are freed at the end of the pass.  When loops > 1, nWords   *)
(* is doubled under -p, or grows by incWords otherwise; both are int       *)
(* arithmetic.                                                             *)
Pass ==
  /\ pc = "alloc"
  /\ l < loops
  /\ resultSz' = ResultSize(nProcs, nWords)
  /\ passWords' = nWords
  /\ IF \/ ResultSize(nProcs, nWords) <= 0
        \/ Int32Mul(nWords, SizeofLong) <= 0
        \/ Int32Mul(nWords, 2 * SizeofLong) <= 0
       THEN /\ pc' = "failed"
            /\ UNCHANGED <<nWords, l>>
       ELSE /\ l' = l + 1
            /\ nWords' = IF loops <= 1 THEN nWords
                         ELSE IF power2 THEN Int32Mul(nWords, 2)
                         ELSE Int32Add(nWords, incWords)
            /\ UNCHANGED pc
  /\ UNCHANGED <<argv, nProcs, power2, loops, incWords>>

(* The loop ends and the test finalizes.                                   *)
Finish ==
  /\ pc = "alloc"
  /\ l >= loops
  /\ pc' = "done"
  /\ UNCHANGED <<argv, nProcs, power2, nWords, loops, incWords, l,
                 resultSz, passWords>>

Next == ReadNWords \/ ReadLoops \/ ReadIncWords \/ Pass \/ Finish

Spec == Init /\ [][Next]_vars

-----------------------------------------------------------------------------
(* Each pass asks roc_shmem_malloc for exactly nProcs * nWords longs of    *)
(* result: the int result_sz holds the full product, not its low 32 bits,  *)
(* so a large nWords is neither refused as a negative size nor allocated   *)
(* short.                                                                  *)
AllocSizeExact ==
  resultSz # 0 =>
    /\ resultSz % (nProcs * SizeofLong) = 0
    /\ resultSz \div (nProcs * SizeofLong) = passWords
=============================================================================
