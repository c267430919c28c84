----------------------------- MODULE IBBackendInit -----------------------------
(***************************************************************************)
(* Start-up and teardown of the GPU IB backend on every PE                 *)
(* (src/library/src/gpu_ib/backend_ib.cpp): the GPUIBBackend constructor,  *)
(* roc_shmem_collective_init, teams_init, thread_func_internal and the     *)
(* destructor.  Each PE runs the same sequence.  The MPI_Comm_dup,         *)
(* MPI_Barrier and MPI_Comm_free calls in it are blocking collectives over *)
(* the world: a PE leaves one only when every PE has entered it.  The      *)
(* steps that touch no state another PE or a later step reads (contexts,   *)
(* IPC and network set-up, the bitmask of TeamPoolBytes) are one step.     *)
(*                                                                         *)
(* barrierSync[p] is the set of indices of p's barrier_sync written with   *)
(* ROC_SHMEM_SYNC_VALUE; the array holds BarrierSyncSize longs.            *)
(***************************************************************************)
EXTENDS Naturals, FiniteSets, Sequences

CONSTANTS
  PEs,
  BarrierSyncSize,   \* ROC_SHMEM_BARRIER_SYNC_SIZE, defined outside this repository
  MaxNumTeams        \* team_tracker.get_max_num_teams()

NumPes == Cardinality(PEs)

(* The collectives of the sequence, each named after its call.            *)
Colls == {"dup_world", "dup_team_world", "coll_barrier", "teams_barrier",
          "dup_thread", "ctor_barrier", "free_world"}

(* The steps of one PE, in program order.                                  *)
Steps == << "init_mpi", "dup_world", "host_ctx", "dup_team_world",
            "coll_alloc", "coll_fill", "coll_barrier",
            "teams_alloc", "teams_fill", "teams_barrier",
            "dup_thread", "ctor_barrier", "thread_func", "up",
            "free_world", "finalized" >>

(* The position of a step in Steps.                                        *)
Pos(s) == CHOOSE k \in 1..Len(Steps) : Steps[k] = s

VARIABLES
  pc,           \* pc[p]: the step p is at
  i,            \* i[p]: the counter of the fill loop p is in
  entered,      \* entered[c]: the PEs inside or past collective c
  mpiInit,      \* mpiInit[p]: MPI is initialized in p's process
  barrierSync,  \* barrierSync[p]: indices of barrier_sync set to SYNC_VALUE
  poolsInit     \* poolsInit[p]: teams whose pSync pools hold SYNC_VALUE

vars == <<pc, i, entered, mpiInit, barrierSync, poolsInit>>

Init ==
  /\ pc = [p \in PEs |-> "init_mpi"]
  /\ i = [p \in PEs |-> 0]
  /\ entered = [c \in Colls |-> {}]
  /\ mpiInit = [p \in PEs |-> FALSE]
  /\ barrierSync = [p \in PEs |-> {}]
  /\ poolsInit = [p \in PEs |-> {}]

(* The step after p's current one.                                         *)
Advance(p) == pc' = [pc EXCEPT ![p] = Steps[Pos(pc[p]) + 1]]

(* init_mpi_once: under init_mutex, MPI_Init_thread unless                 *)
(* MPI_Initialized says it is done.                                        *)
InitMpiOnce(p) ==
  /\ pc[p] = "init_mpi"
  /\ mpiInit' = [mpiInit EXCEPT ![p] = TRUE]
  /\ Advance(p)
  /\ UNCHANGED <<i, entered, barrierSync, poolsInit>>

(* p calls the collective it is at.                                        *)
Enter(p) ==
  /\ pc[p] \in Colls
  /\ p \notin entered[pc[p]]
  /\ entered' = [entered EXCEPT ![pc[p]] = @ \cup {p}]
  /\ UNCHANGED <<pc, i, mpiInit, barrierSync, poolsInit>>

(* Faulty variant: the call returns before the other PEs have entered.    *)
LeaveNoWait(p, c) ==
  /\ pc[p] = c
  /\ p \in entered[c]
  /\ Advance(p)
  /\ UNCHANGED <<i, entered, mpiInit, barrierSync, poolsInit>>

(* The collective returns on p once every PE has entered it.              *)
Leave(p, c) ==
  /\ pc[p] = c
  /\ p \in entered[c]
  /\ entered[c] = PEs
  /\ Advance(p)
  /\ UNCHANGED <<i, entered, mpiInit, barrierSync, poolsInit>>

(* A step with no state this model tracks: setup_default_host_ctx, the     *)
(* team-world construction of setup_team_world after its dup, and          *)
(* thread_func_internal's IPC, network and default context set-up.         *)
LocalStep(p) ==
  /\ pc[p] \in {"host_ctx", "thread_func"}
  /\ Advance(p)
  /\ UNCHANGED <<i, entered, mpiInit, barrierSync, poolsInit>>

(* roc_shmem_collective_init: heap.malloc of BarrierSyncSize longs, then   *)
(* the loop over i < num_pes.                                              *)
CollAlloc(p) ==
  /\ pc[p] = "coll_alloc"
  /\ i' = [i EXCEPT ![p] = 0]
  /\ Advance(p)
  /\ UNCHANGED <<entered, mpiInit, barrierSync, poolsInit>>

(* Faulty variant: the loop runs while i <= num_pes.                      *)
CollFillInclusive(p) ==
  /\ pc[p] = "coll_fill"
  /\ IF i[p] <= NumPes
       THEN /\ barrierSync' = [barrierSync EXCEPT ![p] = @ \cup {i[p]}]
            /\ i' = [i EXCEPT ![p] = @ + 1]
            /\ UNCHANGED pc
       ELSE /\ Advance(p)
            /\ UNCHANGED <<i, barrierSync>>
  /\ UNCHANGED <<entered, mpiInit, poolsInit>>

(* barrier_sync[i] = ROC_SHMEM_SYNC_VALUE for i < num_pes.                 *)
CollFill(p) ==
  /\ pc[p] = "coll_fill"
  /\ IF i[p] < NumPes
       THEN /\ barrierSync' = [barrierSync EXCEPT ![p] = @ \cup {i[p]}]
            /\ i' = [i EXCEPT ![p] = @ + 1]
            /\ UNCHANGED pc
       ELSE /\ Advance(p)
            /\ UNCHANGED <<i, barrierSync>>
  /\ UNCHANGED <<entered, mpiInit, poolsInit>>

(* teams_init: roc_shmem_malloc of the pSync and work pools.               *)
TeamsAlloc(p) ==
  /\ pc[p] = "teams_alloc"
  /\ i' = [i EXCEPT ![p] = 0]
  /\ Advance(p)
  /\ UNCHANGED <<entered, mpiInit, barrierSync, poolsInit>>

(* Faulty variant: the pool loop stops one team short.                     *)
TeamsFillShort(p) ==
  /\ pc[p] = "teams_fill"
  /\ IF i[p] < MaxNumTeams - 1
       THEN /\ poolsInit' = [poolsInit EXCEPT ![p] = @ \cup {i[p]}]
            /\ i' = [i EXCEPT ![p] = @ + 1]
            /\ UNCHANGED pc
       ELSE /\ Advance(p)
            /\ UNCHANGED <<i, poolsInit>>
  /\ UNCHANGED <<entered, mpiInit, barrierSync>>

(* One team_i of the pool loop: its barrier, reduce, broadcast and         *)
(* all-to-all pSync slices set to SYNC_VALUE.  After the loop, the bitmask *)
(* initialization.                                                         *)
TeamsFill(p) ==
  /\ pc[p] = "teams_fill"
  /\ IF i[p] < MaxNumTeams
       THEN /\ poolsInit' = [poolsInit EXCEPT ![p] = @ \cup {i[p]}]
            /\ i' = [i EXCEPT ![p] = @ + 1]
            /\ UNCHANGED pc
       ELSE /\ Advance(p)
            /\ UNCHANGED <<i, poolsInit>>
  /\ UNCHANGED <<entered, mpiInit, barrierSync>>

(* ~GPUIBBackend: teams_destroy frees the pools (and the bitmasks), the    *)
(* team world is destroyed, then MPI_Comm_free of gpu_ib_comm_world.       *)
TeamsDestroy(p) ==
  /\ pc[p] = "up"
  /\ poolsInit' = [poolsInit EXCEPT ![p] = {}]
  /\ Advance(p)
  /\ UNCHANGED <<i, entered, mpiInit, barrierSync>>

Next ==
  \E p \in PEs :
    \/ InitMpiOnce(p)
    \/ Enter(p)
    \/ \E c \in Colls : Leave(p, c)
    \/ LocalStep(p)
    \/ CollAlloc(p)
    \/ CollFill(p)
    \/ TeamsAlloc(p)
    \/ TeamsFill(p)
    \/ TeamsDestroy(p)

Spec == Init /\ [][Next]_vars

-----------------------------------------------------------------------------
(* The fill loop of roc_shmem_collective_init writes only inside the       *)
(* ROC_SHMEM_BARRIER_SYNC_SIZE longs heap.malloc gave barrier_sync: the    *)
(* loop bound num_pes and the allocation size are different constants.     *)
BarrierSyncInBounds ==
  \A p \in PEs : barrierSync[p] \subseteq 0..BarrierSyncSize - 1

(* "Make sure that all processing elements have done this before           *)
(* continuing": once a PE is past the barrier of roc_shmem_collective_init *)
(* every PE's barrier_sync holds SYNC_VALUE in all num_pes entries, and    *)
(* once it is past the barrier of teams_init every PE's team pools do,     *)
(* until the PE itself tears down.                                         *)
SyncReadyAfterBarrier ==
  \A p \in PEs :
    /\ Pos(pc[p]) > Pos("coll_barrier") =>
         \A q \in PEs : 0..NumPes - 1 \subseteq barrierSync[q]
    /\ Pos(pc[p]) > Pos("teams_barrier") /\ Pos(pc[p]) <= Pos("up") =>
         \A q \in PEs : poolsInit[q] = 0..MaxNumTeams - 1 \/ Pos(pc[q]) > Pos("up")
=============================================================================
