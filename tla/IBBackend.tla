------------------------------ MODULE IBBackend ------------------------------
(***************************************************************************)
(* The GPU IB backend of every PE over its whole life                      *)
(* (src/library/src/gpu_ib/backend_ib.cpp): the start-up and teardown of   *)
(* IBBackendInit, and between them the application's create_new_team and   *)
(* team_destroy calls on the slot pool of TeamPoolBytes.                   *)
(*                                                                         *)
(* The application calls the team routines on the thread that ran the     *)
(* constructor, so only once the constructor has returned ("up") and      *)
(* before the destructor starts.  pool_bitmask_ is written by teams_init   *)
(* before anything reads it; Pool!Init is the value teams_init leaves, and *)
(* no action reads it before the PE is up.                                 *)
(***************************************************************************)
EXTENDS Naturals

CONSTANTS PEs, BarrierSyncSize, MaxNumTeams, Groups, TeamIds, CharBit

VARIABLES
  pc, i, entered, mpiInit, barrierSync, poolsInit,   \* IBBackendInit
  poolBitmask, reducedBitmask, held, lastCreate      \* TeamPoolBytes

bootVars == <<pc, i, entered, mpiInit, barrierSync, poolsInit>>
poolVars == <<poolBitmask, reducedBitmask, held, lastCreate>>
vars == <<bootVars, poolVars>>

Boot == INSTANCE IBBackendInit
Pool == INSTANCE TeamPoolBytes

Init == Boot!Init /\ Pool!Init

(* A step of the constructor or the destructor on one PE.                  *)
BootStep == Boot!Next /\ UNCHANGED poolVars

(* create_new_team, called by every member of g once its roc_shmem_init    *)
(* has returned.                                                           *)
CreateTeam(g) ==
  /\ \A p \in g : pc[p] = "up"
  /\ Pool!CreateNewTeam(g)
  /\ UNCHANGED bootVars

(* team_destroy on a PE that is up.                                        *)
DestroyTeam(p, h, s) ==
  /\ pc[p] = "up"
  /\ Pool!TeamDestroy(p, h, s)
  /\ UNCHANGED bootVars

Next ==
  \/ BootStep
  \/ \E g \in Groups : CreateTeam(g)
  \/ \E p \in PEs, h \in TeamIds, s \in Pool!Slots : DestroyTeam(p, h, s)

Spec == Init /\ [][Next]_vars

-----------------------------------------------------------------------------
(* barrier_sync is written only inside its allocation.                     *)
BarrierSyncInBounds == Boot!BarrierSyncInBounds

(* No PE gets past a set-up barrier before every PE's sync arrays are      *)
(* initialized.                                                            *)
SyncReadyAfterBarrier == Boot!SyncReadyAfterBarrier

(* The byte arrays implement the set-level pool of TeamPool.               *)
ImplementsTeamPool == Pool!ImplementsTeamPool

(* A PE's pool bitmask says exactly which slots it has free.               *)
PoolMatchesTeams == Pool!PoolMatchesTeams

(* The members of a team agree on its slot, and no slot holds two teams.   *)
SlotAgreed == Pool!SlotAgreed

(* Every team a PE holds while it is up, TEAM_WORLD included, sits on a    *)
(* pool index whose barrier, reduce, broadcast and all-to-all pSync slices *)
(* teams_init set to SYNC_VALUE on every member that is up: the slot that  *)
(* get_ls_non_zero_bit picks from the allreduced bitmask lies inside the   *)
(* max_num_teams slices the pool loop of teams_init filled, on each PE.    *)
TeamSlotsInitialized ==
  \A p, q \in PEs : pc[p] = "up" /\ pc[q] = "up" =>
    \A x \in held[p] : x \in held[q] => x[2] \in poolsInit[q]
=============================================================================
