------------------------------ MODULE TeamPool ------------------------------
(***************************************************************************)
(* The team slot pool of GPUIBBackend (src/library/src/gpu_ib/             *)
(* backend_ib.cpp).  Every PE keeps pool_bitmask_, one bit per slot of the *)
(* shared pSync/pWrk pools, set while the slot is free locally; slot 0 is  *)
(* TEAM_WORLD's.  create_new_team is called by every member of the new     *)
(* team: they AND their bitmasks with MPI_Allreduce over team_comm, each   *)
(* takes the least significant set bit of the result and clears it in its *)
(* own bitmask.  team_destroy is local: it sets the bit again.             *)
(*                                                                         *)
(* A bitmask is the set of the slots whose bit is set.  The allreduce is   *)
(* one step for all members: each member blocks in it with its bitmask     *)
(* fixed, so the members' views coincide with an atomic exchange.          *)
(***************************************************************************)
EXTENDS Integers, FiniteSets

CONSTANTS
  PEs,          \* processing elements
  MaxNumTeams,  \* team_tracker.get_max_num_teams(): slots in the pool
  Groups,       \* member sets of the teams the program creates
  TeamIds       \* handles for team objects (reused once no PE holds one)

ASSUME MaxNumTeams \in Nat \ {0}
ASSUME Groups \subseteq (SUBSET PEs) \ {{}}

Slots == 0..MaxNumTeams - 1
World == 0      \* the handle of TEAM_WORLD, never destroyed

VARIABLES
  poolBitmask,     \* pool_bitmask_ of each PE
  reducedBitmask,  \* reduced_bitmask_ of each PE: the last allreduce result
  held,            \* the teams each PE holds: <<handle, pool_index_>> pairs
  lastCreate       \* the group and status of the last create_new_team

vars == <<poolBitmask, reducedBitmask, held, lastCreate>>

Status == {"SUCCESS", "TOO_MANY_TEAMS", "NONE"}

TypeOK ==
  /\ poolBitmask \in [PEs -> SUBSET (Slots \ {0})]
  /\ reducedBitmask \in [PEs -> SUBSET Slots]
  /\ held \in [PEs -> SUBSET ((TeamIds \cup {World}) \X Slots)]
  /\ lastCreate \in [group : Groups \cup {{}}, status : Status]

(* get_ls_non_zero_bit: scan bits from 0 up to mask_length - 1 and return *)
(* the first set one, or -1.                                               *)
RECURSIVE LsNonZeroBitFrom(_, _, _)
LsNonZeroBitFrom(mask, bit, length) ==
  IF bit >= length THEN -1
  ELSE IF bit \in mask THEN bit
  ELSE LsNonZeroBitFrom(mask, bit + 1, length)

(* Faulty variant: the scan stops one bit short of mask_length.           *)
GetLsNonZeroBitShort(mask, length) == LsNonZeroBitFrom(mask, 0, length - 1)

GetLsNonZeroBit(mask, length) == LsNonZeroBitFrom(mask, 0, length)

(* teams_init: every bit set but bit 0; setup_team_world: TEAM_WORLD over *)
(* all PEs at pool index 0.                                                *)
Init ==
  /\ poolBitmask = [p \in PEs |-> Slots \ {0}]
  /\ reducedBitmask = [p \in PEs |-> {}]
  /\ held = [p \in PEs |-> {<<World, 0>>}]
  /\ lastCreate = [group |-> {}, status |-> "NONE"]

InUse == {h \in TeamIds : \E p \in PEs : \E s \in Slots : <<h, s>> \in held[p]}

(* Faulty variant: each member keeps its own bitmask, as if the reduction *)
(* had been skipped.                                                       *)
AllreduceLocalOnly(g) ==
  reducedBitmask' = [p \in PEs |->
                       IF p \in g THEN poolBitmask[p] ELSE reducedBitmask[p]]

(* MPI_Allreduce(pool_bitmask_, reduced_bitmask_, MPI_BAND) over the       *)
(* members: every member receives the AND of all members' bitmasks.        *)
Allreduce(g) ==
  reducedBitmask' = [p \in PEs |->
                       IF p \in g THEN {s \in Slots : \A m \in g : s \in poolBitmask[m]}
                       ELSE reducedBitmask[p]]

(* What one member does with its reduced bitmask after the allreduce.      *)
PickSlot(p) == GetLsNonZeroBit(reducedBitmask'[p], MaxNumTeams)

(* Faulty variant: create_new_team without the common_index < 0 check.  *)
CreateNewTeamUnchecked(g) ==
  /\ Allreduce(g)
  /\ \E h \in TeamIds \ InUse :
       /\ poolBitmask' = [p \in PEs |->
                            IF p \in g THEN poolBitmask[p] \ {PickSlot(p)}
                            ELSE poolBitmask[p]]
       /\ held' = [p \in PEs |->
                     IF p \in g THEN held[p] \cup {<<h, PickSlot(p)>>}
                     ELSE held[p]]
       /\ lastCreate' = [group |-> g, status |-> "SUCCESS"]

(* create_new_team on every member of g: allreduce, pick the common index; *)
(* none free returns ROC_SHMEM_TOO_MANY_TEAMS_ERROR; otherwise clear the   *)
(* bit in pool_bitmask_ and construct the team at that pool index.         *)
CreateNewTeam(g) ==
  /\ Allreduce(g)
  /\ IF \E p \in g : PickSlot(p) < 0
       THEN /\ lastCreate' = [group |-> g, status |-> "TOO_MANY_TEAMS"]
            /\ UNCHANGED <<poolBitmask, held>>
       ELSE \E h \in TeamIds \ InUse :
            /\ poolBitmask' = [p \in PEs |->
                                 IF p \in g THEN poolBitmask[p] \ {PickSlot(p)}
                                 ELSE poolBitmask[p]]
            /\ held' = [p \in PEs |->
                          IF p \in g THEN held[p] \cup {<<h, PickSlot(p)>>}
                          ELSE held[p]]
            /\ lastCreate' = [group |-> g, status |-> "SUCCESS"]

(* Faulty variant: team_destroy that never sets the bit again.            *)
TeamDestroyNoRelease(p, h, slot) ==
  /\ <<h, slot>> \in held[p]
  /\ held' = [held EXCEPT ![p] = @ \ {<<h, slot>>}]
  /\ UNCHANGED <<poolBitmask, reducedBitmask, lastCreate>>

(* team_destroy on one PE: set the team's bit in its pool_bitmask_ again.  *)
TeamDestroy(p, h, slot) ==
  /\ <<h, slot>> \in held[p]
  /\ poolBitmask' = [poolBitmask EXCEPT ![p] = @ \cup {slot}]
  /\ held' = [held EXCEPT ![p] = @ \ {<<h, slot>>}]
  /\ UNCHANGED <<reducedBitmask, lastCreate>>

Next ==
  \/ \E g \in Groups : CreateNewTeam(g)
  \/ \E p \in PEs, h \in TeamIds, s \in Slots : TeamDestroy(p, h, s)

Spec == Init /\ [][Next]_vars

-----------------------------------------------------------------------------
(* Each PE's bitmask says exactly which slots it has free: a slot's bit is *)
(* set iff no team the PE holds sits on it, and slot 0 is never free.      *)
PoolMatchesTeams ==
  \A p \in PEs :
    poolBitmask[p] = Slots \ ({0} \cup {x[2] : x \in held[p]})

(* The members of a team all bind it to the same pool index, and no PE     *)
(* holds two teams on one index, so the pSync arrays of that index belong  *)
(* to one team wherever they are used.                                     *)
SlotAgreed ==
  /\ \A p, r \in PEs : \A x \in held[p], y \in held[r] :
       x[1] = y[1] => x[2] = y[2]
  /\ \A p \in PEs : \A x, y \in held[p] : x[2] = y[2] => x = y
=============================================================================
