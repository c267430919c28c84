----------------------------- MODULE TeamPoolBytes -----------------------------
(***************************************************************************)
(* The team slot pool of GPUIBBackend at the level of its bytes           *)
(* (src/library/src/gpu_ib/backend_ib.cpp).  pool_bitmask_ and             *)
(* reduced_bitmask_ are char arrays of bitmask_size_ bytes.  Slot k is bit *)
(* k % CHAR_BIT of byte k / CHAR_BIT.  The allreduce is MPI_BAND over      *)
(* MPI_CHAR, byte by byte.  CharBit stands for CHAR_BIT: a width smaller   *)
(* than 8 makes a small pool span several bytes, so the byte and bit       *)
(* arithmetic is exercised at every boundary.                              *)
(*                                                                         *)
(* This module refines TeamPool, whose bitmasks are sets of slots.         *)
(***************************************************************************)
EXTENDS Integers, Bitwise, FiniteSetsExt

CONSTANTS PEs, MaxNumTeams, Groups, TeamIds, CharBit

ASSUME CharBit \in Nat \ {0}

Slots == 0..MaxNumTeams - 1
World == 0

VARIABLES poolBitmask, reducedBitmask, held, lastCreate

vars == <<poolBitmask, reducedBitmask, held, lastCreate>>

ByteMax == 2^CharBit - 1    \* a char with every bit set

(* Faulty variant: bitmask_size_ without rounding up.                     *)
BitmaskSizeFloor == MaxNumTeams \div CharBit

(* teams_init: bitmask_size_, the bytes that hold max_num_teams bits.      *)
BitmaskSize ==
  IF MaxNumTeams % CharBit # 0 THEN MaxNumTeams \div CharBit + 1
  ELSE MaxNumTeams \div CharBit

Bytes == 0..BitmaskSize - 1

(* 1 << (bit % CHAR_BIT) in byte bit / CHAR_BIT.  A byte index past the   *)
(* array is a write outside the malloc'ed block: it is lost here.         *)
SetBit(mask, bit) ==
  [i \in DOMAIN mask |->
     IF i = bit \div CharBit THEN mask[i] | 2^(bit % CharBit) ELSE mask[i]]

(* mask[byte] &= ~(1 << (bit % CHAR_BIT)).                                 *)
ClearBit(mask, bit) ==
  [i \in DOMAIN mask |->
     IF i = bit \div CharBit THEN mask[i] & (ByteMax - 2^(bit % CharBit))
     ELSE mask[i]]

(* bitmask[byte_i] & (1 << (bit_i % CHAR_BIT)), as get_ls_non_zero_bit     *)
(* tests it.                                                               *)
IsSet(mask, bit) ==
  /\ bit \div CharBit \in DOMAIN mask
  /\ (mask[bit \div CharBit] & 2^(bit % CharBit)) # 0

(* get_ls_non_zero_bit: scan bit_i from 0 while bit_i < mask_length.       *)
RECURSIVE LsBitFrom(_, _, _)
LsBitFrom(mask, bit, length) ==
  IF bit >= length THEN -1
  ELSE IF IsSet(mask, bit) THEN bit
  ELSE LsBitFrom(mask, bit + 1, length)

(* The loop of teams_init that sets bits 1 .. max_num_teams - 1.           *)
RECURSIVE SetBitsFrom(_, _)
SetBitsFrom(mask, bit) ==
  IF bit >= MaxNumTeams THEN mask ELSE SetBitsFrom(SetBit(mask, bit), bit + 1)

(* teams_init: malloc and memset both masks to zero, then set every slot   *)
(* but TEAM_WORLD's; setup_team_world puts TEAM_WORLD at index 0.          *)
Init ==
  /\ poolBitmask = [p \in PEs |-> SetBitsFrom([i \in Bytes |-> 0], 1)]
  /\ reducedBitmask = [p \in PEs |-> [i \in Bytes |-> 0]]
  /\ held = [p \in PEs |-> {<<World, 0>>}]
  /\ lastCreate = [group |-> {}, status |-> "NONE"]

InUse == {h \in TeamIds : \E p \in PEs : \E s \in Slots : <<h, s>> \in held[p]}

(* Faulty variant: each member keeps its own bytes, as if the reduction    *)
(* had been skipped.                                                       *)
AllreduceLocalOnly(g) ==
  reducedBitmask' = [p \in PEs |-> IF p \in g THEN poolBitmask[p] ELSE reducedBitmask[p]]

(* MPI_Allreduce(pool_bitmask_, reduced_bitmask_, bitmask_size_, MPI_CHAR, *)
(* MPI_BAND, team_comm): each byte is the AND of the members' bytes.       *)
Allreduce(g) ==
  reducedBitmask' =
    [p \in PEs |->
       IF p \in g
         THEN [i \in Bytes |->
                 FoldSet(LAMBDA m, acc : acc & poolBitmask[m][i], ByteMax, g)]
         ELSE reducedBitmask[p]]

PickSlot(p) == LsBitFrom(reducedBitmask'[p], 0, MaxNumTeams)

(* create_new_team on every member of g.                                   *)
CreateNewTeam(g) ==
  /\ Allreduce(g)
  /\ IF \E p \in g : PickSlot(p) < 0
       THEN /\ lastCreate' = [group |-> g, status |-> "TOO_MANY_TEAMS"]
            /\ UNCHANGED <<poolBitmask, held>>
       ELSE \E h \in TeamIds \ InUse :
            /\ poolBitmask' = [p \in PEs |->
                                 IF p \in g THEN ClearBit(poolBitmask[p], PickSlot(p))
                                 ELSE poolBitmask[p]]
            /\ held' = [p \in PEs |->
                          IF p \in g THEN held[p] \cup {<<h, PickSlot(p)>>}
                          ELSE held[p]]
            /\ lastCreate' = [group |-> g, status |-> "SUCCESS"]

(* Faulty variant: team_destroy that never sets the bit again.            *)
TeamDestroyNoRelease(p, h, slot) ==
  /\ <<h, slot>> \in held[p]
  /\ held' = [held EXCEPT ![p] = @ \ {<<h, slot>>}]
  /\ UNCHANGED <<poolBitmask, reducedBitmask, lastCreate>>

(* team_destroy: pool_bitmask_[byte_i] |= 1 << (bit % CHAR_BIT).           *)
TeamDestroy(p, h, slot) ==
  /\ <<h, slot>> \in held[p]
  /\ poolBitmask' = [poolBitmask EXCEPT ![p] = SetBit(@, slot)]
  /\ held' = [held EXCEPT ![p] = @ \ {<<h, slot>>}]
  /\ UNCHANGED <<reducedBitmask, lastCreate>>

Next ==
  \/ \E g \in Groups : CreateNewTeam(g)
  \/ \E p \in PEs, h \in TeamIds, s \in Slots : TeamDestroy(p, h, s)

Spec == Init /\ [][Next]_vars

-----------------------------------------------------------------------------
(* The slots whose bit is set in a byte array.                             *)
AsSet(mask) == {s \in Slots : IsSet(mask, s)}

TP == INSTANCE TeamPool WITH
        poolBitmask    <- [p \in PEs |-> AsSet(poolBitmask[p])],
        reducedBitmask <- [p \in PEs |-> AsSet(reducedBitmask[p])]

(* The byte arrays, read bit by bit, behave as the set-level pool of       *)
(* TeamPool: every create and destroy on the bytes is the same step on the *)
(* sets.  This is where the CHAR_BIT arithmetic of teams_init,             *)
(* get_ls_non_zero_bit, create_new_team and team_destroy must agree.       *)
ImplementsTeamPool == TP!Spec

(* Read bit by bit, each PE's pool_bitmask_ has a slot's bit set exactly   *)
(* when the PE holds no team on it, and slot 0 stays TEAM_WORLD's: the     *)
(* clear in create_new_team and the set in team_destroy hit the byte and   *)
(* bit of the slot they mean.                                              *)
PoolMatchesTeams == TP!PoolMatchesTeams

(* The members of a team bind it to the same pool index, and no PE holds  *)
(* two teams on one index: every member's get_ls_non_zero_bit scans the   *)
(* same allreduced bytes.                                                  *)
SlotAgreed == TP!SlotAgreed
=============================================================================
