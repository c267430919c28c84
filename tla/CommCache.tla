------------------------------ MODULE CommCache ------------------------------
(***************************************************************************)
(* MPITransport::createComm (transport.cpp): the communicator cache keyed  *)
(* by the (start, logPstride, size) shape of an OpenSHMEM active set, the  *)
(* world special case that duplicates ro_net_comm_world, and the explicit  *)
(* rank list built for any other shape.  A communicator is its handle and  *)
(* its member ranks; MPI_Group_incl rejecting a rank outside the world is  *)
(* a NET_CHECK failure, which exits the process.                           *)
(***************************************************************************)
EXTENDS Integers, Sequences, Bitwise, FiniteSets

CONSTANTS
  WorldSize,    \* size of ro_net_comm_world
  Shapes        \* the (start, logPstride, size) triples collectives use

ASSUME WorldSize \in Nat \ {0}
ASSUME Shapes \subseteq (0..WorldSize - 1) \X Nat \X (1..WorldSize)

VARIABLES
  commMap,      \* comm_map: shape -> [handle, members]
  nextHandle,   \* the next communicator handle MPI gives out
  lastShape,    \* the shape the last createComm call asked for
  result,       \* the handle the last createComm call returned
  exited        \* a NET_CHECK failed and the process called exit(-1)

vars == <<commMap, nextHandle, lastShape, result, exited>>

Comm == [handle : Nat, members : SUBSET (0..WorldSize - 1)]

TypeOK ==
  /\ DOMAIN commMap \subseteq Shapes
  /\ \A k \in DOMAIN commMap : commMap[k] \in Comm
  /\ nextHandle \in Nat
  /\ lastShape \in Shapes \cup {<<0, 0, 0>>}
  /\ result \in Nat
  /\ exited \in BOOLEAN

(* The rank list of createComm: group_ranks[0] = start and each next rank *)
(* adds stride, where the code computes stride as 2^(logPstride), which   *)
(* in C++ is 2 XOR logPstride.                                             *)
RECURSIVE GroupRanks(_, _, _)
GroupRanks(start, logPstride, size) ==
  IF size = 1 THEN << start >>
  ELSE LET prev == GroupRanks(start, logPstride, size - 1)
       IN Append(prev, prev[size - 1] + (2 ^^ logPstride))

(* The active set the shape denotes: start, stride 2^logPstride, size PEs. *)
ActiveSet(start, logPstride, size) ==
  {start + i * 2^logPstride : i \in 0..size - 1}

Init ==
  /\ commMap = [k \in {} |-> [handle |-> 0, members |-> {}]]
  /\ nextHandle = 1
  /\ lastShape = <<0, 0, 0>>
  /\ result = 0
  /\ exited = FALSE

(* comm_map.insert: adds the entry only when the key is absent.            *)
Insert(k, c) ==
  commMap' = IF k \in DOMAIN commMap THEN commMap
             ELSE [x \in DOMAIN commMap \cup {k} |->
                     IF x = k THEN c ELSE commMap[x]]

(* Faulty variant: a cache miss without the NET_CHECK on the group calls. *)
CreateNewUnchecked(k) ==
  LET ranks == GroupRanks(k[1], k[2], k[3])
  IN /\ Insert(k, [handle |-> nextHandle, members |-> {ranks[i] : i \in 1..k[3]}])
     /\ nextHandle' = nextHandle + 1
     /\ result' = nextHandle
     /\ UNCHANGED exited

(* A cache miss: duplicate the world for the whole-world shape, otherwise *)
(* build the group from the rank list; MPI_Group_incl fails on a rank     *)
(* outside the world and NET_CHECK exits.                                  *)
CreateNew(k) ==
  LET start == k[1]  logPstride == k[2]  size == k[3]
      ranks == GroupRanks(start, logPstride, size)
      new   == [handle |-> nextHandle, members |-> {ranks[i] : i \in 1..size}]
  IN IF start = 0 /\ logPstride = 0 /\ size = WorldSize
       THEN /\ Insert(k, [new EXCEPT !.members = 0..WorldSize - 1])
            /\ nextHandle' = nextHandle + 1
            /\ result' = nextHandle
            /\ UNCHANGED exited
       ELSE IF \A i \in 1..size : ranks[i] < WorldSize
              THEN /\ Insert(k, new)
                   /\ nextHandle' = nextHandle + 1
                   /\ result' = nextHandle
                   /\ UNCHANGED exited
              ELSE /\ exited' = TRUE
                   /\ UNCHANGED <<commMap, nextHandle, result>>

(* Faulty variant: createComm that skips the comm_map lookup.             *)
CreateCommNoLookup(k) ==
  /\ ~exited
  /\ lastShape' = k
  /\ CreateNew(k)

(* createComm: return the cached communicator for the shape, else create. *)
CreateComm(k) ==
  /\ ~exited
  /\ lastShape' = k
  /\ IF k \in DOMAIN commMap
       THEN /\ result' = commMap[k].handle
            /\ UNCHANGED <<commMap, nextHandle, exited>>
       ELSE CreateNew(k)

Next == \E k \in Shapes : CreateComm(k)

Spec == Init /\ [][Next]_vars

(* Every communicator createComm caches has as members exactly the PEs of  *)
(* the active set its (start, logPstride, size) shape names, the set the   *)
(* OpenSHMEM reduction and broadcast of that shape run over.               *)
GroupMatchesShape ==
  \A k \in DOMAIN commMap :
    commMap[k].members = ActiveSet(k[1], k[2], k[3])

(* A shape asked for a second time gets back the very communicator it got *)
(* the first time, never a fresh one.                                      *)
CreateCommIdempotent ==
  [][lastShape' \in DOMAIN commMap => result' = commMap[lastShape'].handle]_vars
=============================================================================
