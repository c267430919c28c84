-------------------------- MODULE MultiPECollective --------------------------
(***************************************************************************)
(* Active-set collectives of the MPI reverse-offload transport across      *)
(* several PEs (src/library/src/reverse_offload/transport.cpp).  On each   *)
(* PE the workgroups post blocking TO_ALL packets to the PE's queue, and   *)
(* its one progress thread dispatches them in FIFO order.  reduction and   *)
(* broadcast call createComm(start, logPstride, size) before they issue    *)
(* the non-blocking MPI_Iallreduce or MPI_Ibcast.  On a comm_map miss,     *)
(* createComm builds the communicator with MPI_Comm_dup (the world shape)  *)
(* or MPI_Comm_create_group.  Both are blocking collectives over the       *)
(* shape's members, and the progress thread waits inside them.  Nothing    *)
(* else runs on that PE meanwhile, not even progress().                    *)
(*                                                                         *)
(* The queue, the tracking vectors and the counters are those of           *)
(* ROTransport.  Here a PE's tracked requests are a set, and the status    *)
(* flag is the workgroup's "waiting" bit.  The n-th collective on a        *)
(* communicator matches the n-th collective of every other member on it,   *)
(* and completes once every member has issued it.                          *)
(***************************************************************************)
EXTENDS Naturals, Sequences

CONSTANTS
  PEs, WGs,
  Shapes,        \* the (start, logPstride, size) triples the programs use
  Members,       \* Members[s]: the PEs of shape s, as createComm computes them
  Prog,          \* Prog[p][w]: the shapes of workgroup w's collectives on p
  InitCache      \* InitCache[p]: the shapes already in p's comm_map

ASSUME Members \in [Shapes -> SUBSET PEs]
ASSUME \A p \in PEs, w \in WGs : \A i \in DOMAIN Prog[p][w] : p \in Members[Prog[p][w][i]]

Idle == [wg |-> "none", shape |-> "none"]   \* no createComm in progress

VARIABLES
  pos,       \* pos[p][w]: index in Prog[p][w] of w's next collective
  waiting,   \* waiting[p][w]: w spins on its status flag
  q,         \* q[p]: the RequestQueue of p, <<wg, shape>> packets
  eng,       \* eng[p]: Idle, or the packet whose createComm p is inside
  cache,     \* cache[p]: the shapes in p's comm_map
  issuedOn,  \* issuedOn[p][s]: collectives p has issued on shape s's comm
  reqs       \* reqs[p]: tracked requests, [wg, shape, seq] records

vars == <<pos, waiting, q, eng, cache, issuedOn, reqs>>

Packet  == [wg : WGs, shape : Shapes]

TypeOK ==
  /\ pos \in [PEs -> [WGs -> Nat \ {0}]]
  /\ waiting \in [PEs -> [WGs -> BOOLEAN]]
  /\ q \in [PEs -> Seq(Packet)]
  /\ eng \in [PEs -> Packet \cup {Idle}]
  /\ cache \in [PEs -> SUBSET Shapes]
  /\ issuedOn \in [PEs -> [Shapes -> Nat]]
  /\ reqs \in [PEs -> SUBSET [wg : WGs, shape : Shapes, seq : Nat]]

Init ==
  /\ pos = [p \in PEs |-> [w \in WGs |-> 1]]
  /\ waiting = [p \in PEs |-> [w \in WGs |-> FALSE]]
  /\ q = [p \in PEs |-> << >>]
  /\ eng = [p \in PEs |-> Idle]
  /\ cache = InitCache
  /\ issuedOn = [p \in PEs |-> [s \in Shapes |-> 0]]
  /\ reqs = [p \in PEs |-> {}]

(* Workgroup w of p posts its next collective and spins on its flag.       *)
DevicePost(p, w) ==
  /\ ~waiting[p][w]
  /\ pos[p][w] <= Len(Prog[p][w])
  /\ q' = [q EXCEPT ![p] = Append(@, [wg |-> w, shape |-> Prog[p][w][pos[p][w]]])]
  /\ waiting' = [waiting EXCEPT ![p][w] = TRUE]
  /\ UNCHANGED <<pos, eng, cache, issuedOn, reqs>>

(* MPI_Iallreduce on the communicator, then the tracking push.             *)
Issue(p, e) ==
  /\ issuedOn' = [issuedOn EXCEPT ![p][e.shape] = @ + 1]
  /\ reqs' = [reqs EXCEPT ![p] = @ \cup
                {[wg |-> e.wg, shape |-> e.shape,
                  seq |-> issuedOn[p][e.shape] + 1]}]

(* Faulty variant: createComm without the comm_map lookup.                *)
DispatchNoLookup(p) ==
  /\ eng[p] = Idle
  /\ q[p] # << >>
  /\ q' = [q EXCEPT ![p] = Tail(@)]
  /\ eng' = [eng EXCEPT ![p] = Head(q[p])]
  /\ UNCHANGED <<pos, waiting, cache, issuedOn, reqs>>

(* submitRequestsToMPI pops a TO_ALL packet; reduction calls createComm. On *)
(* a hit it issues at once; on a miss the thread enters the collective     *)
(* communicator creation.                                                  *)
Dispatch(p) ==
  /\ eng[p] = Idle
  /\ q[p] # << >>
  /\ q' = [q EXCEPT ![p] = Tail(@)]
  /\ IF Head(q[p]).shape \in cache[p]
       THEN /\ Issue(p, Head(q[p]))
            /\ UNCHANGED eng
       ELSE /\ eng' = [eng EXCEPT ![p] = Head(q[p])]
            /\ UNCHANGED <<issuedOn, reqs>>
  /\ UNCHANGED <<pos, waiting, cache>>

(* MPI_Comm_dup / MPI_Comm_create_group returns on every member of s once  *)
(* all of them are inside it; each inserts s into its comm_map and issues  *)
(* the collective it was dispatching.                                      *)
CommCreate(s) ==
  /\ \A m \in Members[s] : eng[m] # Idle /\ eng[m].shape = s
  /\ cache' = [p \in PEs |-> IF p \in Members[s] THEN cache[p] \cup {s} ELSE cache[p]]
  /\ issuedOn' = [p \in PEs |-> IF p \in Members[s]
                                  THEN [issuedOn[p] EXCEPT ![s] = @ + 1]
                                  ELSE issuedOn[p]]
  /\ reqs' = [p \in PEs |-> IF p \in Members[s]
                              THEN reqs[p] \cup {[wg |-> eng[p].wg, shape |-> s,
                                                  seq |-> issuedOn[p][s] + 1]}
                              ELSE reqs[p]]
  /\ eng' = [p \in PEs |-> IF p \in Members[s] THEN Idle ELSE eng[p]]
  /\ UNCHANGED <<pos, waiting, q>>

(* progress() on p finds request r complete: every member has issued its   *)
(* seq-th collective on the communicator.  The blocking request sets the   *)
(* workgroup's status flag, and the workgroup goes on to its next one.     *)
Complete(p, r) ==
  /\ eng[p] = Idle
  /\ r \in reqs[p]
  /\ \A m \in Members[r.shape] : issuedOn[m][r.shape] >= r.seq
  /\ reqs' = [reqs EXCEPT ![p] = @ \ {r}]
  /\ waiting' = [waiting EXCEPT ![p][r.wg] = FALSE]
  /\ pos' = [pos EXCEPT ![p][r.wg] = @ + 1]
  /\ UNCHANGED <<q, eng, cache, issuedOn>>

(* Every kernel has run all its collectives.                               *)
Finished == \A p \in PEs, w \in WGs : pos[p][w] > Len(Prog[p][w])

Next ==
  \/ \E p \in PEs, w \in WGs : DevicePost(p, w)
  \/ \E p \in PEs : Dispatch(p)
  \/ \E s \in Shapes : CommCreate(s)
  \/ \E p \in PEs : \E r \in reqs[p] : Complete(p, r)

(* The progress threads run, MPI returns from a creation all members have  *)
(* entered, and a device thread whose flag is down posts its next one.     *)
Fairness ==
  /\ \A p \in PEs : WF_vars(Dispatch(p))
  /\ \A s \in Shapes : WF_vars(CommCreate(s))
  /\ \A p \in PEs : WF_vars(\E r \in reqs[p] : Complete(p, r))
  /\ \A p \in PEs, w \in WGs : WF_vars(DevicePost(p, w))

Spec == Init /\ [][Next]_vars /\ Fairness

-----------------------------------------------------------------------------
(* Spec 5: every enqueued operation eventually completes.  Whatever order  *)
(* the workgroups of each PE post in, every kernel runs all of its         *)
(* collectives.                                                            *)
CollectivesComplete == <>Finished
=============================================================================
