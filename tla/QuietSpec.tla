------------------------------ MODULE QuietSpec ------------------------------
(***************************************************************************)
(* What the reverse-offload engine promises the device threads (spec 4.3,  *)
(* 5), with no queue, no tracking vectors and no counters.  A thread posts *)
(* an operation; a blocking one makes it wait.  It waits for its own       *)
(* operation, or, for a quiet, fence or finalize, for every operation its  *)
(* workgroup posted before.  The service completes posted operations and   *)
(* raises a waiting thread's flag only once what it waits for is complete; *)
(* the thread then resumes.                                                *)
(***************************************************************************)
EXTENDS Naturals

CONSTANTS
  WGs, Threads,
  Kinds,        \* the operation kinds posted
  QuietKinds,   \* kinds that wait for the workgroup's earlier operations
  NbiKinds,     \* kinds whose poster does not wait
  MaxOps        \* bound on the number of operations posted

Ids == 1..MaxOps

VARIABLES
  nextId,     \* id of the next operation posted
  posted,     \* posted[w]: ids of the non-quiet operations w posted
  completed,  \* ids of the operations the service has completed
  blocked,    \* blocked[w][t]: thread t of w waits for its flag
  waitFor,    \* waitFor[w][t]: the ids it waits for
  flag        \* flag[w][t]: 1 once the service has released it

avars == <<nextId, posted, completed, blocked, waitFor, flag>>

ATypeOK ==
  /\ nextId \in 1..MaxOps + 1
  /\ posted \in [WGs -> SUBSET Ids]
  /\ completed \subseteq Ids
  /\ blocked \in [WGs -> [Threads -> BOOLEAN]]
  /\ waitFor \in [WGs -> [Threads -> SUBSET Ids]]
  /\ flag \in [WGs -> [Threads -> {0, 1}]]

AInit ==
  /\ nextId = 1
  /\ posted = [w \in WGs |-> {}]
  /\ completed = {}
  /\ blocked = [w \in WGs |-> [t \in Threads |-> FALSE]]
  /\ waitFor = [w \in WGs |-> [t \in Threads |-> {}]]
  /\ flag = [w \in WGs |-> [t \in Threads |-> 0]]

(* Thread t of w posts an operation of kind k.                             *)
Post(w, t, k) ==
  /\ ~blocked[w][t]
  /\ nextId <= MaxOps
  /\ nextId' = nextId + 1
  /\ posted' = IF k \in QuietKinds THEN posted
               ELSE [posted EXCEPT ![w] = @ \cup {nextId}]
  /\ IF k \in NbiKinds
       THEN UNCHANGED <<blocked, waitFor, flag>>
       ELSE /\ blocked' = [blocked EXCEPT ![w][t] = TRUE]
            /\ flag' = [flag EXCEPT ![w][t] = 0]
            /\ waitFor' = [waitFor EXCEPT ![w][t] =
                             IF k \in QuietKinds THEN posted[w] ELSE {nextId}]
  /\ UNCHANGED completed

Pending == UNION {posted[w] : w \in WGs} \ completed

(* The waiting threads whose ids are all complete once C is.               *)
Ready(C) == {p \in WGs \X Threads :
               /\ blocked[p[1]][p[2]]
               /\ flag[p[1]][p[2]] = 0
               /\ waitFor[p[1]][p[2]] \subseteq completed \cup C}

(* The service completes the operations C and releases the threads R.      *)
Serve(C, R) ==
  /\ completed' = completed \cup C
  /\ flag' = [w \in WGs |-> [t \in Threads |->
               IF <<w, t>> \in R THEN 1 ELSE flag[w][t]]]
  /\ UNCHANGED <<nextId, posted, blocked, waitFor>>

(* A released thread stops waiting.                                        *)
Resume(w, t) ==
  /\ blocked[w][t]
  /\ flag[w][t] = 1
  /\ blocked' = [blocked EXCEPT ![w][t] = FALSE]
  /\ waitFor' = [waitFor EXCEPT ![w][t] = {}]
  /\ UNCHANGED <<nextId, posted, completed, flag>>

ANext ==
  \/ \E w \in WGs, t \in Threads, k \in Kinds : Post(w, t, k)
  \/ \E C \in SUBSET Pending : \E R \in SUBSET Ready(C) : Serve(C, R)
  \/ \E w \in WGs, t \in Threads : Resume(w, t)

(* Every posted operation is completed, and every thread whose wait is     *)
(* satisfied is released.                                                  *)
AFairness ==
  /\ \A i \in Ids :
       WF_avars(\E C \in SUBSET Pending : \E R \in SUBSET Ready(C) :
                  i \in C /\ Serve(C, R))
  /\ \A w \in WGs, t \in Threads :
       WF_avars(\E C \in SUBSET Pending : \E R \in SUBSET Ready(C) :
                  <<w, t>> \in R /\ Serve(C, R))

ASpec == AInit /\ [][ANext]_avars /\ AFairness
=============================================================================
