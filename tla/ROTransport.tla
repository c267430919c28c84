----------------------------- MODULE ROTransport -----------------------------
(***************************************************************************)
(* The reverse-offload MPI transport of src/library/src/reverse_offload/   *)
(* transport.cpp: the request queue filled by insertRequest, the progress  *)
(* thread (threadProgressEngine) that alternates submitRequestsToMPI and   *)
(* progress(), the per-workgroup outstanding counters, the quiet waiter    *)
(* lists and the device-visible status flags it writes.                    *)
(*                                                                         *)
(* The device threads that post requests and spin on their status flag are *)
(* not in this repository; DeviceIssue and DeviceResume model them from    *)
(* the spec.  The MPI library is the environment: NetworkComplete is MPI   *)
(* finishing a request some time after it was issued.                      *)
(***************************************************************************)
EXTENDS Integers, Sequences, SequencesExt, FiniteSets, TLC

CONSTANTS
  WGs,          \* workgroup ids (queue ids)
  Threads,      \* thread ids within a workgroup
  Kinds,        \* the RO_NET_* packet types the devices post in this model
  MaxOps,       \* bound on the number of packets posted in a behaviour
  IndicesSize,  \* INDICES_SIZE: how many requests one MPI_Testsome looks at
  None          \* model value: a device thread that waits for nothing

(* The packet types of submitRequestsToMPI, grouped by the call they make. *)
PutKinds     == {"PUT", "P", "PUT_NBI"}
GetKinds     == {"GET", "GET_NBI"}
AmoKinds     == {"AMO_FOP", "AMO_FCAS"}
CollKinds    == {"TEAM_TO_ALL", "TO_ALL", "TEAM_BROADCAST", "BROADCAST"}
QuietKinds   == {"FENCE", "QUIET", "FINALIZE"}
NbiKinds     == {"PUT_NBI", "GET_NBI"}
AllKinds     == PutKinds \cup GetKinds \cup AmoKinds \cup CollKinds
                  \cup {"BARRIER_ALL"} \cup QuietKinds

ASSUME Kinds \subseteq AllKinds
ASSUME MaxOps \in Nat /\ IndicesSize \in Nat \ {0}

Ids == 1..MaxOps

VARIABLES
  q,            \* q and q_wgid, popped together: packets not yet dispatched
  req,          \* req_vec and req_prop_vec, index-parallel: tracked requests
  netDone,      \* ids of tracked requests MPI has completed, not yet observed
  outstanding,  \* outstanding[wg]
  waitingQuiet, \* waiting_quiet[wg]: thread ids waiting for outstanding = 0
  status,       \* handle->queue_descs[wg].status[thread]
  inlineBufs,   \* ids whose malloc'ed RO_NET_P source buffer is live
  pc,           \* where the progress thread is in its loop
  awaiting,     \* the packet a device thread spins on, or None
  nextId,       \* id of the next packet posted
  issued,       \* history: ids of the non-quiet packets posted per workgroup
  quietPrior,   \* history: issued[wg] when the awaited quiet was posted
  done          \* history: ids whose completion the engine has observed

engineVars  == <<q, req, netDone, outstanding, waitingQuiet, status,
                 inlineBufs, pc>>
historyVars == <<awaiting, nextId, issued, quietPrior, done>>
vars        == <<engineVars, historyVars>>

Packet  == [id : Ids, kind : Kinds, wg : WGs, thread : Threads]
Request == [id : Ids, wg : WGs, thread : Threads, blocking : BOOLEAN,
            inline : BOOLEAN]

TypeOK ==
  /\ q \in Seq(Packet)
  /\ req \in Seq(Request)
  /\ netDone \subseteq Ids
  /\ outstanding \in [WGs -> Nat]
  /\ waitingQuiet \in [WGs -> Seq(Threads)]
  /\ status \in [WGs -> [Threads -> {0, 1}]]
  /\ inlineBufs \subseteq Ids
  /\ pc \in {"submit", "progress"}
  /\ awaiting \in [WGs -> [Threads -> Packet \cup {None}]]
  /\ nextId \in 1..MaxOps + 1
  /\ issued \in [WGs -> SUBSET Ids]
  /\ quietPrior \in [WGs -> [Threads -> SUBSET Ids]]
  /\ done \subseteq Ids

-----------------------------------------------------------------------------
(* MPITransport::initTransport sizes waiting_quiet and outstanding per     *)
(* queue; the progress thread starts at the top of its loop.               *)
Init ==
  /\ q = << >>
  /\ req = << >>
  /\ netDone = {}
  /\ outstanding = [w \in WGs |-> 0]
  /\ waitingQuiet = [w \in WGs |-> << >>]
  /\ status = [w \in WGs |-> [t \in Threads |-> 0]]
  /\ inlineBufs = {}
  /\ pc = "submit"
  /\ awaiting = [w \in WGs |-> [t \in Threads |-> None]]
  /\ nextId = 1
  /\ issued = [w \in WGs |-> {}]
  /\ quietPrior = [w \in WGs |-> [t \in Threads |-> {}]]
  /\ done = {}

(* insertRequest: push the packet and its queue id under queue_mutex.      *)
InsertRequest(e) == q' = Append(q, e)

(* A device thread posts a packet; unless it is non-blocking it clears its *)
(* status flag and spins on it.                                            *)
DeviceIssue(w, t, k) ==
  LET e == [id |-> nextId, kind |-> k, wg |-> w, thread |-> t]
  IN /\ awaiting[w][t] = None
     /\ nextId <= MaxOps
     /\ InsertRequest(e)
     /\ IF k \in NbiKinds
          THEN UNCHANGED <<awaiting, status>>
          ELSE /\ awaiting' = [awaiting EXCEPT ![w][t] = e]
               /\ status' = [status EXCEPT ![w][t] = 0]
     /\ issued' = IF k \in QuietKinds THEN issued
                  ELSE [issued EXCEPT ![w] = @ \cup {nextId}]
     /\ quietPrior' = IF k \in QuietKinds
                        THEN [quietPrior EXCEPT ![w][t] = issued[w]]
                        ELSE quietPrior
     /\ nextId' = nextId + 1
     /\ UNCHANGED <<req, netDone, outstanding, waitingQuiet, inlineBufs, pc,
                    done>>

(* The device thread sees its status flag set and stops spinning.          *)
DeviceResume(w, t) ==
  /\ awaiting[w][t] # None
  /\ status[w][t] = 1
  /\ awaiting' = [awaiting EXCEPT ![w][t] = None]
  /\ UNCHANGED <<engineVars, nextId, issued, quietPrior, done>>

(* MPI completes one issued request.                                       *)
NetworkComplete(i) ==
  /\ \E j \in 1..Len(req) : req[j].id = i
  /\ i \notin netDone
  /\ netDone' = netDone \cup {i}
  /\ UNCHANGED <<q, req, outstanding, waitingQuiet, status, inlineBufs, pc,
                 historyVars>>

-----------------------------------------------------------------------------
(* The tail every request-issuing call shares: req_prop_vec.emplace_back,  *)
(* req_vec.push_back and outstanding[wg_id]++.                             *)
Track(e, blocking, inline) ==
  /\ req' = Append(req, [id |-> e.id, wg |-> e.wg, thread |-> e.thread,
                         blocking |-> blocking, inline |-> inline])
  /\ outstanding' = [outstanding EXCEPT ![e.wg] = @ + 1]
  /\ UNCHANGED <<status, waitingQuiet, done>>

(* putMem: HDP flush, MPI_Rput, MPI_Win_flush_all, then track.             *)
PutMem(e, blocking, inline) == Track(e, blocking, inline)

(* getMem: outstanding++ before MPI_Rget, then track.                      *)
GetMem(e, blocking) == Track(e, blocking, FALSE)

(* reduction, broadcast, team_reduction, team_broadcast: resolve the       *)
(* communicator, issue MPI_Iallreduce or MPI_Ibcast, track as blocking.    *)
Collective(e) == Track(e, TRUE, FALSE)

(* barrier: MPI_Ibarrier on the world communicator, tracked as blocking.   *)
Barrier(e) == Track(e, TRUE, FALSE)

(* amoFOP, amoFCAS: a synchronous MPI atomic and MPI_Win_flush_local, then *)
(* status[threadId] = 1 at once; nothing is tracked.                       *)
Amo(e) ==
  /\ status' = [status EXCEPT ![e.wg][e.thread] = 1]
  /\ done' = done \cup {e.id}
  /\ UNCHANGED <<req, outstanding, waitingQuiet>>

(* Faulty variant: quiet signals its thread without looking at the        *)
(* outstanding count.                                                      *)
QuietNoWait(w, t) ==
  /\ status' = [status EXCEPT ![w][t] = 1]
  /\ UNCHANGED <<req, outstanding, done, waitingQuiet>>

(* Faulty variant: quiet registers the workgroup id in place of the      *)
(* thread id (swapped arguments to waiting_quiet[...].push_back).          *)
QuietWrongWaiter(w, t) ==
  /\ IF outstanding[w] = 0
       THEN /\ status' = [status EXCEPT ![w][t] = 1]
            /\ UNCHANGED waitingQuiet
       ELSE /\ waitingQuiet' = [waitingQuiet EXCEPT ![w] = Append(@, w)]
            /\ UNCHANGED status
  /\ UNCHANGED <<req, outstanding, done>>

(* quiet: signal at once if nothing is outstanding, else join the waiters. *)
Quiet(w, t) ==
  /\ IF outstanding[w] = 0
       THEN /\ status' = [status EXCEPT ![w][t] = 1]
            /\ UNCHANGED waitingQuiet
       ELSE /\ waitingQuiet' = [waitingQuiet EXCEPT ![w] = Append(@, t)]
            /\ UNCHANGED status
  /\ UNCHANGED <<req, outstanding, done>>

(* submitRequestsToMPI, packet present: pop it under the lock and dispatch *)
(* on its type; RO_NET_P first copies the value into a malloc'ed buffer.   *)
SubmitRequestsToMPI ==
  /\ pc = "submit"
  /\ q # << >>
  /\ LET e == Head(q) IN
       /\ q' = Tail(q)
       /\ \/ e.kind \in PutKinds /\ PutMem(e, e.kind # "PUT_NBI", e.kind = "P")
          \/ e.kind \in GetKinds /\ GetMem(e, e.kind # "GET_NBI")
          \/ e.kind \in AmoKinds /\ Amo(e)
          \/ e.kind \in CollKinds /\ Collective(e)
          \/ e.kind = "BARRIER_ALL" /\ Barrier(e)
          \/ e.kind \in QuietKinds /\ Quiet(e.wg, e.thread)
       /\ inlineBufs' = IF e.kind = "P" THEN inlineBufs \cup {e.id}
                        ELSE inlineBufs
  /\ pc' = "progress"
  /\ UNCHANGED <<netDone, awaiting, nextId, issued, quietPrior>>

(* submitRequestsToMPI returns when q.empty(); the test is made without    *)
(* queue_mutex, so it may miss a packet a producer is pushing.             *)
SubmitEmpty ==
  /\ pc = "submit"
  /\ pc' = "progress"
  /\ UNCHANGED <<q, req, netDone, outstanding, waitingQuiet, status,
                 inlineBufs, historyVars>>

-----------------------------------------------------------------------------
(* Faulty variant: every completed request sets its thread's status, the  *)
(* non-blocking ones too (the "if (req_prop_vec[..].blocking)" dropped).   *)
CompleteOneAlwaysSignal(s, r) ==
  LET w      == r.wg
      out    == [s.out EXCEPT ![w] = @ - 1]
      st     == [s.st EXCEPT ![w][r.thread] = 1]
      signal == out[w] = 0 /\ s.wq[w] # << >>
  IN [out |-> out,
      st  |-> IF signal
                THEN [st EXCEPT ![w] = [t \in Threads |->
                        IF t \in ToSet(s.wq[w]) THEN 1 ELSE st[w][t]]]
                ELSE st,
      wq  |-> IF signal THEN [s.wq EXCEPT ![w] = << >>] ELSE s.wq]

(* One completed request of the progress() loop, applied to the counters,  *)
(* status flags and waiter lists in s: decrement, set the status of a      *)
(* blocking request, and when the workgroup reaches zero with waiters,     *)
(* signal every waiter and clear the list.                                 *)
CompleteOne(s, r) ==
  LET w      == r.wg
      out    == [s.out EXCEPT ![w] = @ - 1]
      st     == IF r.blocking THEN [s.st EXCEPT ![w][r.thread] = 1] ELSE s.st
      signal == out[w] = 0 /\ s.wq[w] # << >>
  IN [out |-> out,
      st  |-> IF signal
                THEN [st EXCEPT ![w] = [t \in Threads |->
                        IF t \in ToSet(s.wq[w]) THEN 1 ELSE st[w][t]]]
                ELSE st,
      wq  |-> IF signal THEN [s.wq EXCEPT ![w] = << >>] ELSE s.wq]

(* Faulty variant: erase the completed indices smallest first.            *)
EraseCompletedAscending(seq, idx) ==
  FoldLeft(LAMBDA s, i : RemoveAt(s, i), seq, SetToSortSeq(idx, <))

(* Erase the completed indices from req_vec/req_prop_vec, largest first.   *)
EraseCompleted(seq, idx) ==
  FoldLeft(LAMBDA s, i : RemoveAt(s, i), seq, SetToSortSeq(idx, >))

(* progress() with no tracked request only probes MPI.                     *)
ProgressProbe ==
  /\ pc = "progress"
  /\ req = << >>
  /\ pc' = "submit"
  /\ UNCHANGED <<q, req, netDone, outstanding, waitingQuiet, status,
                 inlineBufs, historyVars>>

(* progress() with tracked requests: MPI_Testsome over the first           *)
(* min(size, INDICES_SIZE) of them, process each completed one, free its   *)
(* inline buffer, then erase them.                                         *)
ProgressTest ==
  /\ pc = "progress"
  /\ req # << >>
  /\ LET incount == IF Len(req) < IndicesSize THEN Len(req) ELSE IndicesSize
         idx     == {i \in 1..incount : req[i].id \in netDone}
         ids     == {req[i].id : i \in idx}
         s0      == [out |-> outstanding, st |-> status, wq |-> waitingQuiet]
         s1      == FoldLeft(LAMBDA s, i : CompleteOne(s, req[i]), s0,
                             SetToSortSeq(idx, <))
     IN /\ outstanding' = s1.out
        /\ status' = s1.st
        /\ waitingQuiet' = s1.wq
        /\ inlineBufs' = inlineBufs \ {req[i].id : i \in {j \in idx : req[j].inline}}
        /\ req' = EraseCompleted(req, idx)
        /\ netDone' = netDone \ ids
        /\ done' = done \cup ids
  /\ pc' = "submit"
  /\ UNCHANGED <<q, awaiting, nextId, issued, quietPrior>>

(* The body of threadProgressEngine: submitRequestsToMPI, then progress(). *)
Engine ==
  \/ SubmitRequestsToMPI
  \/ SubmitEmpty
  \/ ProgressProbe
  \/ ProgressTest

Next ==
  \/ Engine
  \/ \E w \in WGs, t \in Threads, k \in Kinds : DeviceIssue(w, t, k)
  \/ \E w \in WGs, t \in Threads : DeviceResume(w, t)
  \/ \E i \in Ids : NetworkComplete(i)

(* The progress thread runs for the life of the backend, so its loop steps *)
(* are weakly fair.  A packet in q is dispatched by one of the loop's      *)
(* passes: the unlocked q.empty() may miss it once, not forever, so the    *)
(* dispatch is strongly fair.  MPI completes every issued request.         *)
Fairness ==
  /\ WF_vars(SubmitRequestsToMPI \/ SubmitEmpty)
  /\ WF_vars(ProgressProbe \/ ProgressTest)
  /\ SF_vars(SubmitRequestsToMPI)
  /\ \A i \in Ids : WF_vars(NetworkComplete(i))

Spec == Init /\ [][Next]_vars /\ Fairness

-----------------------------------------------------------------------------
(* The counters, the tracking vectors and the inline buffers agree: every  *)
(* workgroup's outstanding count is the number of requests tracked for it, *)
(* and the live inline buffers are exactly those of tracked RO_NET_P puts. *)
(* It depends on Track, on each completion decrementing once, and on the   *)
(* descending erase of req_vec/req_prop_vec in progress().                 *)
TrackingConsistent ==
  /\ \A w \in WGs :
       outstanding[w] = Cardinality({i \in 1..Len(req) : req[i].wg = w})
  /\ inlineBufs = {req[i].id : i \in {j \in 1..Len(req) : req[j].inline}}

(* A device thread that is told its packet is done (status = 1) is told    *)
(* the truth: a put/get/collective/atomic it waits for has completed, and  *)
(* a quiet/fence/finalize it waits for comes after the completion of every *)
(* operation its workgroup posted before it (quiet via outstanding = 0).   *)
SignalSound ==
  \A w \in WGs, t \in Threads :
    awaiting[w][t] # None /\ status[w][t] = 1 =>
      IF awaiting[w][t].kind \in QuietKinds
        THEN quietPrior[w][t] \subseteq done
        ELSE awaiting[w][t].id \in done

(* The engine implements the completion service of QuietSpec: the ids it  *)
(* has observed complete are the service's completed operations, a thread *)
(* waits while it awaits a packet, for that packet's id or, for a quiet,   *)
(* for the ids its workgroup posted before it, and its status flag is the  *)
(* service's flag.                                                         *)
QS == INSTANCE QuietSpec WITH
        posted    <- issued,
        completed <- done,
        blocked   <- [w \in WGs |-> [t \in Threads |-> awaiting[w][t] # None]],
        waitFor   <- [w \in WGs |-> [t \in Threads |->
                        IF awaiting[w][t] = None THEN {}
                        ELSE IF awaiting[w][t].kind \in QuietKinds
                          THEN quietPrior[w][t]
                          ELSE {awaiting[w][t].id}]],
        flag      <- status

(* Every step of the engine and the device threads is a step of QuietSpec *)
(* (no flag is raised early, no completion is invented or undone, a       *)
(* released thread stays released until it posts again) and, under the   *)
(* engine's fairness, every posted operation completes and every thread   *)
(* whose wait is satisfied is released.                                    *)
ImplementsQuietSpec == QS!ASpec

=============================================================================
