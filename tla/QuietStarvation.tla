--------------------------- MODULE QuietStarvation ---------------------------
(***************************************************************************)
(* ROTransport with device threads that post without end.  A packet takes  *)
(* an id from Ids that no queued, tracked or awaited packet holds, so the  *)
(* ids are reused and a behaviour can post forever in a finite state       *)
(* space.  The engine is ROTransport's, unchanged.                         *)
(***************************************************************************)
EXTENDS ROTransport

(* The ids some packet still holds: queued, tracked, or awaited.          *)
HeldIds ==
  {q[i].id : i \in 1..Len(q)} \cup {req[i].id : i \in 1..Len(req)}
    \cup UNION {{awaiting[w][t].id : t \in {u \in Threads :
                                               awaiting[w][u] # None}}
                : w \in WGs}

(* A device thread posts a packet under a free id; the id's history from  *)
(* an earlier packet is dropped.                                           *)
DevicePost(w, t, k) ==
  \E i \in Ids \ HeldIds :
    LET e == [id |-> i, kind |-> k, wg |-> w, thread |-> t]
    IN /\ awaiting[w][t] = None
       /\ InsertRequest(e)
       /\ IF k \in NbiKinds
            THEN UNCHANGED <<awaiting, status>>
            ELSE /\ awaiting' = [awaiting EXCEPT ![w][t] = e]
                 /\ status' = [status EXCEPT ![w][t] = 0]
       /\ issued' = [v \in WGs |->
                      IF v = w /\ k \notin QuietKinds THEN (issued[v] \ {i}) \cup {i}
                      ELSE issued[v] \ {i}]
       /\ quietPrior' = [v \in WGs |-> [u \in Threads |->
                          IF <<v, u>> = <<w, t>> /\ k \in QuietKinds
                            THEN issued[w] \ {i}
                            ELSE quietPrior[v][u] \ {i}]]
       /\ done' = done \ {i}
       /\ UNCHANGED <<req, netDone, outstanding, waitingQuiet, inlineBufs, pc,
                      nextId>>

SNext ==
  \/ Engine
  \/ \E w \in WGs, t \in Threads, k \in Kinds : DevicePost(w, t, k)
  \/ \E w \in WGs, t \in Threads : DeviceResume(w, t)
  \/ \E i \in Ids : NetworkComplete(i)

SSpec == Init /\ [][SNext]_vars /\ Fairness

-----------------------------------------------------------------------------
(* Spec 5: every enqueued operation eventually completes, and a quiet      *)
(* waits only for what its workgroup enqueued before it.  So a thread      *)
(* registered in waiting_quiet is eventually signalled, however the        *)
(* workgroup's other threads go on posting non-blocking operations.  The   *)
(* progress loop signals quiet waiters only when outstanding[wg_id] is 0,  *)
(* and that count includes operations posted after the quiet.              *)
QuietEventuallyReleased ==
  \A w \in WGs, t \in Threads :
    (awaiting[w][t] # None /\ awaiting[w][t].kind \in QuietKinds)
      ~> status[w][t] = 1
=============================================================================
