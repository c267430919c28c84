----------------------------- MODULE ROLifecycle -----------------------------
(***************************************************************************)
(* The life of the reverse-offload progress thread around the transport of *)
(* ROTransport (src/library/src/reverse_offload/transport.cpp):            *)
(* initTransport creates the thread and spins on transport_up;             *)
(* threadProgressEngine sets transport_up, loops until it reads            *)
(* handle->done_flag, then clears transport_up; finalizeTransport joins    *)
(* it.                                                                     *)
(*                                                                         *)
(* transport_up is a plain bool written by the progress thread and read    *)
(* by "while (!transport_up);" with no synchronisation: a data race.  The  *)
(* spin's build is a constant.  In a "reread" build every iteration loads  *)
(* the flag.  In a "hoisted" build the loop-invariant load is done once,   *)
(* as an optimising compiler may do for a non-atomic read.                 *)
(*                                                                         *)
(* The device kernels and the backend teardown that sets done_flag are not *)
(* in this repository and are modelled from the spec.  Each workgroup      *)
(* ends with one FINALIZE packet, posted once none of its threads waits.   *)
(* The host sets done_flag after every workgroup has finalized.            *)
(***************************************************************************)
EXTENDS ROTransport

CONSTANT SpinBuild   \* "reread" or "hoisted"

ASSUME SpinBuild \in {"reread", "hoisted"}
ASSUME "FINALIZE" \in Kinds

VARIABLES
  transportUp,  \* transport_up
  doneFlag,     \* handle->done_flag
  host,         \* the host thread: "spawned", "running", "hung",
                \* "joining", "joined"
  thread,       \* the progress thread: "created", "loop", "exited"
  finalized     \* workgroups that have posted their FINALIZE

lifeVars == <<transportUp, doneFlag, host, thread, finalized>>
lvars    == <<vars, lifeVars>>

LTypeOK ==
  /\ TypeOK
  /\ transportUp \in BOOLEAN
  /\ doneFlag \in BOOLEAN
  /\ host \in {"spawned", "running", "hung", "joining", "joined"}
  /\ thread \in {"created", "loop", "exited"}
  /\ finalized \subseteq WGs

(* initTransport up to the spin: sizes the per-queue state, clears         *)
(* transport_up and creates the progress thread.                           *)
LInit ==
  /\ Init
  /\ transportUp = FALSE
  /\ doneFlag = FALSE
  /\ host = "spawned"
  /\ thread = "created"
  /\ finalized = {}

(* Faulty variant: the thread starts its loop without setting the flag.  *)
ThreadStartNoFlag ==
  /\ thread = "created"
  /\ thread' = "loop"
  /\ UNCHANGED <<vars, transportUp, doneFlag, host, finalized>>

(* threadProgressEngine starts: transport_up = true.                       *)
ThreadStart ==
  /\ thread = "created"
  /\ thread' = "loop"
  /\ transportUp' = TRUE
  /\ UNCHANGED <<vars, doneFlag, host, finalized>>

(* while (!transport_up); in initTransport.  A rereading spin returns once *)
(* it sees the flag.  A hoisted spin reads it once: if it was still false, *)
(* the host spins forever.                                                 *)
InitSpin ==
  /\ host = "spawned"
  /\ \/ SpinBuild = "reread" /\ transportUp /\ host' = "running"
     \/ SpinBuild = "hoisted" /\ host' = IF transportUp THEN "running"
                                          ELSE "hung"
  /\ UNCHANGED <<vars, transportUp, doneFlag, thread, finalized>>

(* One step of the loop body, taken only while the thread runs; the        *)
(* while (!handle->done_flag) test is made before submitRequestsToMPI.     *)
LoopStep ==
  /\ thread = "loop"
  /\ pc = "submit" => ~doneFlag
  /\ Engine
  /\ UNCHANGED lifeVars

(* The loop sees done_flag and exits: transport_up = false.                *)
ThreadExit ==
  /\ thread = "loop"
  /\ pc = "submit"
  /\ doneFlag
  /\ thread' = "exited"
  /\ transportUp' = FALSE
  /\ UNCHANGED <<vars, doneFlag, host, finalized>>

(* The devices post once initTransport has returned.  A workgroup posts no *)
(* more after its FINALIZE, which it posts once none of its threads waits; *)
(* ids are left for the FINALIZE of every workgroup still running.         *)
LDeviceIssue(w, t, k) ==
  /\ host = "running"
  /\ w \notin finalized
  /\ k = "FINALIZE" => \A u \in Threads : awaiting[w][u] = None
  /\ k # "FINALIZE" => nextId + Cardinality(WGs \ finalized) <= MaxOps
  /\ DeviceIssue(w, t, k)
  /\ finalized' = IF k = "FINALIZE" THEN finalized \cup {w} ELSE finalized
  /\ UNCHANGED <<transportUp, doneFlag, host, thread>>

(* Faulty variant: the teardown joins without setting done_flag.          *)
HostTeardownNoFlag ==
  /\ host = "running"
  /\ finalized = WGs
  /\ \A w \in WGs, t \in Threads : awaiting[w][t] = None
  /\ host' = "joining"
  /\ UNCHANGED <<vars, transportUp, doneFlag, thread, finalized>>

(* The backend teardown: once every workgroup has finalized and no thread *)
(* waits, it sets done_flag and calls finalizeTransport.                  *)
HostTeardown ==
  /\ host = "running"
  /\ finalized = WGs
  /\ \A w \in WGs, t \in Threads : awaiting[w][t] = None
  /\ doneFlag' = TRUE
  /\ host' = "joining"
  /\ UNCHANGED <<vars, transportUp, thread, finalized>>

(* finalizeTransport: progress_thread->join() returns once it has exited. *)
FinalizeTransport ==
  /\ host = "joining"
  /\ thread = "exited"
  /\ host' = "joined"
  /\ UNCHANGED <<vars, transportUp, doneFlag, thread, finalized>>

(* After finalizeTransport the backend is gone: the process has ended.   *)
Terminated ==
  /\ host = "joined"
  /\ UNCHANGED lvars

LNext ==
  \/ ThreadStart
  \/ InitSpin
  \/ LoopStep
  \/ ThreadExit
  \/ \E w \in WGs, t \in Threads, k \in Kinds : LDeviceIssue(w, t, k)
  \/ \E w \in WGs, t \in Threads : DeviceResume(w, t) /\ UNCHANGED lifeVars
  \/ \E i \in Ids : NetworkComplete(i) /\ UNCHANGED lifeVars
  \/ HostTeardown
  \/ FinalizeTransport
  \/ Terminated

(* Both threads run to completion of what they can do; the loop's halves  *)
(* are fair as in ROTransport; MPI completes every request; a released     *)
(* device thread resumes and every kernel ends with its FINALIZE.          *)
LFairness ==
  /\ WF_lvars(ThreadStart)
  /\ WF_lvars(InitSpin)
  /\ WF_lvars(LoopStep /\ pc = "submit")
  /\ WF_lvars(LoopStep /\ pc = "progress")
  /\ SF_lvars(LoopStep /\ SubmitRequestsToMPI)
  /\ WF_lvars(ThreadExit)
  /\ \A i \in Ids : WF_lvars(NetworkComplete(i) /\ UNCHANGED lifeVars)
  /\ \A w \in WGs, t \in Threads :
       WF_lvars(DeviceResume(w, t) /\ UNCHANGED lifeVars)
  /\ \A w \in WGs :
       WF_lvars(\E t \in Threads : LDeviceIssue(w, t, "FINALIZE"))
  /\ WF_lvars(HostTeardown)
  /\ WF_lvars(FinalizeTransport)

LSpec == LInit /\ [][LNext]_lvars /\ LFairness

-----------------------------------------------------------------------------
(* When the progress thread leaves its loop, nothing is abandoned: no     *)
(* packet is left in q, no request is left in req_vec untested, and no    *)
(* inline buffer is left allocated.  It rests on each FINALIZE being a    *)
(* quiet that is signalled only once its workgroup's count is zero.       *)
NoAbandon ==
  thread = "exited" => q = << >> /\ req = << >> /\ inlineBufs = {}

(* initTransport returns: the host gets past its spin on transport_up.     *)
InitReturns == host = "spawned" ~> host = "running"

(* The backend shuts down: finalizeTransport's join eventually returns.   *)
ShutdownCompletes == <>(host = "joined")
=============================================================================
