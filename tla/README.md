# TLA+ models of the ROC_SHMEM reverse-offload transport and team pool

This directory holds TLA+ models of the host-side parts of ROC_SHMEM in
`src/`, with the TLC configurations that check them. `PROJECT.json` lists
the components, the runs, the mutants, the map from each definition to the
source lines it models, the findings and the hazards.

## 1. Inventory

### Components and their state

| Component | Source | State | Operations |
|---|---|---|---|
| RequestQueue | `transport.cpp` `insertRequest`, `submitRequestsToMPI` | `q`, `q_wgid` (two `std::queue`s), `queue_mutex` | push under lock (many producers); pop under lock (one consumer). `q.empty()` is tested **without** the lock |
| ProgressEngine | `threadProgressEngine` | `transport_up`, `handle->done_flag` | loop: `submitRequestsToMPI(); progress();` until `done_flag` |
| Transport issue ops (MPI backend) | `putMem`, `getMem`, `reduction`, `broadcast`, `team_*`, `barrier`, `amoFOP`, `amoFCAS` | `req_vec` + `req_prop_vec` (index-parallel), `outstanding[wg]` | issue a non-blocking MPI call, push one tracking entry, `outstanding[wg]++`. Atomics are synchronous: they set `status` at once and are not tracked |
| CompletionTracker | `progress`, `quiet` | `outstanding`, `waiting_quiet[wg]`, device `status[wg][thread]` | `MPI_Testsome` over the first `INDICES_SIZE` requests. For each completed one: decrement, set status if blocking, free inline buffer, release quiet waiters at zero. Then erase in descending index order. `quiet` signals at once or registers a waiter |
| Communicator cache | `createComm` | `comm_map` | lookup; world shape → `MPI_Comm_dup`; other shapes → rank list with stride `2^(logPstride)` → group → communicator; insert |
| Team slot pool (GPU IB backend) | `backend_ib.cpp` `teams_init`, `create_new_team`, `team_destroy`, `get_ls_non_zero_bit` | per-PE `pool_bitmask_`, `reduced_bitmask_` | collective create: AND all-reduce, least significant set bit, clear locally; TOO_MANY_TEAMS if none. Destroy is local: set the bit |
| GPU IB start-up and teardown | `GPUIBBackend` constructor and destructor, `init_mpi_once`, `roc_shmem_collective_init`, `teams_init`, `thread_func_internal` | `barrier_sync`, team pSync pools | a fixed sequence per PE with blocking MPI collectives (`MPI_Comm_dup`, `MPI_Barrier`, `MPI_Comm_free`) and fill loops |
| Client tests `shmalloc`, `bcast_flood` | `src/clients/sos_tests/` | int sizes and counts, loop counters, `ps` | parse sizes (`getSize`, `atoi_scaled`), allocate, loop |
| Not modelled | OpenSHMEMTransport (`#ifdef`), contexts, ROTeamProxy, `MPITransport::createNewTeam`, `pi`, `put1`, `empty_tester` | | see section 6 |

### How they interact

Host threads call `insertRequest` for packets the GPU posts (producers). The
single progress thread pops them (consumer), issues MPI operations and polls
them. The progress thread is the only writer of the tracking vectors, the
counters, the waiter lists and the device-visible status flags. Device
threads spin on their status flag. Collectives resolve a communicator through
`createComm`. On the GPU IB backend, team creation runs one `MPI_Allreduce`
over the new team's communicator, in the calling thread, between the
constructor's return and the destructor. Each team's slot indexes the pSync
pools that `teams_init` filled.

### What is hard

- The producers and the consumer interleave. Because of the unlocked
  `q.empty()`, the consumer can miss a packet for a pass.
- The MPI library completes requests in any order. Only the first
  `INDICES_SIZE` requests are tested. Several completions in one batch are
  erased from two parallel vectors by index.
- Quiet is correct only through the per-workgroup count. FIFO dispatch has to
  account for every earlier packet of the workgroup before the quiet runs.
- Team slots are agreed without any extra round. Destroys are local and not
  synchronised, so members' bitmasks differ, and the AND has to cover that.
- Numeric edges: `2^(logPstride)` is XOR; a size-0 VLA; the `wg_id == -1`
  index; a missing return in `get_mpi_op`; a fill loop bounded by
  `num_pes` over an array of a fixed size; int wrap in the clients' size
  arithmetic.
- Across PEs: `createComm` runs a blocking collective on the progress
  thread, and MPI matches collectives on one communicator by issue order.

### Correctness properties per component

- Tracker: each counter equals the number of tracked entries of its
  workgroup, and each inline buffer is live exactly while its request is
  tracked (`TrackingConsistent`). A status flag is raised only for a
  completed operation. For a quiet, it is raised only after every earlier
  operation of its workgroup has completed (`SignalSound`). The engine
  implements the abstract completion service, so every posted operation
  completes and every spinning thread is released (`ImplementsQuietSpec`).
- Communicator cache: a communicator has the members its shape names
  (`GroupMatchesShape`, **violated**). A repeated shape gets the same handle
  back (`CreateCommIdempotent`, stated but not run: the checked budget
  goes to the cross-PE properties).
- Team pool: a bitmask bit is set exactly when the slot is free locally
  (`PoolMatchesTeams`). Members agree on the slot, and no PE holds two teams
  on one slot (`SlotAgreed`). Both are checked on the byte-level model,
  whose refinement of TeamPool (`ImplementsTeamPool`) also makes
  TOO_MANY_TEAMS possible only when no common slot is free: a step that
  reports it must be TeamPool's TOO_MANY step, which needs an empty AND.
- GPU IB start-up: `barrier_sync` is written only inside its allocation
  (`BarrierSyncInBounds`, **violated** past ROC_SHMEM_BARRIER_SYNC_SIZE
  PEs). No PE gets past a set-up barrier before every PE's sync arrays are
  initialized (`SyncReadyAfterBarrier`). Every team a PE holds sits on a
  slot whose pSync slices every member filled (`TeamSlotsInitialized`).
- Clients: the buffer `shmalloc` allocates holds nProcs × nWords longs
  (`AllocSizeExact`, **violated**). `bcast_flood` broadcasts the element
  count `-e` writes (`ElementsAsWritten`, **violated**).
- Across PEs: every kernel's collectives complete (`CollectivesComplete`,
  **violated** with cold communicator caches).

## 2. Modules

- **ROTransport.tla** models the queue, the progress thread and the tracker.
  - Variables:
    - `q` stands for `q`/`q_wgid`.
    - `req` stands for `req_vec`/`req_prop_vec`, with one record per index.
    - `outstanding`, `waitingQuiet` and `status` are the code's own.
    - `inlineBufs` holds the malloc'ed `RO_NET_P` buffers.
    - `pc` is where the progress thread is in its loop.
  - Actions:
    - `SubmitRequestsToMPI` is the whole pop-and-dispatch. It has one
      disjunct per call: `PutMem`, `GetMem`, `Collective`, `Barrier`, `Amo`
      and `Quiet`.
    - `SubmitEmpty` is the early return on `q.empty()`. It is allowed even
      when a packet is queued, because the test is unlocked.
    - `ProgressProbe` and `ProgressTest` are the two branches of
      `progress()`.
    - `ProgressTest` folds `CompleteOne` over the completed indices in
      ascending order, then erases them in descending order
      (`EraseCompleted`).
  - Environment:
    - `DeviceIssue` and `DeviceResume` are the GPU threads. They are modelled
      from the spec, because the device code is not in `src/`.
    - `NetworkComplete` is MPI finishing a request.
    - `awaiting`, `issued`, `quietPrior` and `done` are history used to state
      the properties.
- **CommCache.tla** models `createComm`.
  - `GroupRanks` is a recursive transcription of the rank loop. It uses the
    code's `2 ^^ logPstride` (XOR).
  - `ActiveSet` is the reference active set.
  - An out-of-world rank leads to the NET_CHECK exit.
- **TeamPool.tla** models the GPU IB slot pool. A bitmask is modelled as the
  set of its set bits.
  - `CreateNewTeam` is one step for all members of the group: the
    `Allreduce`, each member's `PickSlot` by `GetLsNonZeroBit` (the recursive
    scan of `get_ls_non_zero_bit`), and the local clear.
  - `TeamDestroy` is per PE.
  - Team handles come from a small set, and a handle is reused once no PE
    holds it.
- **OpConversion.tla** models `get_mpi_op`, `convertOp` and `convertType`
  as tables (`OpTable`, `TypeTable`), and the dispatches that use them:
  `AmoFOP`, `Reduction` (both reduction calls) and `Broadcast` (both
  broadcast calls). `Unmapped` stands for any code outside the switch. The
  missing default return of `get_mpi_op` is a choice over every MPI_Op
  value and an `Invalid` handle; an invalid handle makes the MPI call fail
  and the process exit.
- **QuietSpec.tla** is the abstract completion service that spec §4.3 and §5
  describe. It has no queue, no vectors and no counters. A thread posts; a
  blocking post waits for its own id, and a quiet waits for the ids its
  workgroup posted earlier. `Serve(C, R)` completes the ids C and raises the
  flags of the ready threads R. ROTransport's `QS == INSTANCE QuietSpec WITH
  ...` maps `posted` to `issued`, `completed` to `done`, `blocked` and
  `waitFor` to `awaiting` and `quietPrior`, and `flag` to `status`.
  `ImplementsQuietSpec` is `QS!ASpec` with its fairness.
- **ROLifecycle.tla** extends ROTransport with the thread's life:
  - `ThreadStart` sets `transport_up`.
  - `InitSpin` is the host's `while (!transport_up);`. The constant
    `SpinBuild` says whether the build rereads the racy flag or loads it
    once.
  - `LoopStep` is one step of the loop, which tests `done_flag` before
    `submitRequestsToMPI`; `ThreadExit` leaves the loop.
  - `HostTeardown` sets `done_flag`, and `FinalizeTransport` is the join.
  - The device kernels end with one FINALIZE per workgroup
    (`LDeviceIssue`). They and the backend teardown are not in `src/` and are
    modelled from the spec.
- **QuietStarvation.tla** extends ROTransport with `DevicePost`. It takes any
  id that no queued, tracked or awaited packet holds (`HeldIds`), so ids are
  reused and posting can go on without end. The engine is ROTransport's.
- **MultiPECollective.tla** models active-set reductions across PEs. Each
  PE has its queue `q`, its progress thread's current `createComm` (`eng`),
  its `comm_map` (`cache`), and the collectives it has issued per shape
  (`issuedOn`, `reqs`).
  - `Dispatch` pops a TO_ALL packet. On a cache hit it issues (`Issue`);
    on a miss the thread enters the creation and blocks.
  - `CommCreate(s)` is `MPI_Comm_dup`/`MPI_Comm_create_group` returning on
    every member of `s` once all are inside it.
  - `Complete` is `progress()` seeing the n-th collective on a
    communicator done once every member has issued its n-th.
  - `DevicePost` (from the spec) is a workgroup posting its next collective
    and spinning.
- **TeamPoolBytes.tla** models the team pool at the level of the `char`
  arrays: `SetBit`, `ClearBit`, `IsSet` and `LsBitFrom` do the
  `/ CHAR_BIT` and `% CHAR_BIT` arithmetic, `BitmaskSize` rounds up, and the
  allreduce is a byte-wise AND (`FoldSet`). `CharBit` is a constant, 2 in
  the run, so three slots span two bytes. `TP == INSTANCE TeamPool WITH`
  reads each array as its set of set bits, and `ImplementsTeamPool` is
  `TP!Spec`. `PoolMatchesTeams` and `SlotAgreed` are TeamPool's, read
  through `TP`.
- **IBBackendInit.tla** models the GPU IB backend's life on every PE as the
  sequence `Steps`. `Enter`/`Leave` are the blocking collectives: a PE
  leaves only when every PE has entered. `CollFill` is the `barrier_sync`
  loop of `roc_shmem_collective_init` over `i < num_pes` in an array of
  `BarrierSyncSize` longs. `TeamsFill` is the pool loop of `teams_init`,
  and `TeamsDestroy` is the destructor's `teams_destroy`.
- **IBBackend.tla** composes the two: `Boot == INSTANCE IBBackendInit` and
  `Pool == INSTANCE TeamPoolBytes` over the variables of both.
  - `BootStep` is a start-up or teardown step.
  - `CreateTeam(g)` is `Pool!CreateNewTeam(g)` once every member is `"up"`.
  - `DestroyTeam` is `Pool!TeamDestroy` on a PE that is up.
  - The application calls the team routines from the thread that ran the
    constructor, so teams live only between the two.
  - The properties of both modules are restated through `Boot!` and
    `Pool!`.
- **CInt.tla** is 32-bit int arithmetic inside TLC's range: `Int32Mul`
  (16-bit halves), `Int32Scale` (a shift by up to 30 bits) and `Int32Add`.
- **ShmallocTest.tla** models `shmalloc.cpp`:
  - `GetSize`;
  - the three positional arguments, with their defaults and the `usage()`
    exits;
  - `-p`;
  - one `Pass` per loop iteration, with the int `result_sz`
    (`ResultSize`), the allocation-failure exit and the growth of `nWords`.
- **BcastFlood.tla** models `bcast_flood.cpp`:
  - `AtoiScaled`;
  - the getopt loop (`ReadOpt`);
  - the int scaling of `ps_cnt` and the allocations (`Allocate`);
  - the broadcast loop, with its pSync rotation (`NextPs`).
- **MC\*.tla** modules give the model values and the kinds and shapes that
  are enumerated.

## 3. Runs

| Run | Checks | Bounds | Result |
|---|---|---|---|
| `transport_dispatch` | TypeOK, TrackingConsistent, SignalSound | 2 WGs × 2 threads; every dispatch class; 3 packets; INDICES_SIZE 2; symmetry | pass |
| `comm_shape` | GroupMatchesShape | world 4, six shapes | **violation**: shape (0,0,2) → members {0,2} |
| `conv_atomic` | UnmappedIsFatal | atomics with mapped and unmapped ops and types | **violation**: `get_mpi_op` returns a valid but wrong MPI_Op |
| `lifecycle` | NoAbandon, InitReturns, ShutdownCompletes, ImplementsQuietSpec (refinement, fairness included) | 2 WGs × 2 threads; P, PUT_NBI, QUIET, FINALIZE; 4 packets; rereading spin | pass (57,523 states, about 2 min) |
| `lifecycle_hoisted` | InitReturns | same, hoisted spin | **violation**: the host reads the flag before the thread sets it, and hangs |
| `quiet_starvation` | QuietEventuallyReleased | 1 WG × 2 threads; PUT_NBI, QUIET; 3 reusable ids | **violation**: a quiet starves while the other thread keeps puts in flight |
| `multipe_warm` | CollectivesComplete | 3 PEs × 2 WGs; shapes Pair {p1,p2} and World; World cached, Pair built on first use | pass (1,084 states) |
| `multipe_cold` | CollectivesComplete | same, comm_map cold | **violation**: p1 inside create_group(Pair) while p2, p3 are inside dup(World) |
| `ib_backend` | BarrierSyncInBounds, SyncReadyAfterBarrier, PoolMatchesTeams, SlotAgreed, TeamSlotsInitialized, ImplementsTeamPool | 3 PEs, BARRIER_SYNC_SIZE 3, 3 slots, CHAR_BIT 2, groups {p1,p2},{p2,p3},{p1,p2,p3}, 2 handles | pass (86,359 states) |
| `ib_init_overflow` | BarrierSyncInBounds | 3 PEs, BARRIER_SYNC_SIZE 2 (IBBackendInit alone) | **violation**: barrier_sync[2] written |
| `shmalloc_large` | AllocSizeExact | `80M 1`, 8 PEs | **violation**: result_sz 1073741824, not 5368709120, and the pass goes on |
| `bcast_large` | ElementsAsWritten | `-e 5g -l 2` | **violation**: 2^30 elements |

Why the bounds are enough:

- An `INDICES_SIZE` of 2 with up to 3 tracked requests covers both a
  completion outside the Testsome window and two completions in one batch.
  The descending erase matters only in the second case.
- Two threads per workgroup let one workgroup have a quiet waiting while the
  other thread's operations are still in flight.
- Three slots and overlapping groups make the members' bitmasks differ after
  local destroys. They also exhaust the pool, so TOO_MANY_TEAMS occurs.
- In MultiPECollective, two shapes (one a proper subset) and two workgroups
  per PE are the least that gives two PEs two uncached shapes in opposite
  queue orders. p3 belongs only to World, so it waits in `dup` while p1 and
  p2 can disagree.
- `CharBit` 2 with 3 slots puts slot 2 in a second byte and leaves a spare
  bit, so the rounding of `bitmask_size_` and the byte index are both used.
- Two handles are enough for the pool. Every group contains p2, so at most
  two teams besides TEAM_WORLD are live, and a failing create needs no
  handle.
- Three PEs pass through each collective of the backend start-up in every
  order; a BARRIER_SYNC_SIZE equal to the PE count is the edge where the
  off-by-one of the loop shows.

Every property of a passing run has a mutant in `PROJECT.json`: a faulty
variant of a mapped definition that TLC shows violates it. The variants are:

- erasing in ascending order (TrackingConsistent);
- a quiet that does not wait (SignalSound, NoAbandon);
- a quiet that registers the workgroup id as the waiter (TypeOK);
- a completion that always raises the status flag (ImplementsQuietSpec);
- a thread that never sets `transport_up` (InitReturns);
- a teardown that joins without setting `done_flag` (ShutdownCompletes);
- a dispatch that skips the `comm_map` lookup and always creates
  (CollectivesComplete);
- a `bitmask_size_` that rounds down (ImplementsTeamPool; a bit scan that
  stops one bit short, reporting TOO_MANY_TEAMS with the last slot free,
  breaks it too);
- a destroy that does not release the slot (PoolMatchesTeams);
- skipping the allreduce (SlotAgreed);
- a `barrier_sync` loop that runs to `i <= num_pes` (BarrierSyncInBounds);
- a set-up collective that returns before every PE has entered
  (SyncReadyAfterBarrier);
- a pool loop of `teams_init` that stops one team short
  (TeamSlotsInitialized).

Three reusable ids are enough for the starvation lasso: one for the quiet
and two for puts that overlap, so the count never falls to zero.

## 4. Fairness

`threadProgressEngine` runs for the life of the backend, so both halves of
its loop are weakly fair. The dispatch step is strongly fair. The unlocked
`q.empty()` can miss a packet on one pass, but a stale read is not stale
forever. The spec (§5) says every issued MPI request eventually completes,
so `NetworkComplete` is weakly fair. No fairness is assumed for the device
threads or for team creation.

In `ROLifecycle` the progress thread is a running OS thread, so its start,
its loop halves and its exit are weakly fair, and the host's spin and join
are too. The device side is fair only where the spec requires it: a
released thread resumes, and each workgroup eventually posts its FINALIZE.
In `QuietStarvation` the device threads get no fairness. The starving
behaviour only needs them to keep posting, which they may do.

In `MultiPECollective` each PE's progress thread dispatches and polls
(weak fairness on `Dispatch` and `Complete`). MPI returns from a
communicator creation once every member is inside it (weak fairness on
`CommCreate`). A kernel's workgroup whose flag is down posts its next
collective (weak fairness on `DevicePost`): the kernels are SPMD programs
that run to the end. The cfgs disable the deadlock check, because the
system stops once every kernel is done. A premature stop shows up as a
violation of `CollectivesComplete`.

The lifecycle run checks `ImplementsQuietSpec` under ROLifecycle's
fairness, as above. QuietSpec's fairness makes every posted id complete and
every ready thread be released, so every spinning thread is released.

`IBBackendInit`, `IBBackend` and the clients have safety properties only.
Their cfgs disable the deadlock check, because every PE ends at
`finalized` and the programs exit.

## 5. Findings

`createComm` (transport.cpp:391) computes `int stride = 2^(logPstride);`,
which is XOR. Shape `(start 0, logPstride 0, size 2)` builds a communicator
over PEs {0, 2} rather than {0, 1}. A shape whose wrong ranks fall outside
the world makes `MPI_Group_incl` fail, and the process exits. Every
non-world reduction and broadcast is affected.

`get_mpi_op` (transport.cpp:58) has no return on its default path. An atomic
with an unmapped operator code gets whatever the register holds, so it may
get a valid but wrong MPI_Op instead of the fatal error that spec §7
requires (`conv_atomic`).

`initTransport` (transport.cpp:320) spins on the plain bool `transport_up`,
which is a data race. A build that loads it once hangs if the thread has not
started yet (`lifecycle_hoisted`).

`progress()` (transport.cpp:754) releases quiet waiters only when
`outstanding[wg]` is zero. That count includes requests posted after the
quiet, so steady non-blocking traffic from other threads of the workgroup
starves the quiet (`quiet_starvation`). Spec §5 says every enqueued
operation eventually completes.

`createComm` (transport.cpp:384, 398) builds a missing communicator with
a blocking collective on the progress thread. Workgroups of a kernel post in
any order, so two PEs can reach two uncached shapes in opposite orders. Each
then waits inside a creation the other never enters, and nothing on either
PE progresses (`multipe_cold`). The same workload with only one shape
to build completes, because every member then enters the same creation
(`multipe_warm`).

`roc_shmem_collective_init` (backend_ib.cpp:485) fills `barrier_sync[i]`
for `i < num_pes` in an array of `ROC_SHMEM_BARRIER_SYNC_SIZE` longs. Past
that many PEs it writes outside the block (`ib_init_overflow`).

`shmalloc.cpp:205`: `result_sz` is an int. With 8 PEs × 80M words the
5 GiB product keeps its low 32 bits, 1 GiB, while `target_sz` and
`source_sz` (640 MiB and 1280 MiB) still fit an int. Every allocation
succeeds and the pass goes on with a result buffer a fifth of the size
(`shmalloc_large`). With fewer PEs and more words, say 2 × 300M,
`result_sz` wraps too, but `target_sz` is then negative and the test exits
on the failed allocation instead. `bcast_flood.cpp:218`: `atoi_scaled` casts to
int, so `-e 5g` broadcasts 2^30 elements (`bcast_large`).

## 6. Not modelled yet, and the plan

Done: the progress-thread lifecycle (`ROLifecycle`), the abstract
completion spec and its refinement (`QuietSpec`), the conversions
(`OpConversion`), quiet starvation (`QuietStarvation`), multi-PE
collectives (`MultiPECollective`), the byte-level pool (`TeamPoolBytes`),
the GPU IB start-up (`IBBackendInit`), its composition with the pool
(`IBBackend`) and two client tests. Next: a multi-PE transport with the
Testsome window, that is, MultiPECollective with ROTransport's
`INDICES_SIZE` window and mixed put and collective traffic.

Not modelled, and why:

- Team creation on the GPU IB backend is one step in TeamPool. It runs on
  the application's thread in the order OpenSHMEM makes every PE call the
  team routines, so there is no crossed order to explore.
- `MPITransport::createNewTeam` only constructs an ROTeam in device memory.
- ROTeamProxy only constructs. It builds an `MPITransport`, dups its world
  communicator and placement-constructs an ROTeam. On destruction it frees
  that dup. Its owner, the RO backend, is not in `src/`. The embedded
  transport's own dup of `MPI_COMM_WORLD` (transport.cpp:79) is never freed,
  because `~MPITransport` only deletes `indices`. This leak is listed as a
  hazard.
- Two workgroups of a PE running collectives over the same active set
  share one communicator, and MPI matches those calls by each PE's issue
  order. The spec does not say whether such use is allowed, so no property
  is checked. MultiPECollective gives each workgroup its own shape.
- `pi.cpp` is floating-point sampling with `rand()`. `put1.cpp` is one put,
  a barrier and a compare through the host API, whose code is not in
  `src/`. `empty_tester.cpp` creates and destroys a context in a kernel.
- `getSize`'s shift (shmalloc.cpp:116) and the `ps_cnt` scaling
  (bcast_flood.cpp:127) wrap as well. Both are modelled, but each client
  has one run, spent on the wrap that reaches the allocation or the
  broadcast.

Left out on purpose:

- the OpenSHMEM backend, which is synchronous and behind an `#ifdef` that
  does not match its interface;
- device memory set-up and IPC/network initialisation.
