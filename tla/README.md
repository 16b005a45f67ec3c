# Riner in TLA+

Riner is a GPU miner in C++: pools hand out works, algorithm implementations
look for nonces on the GPUs, and the solutions go back to the pools. Almost
everything in it is concurrent: each pool has an I/O thread, each GPU a thread
and some subtasks, and there are threads that refill queues, check whether the
pools are alive, run tasks and serve an API. They talk through atomics, condition
variables, a hand-written upgradeable lock, weak pointers and queues of
callbacks. This directory models those threads and what they share, and the
program around them from its arguments to its end. Paths below are relative to
`src/src/`.

- [The system](#the-system)
- [Modules](#modules)
- [Runs](#runs)
- [Fairness](#fairness)
- [Proofs](#proofs)
- [Where the code differs from what is said of it](#where-the-code-differs-from-what-is-said-of-it)
- [Not modelled](#not-modelled)
- [Plan](#plan)

## The system

| Component | State | Operations | Talks to | What is hard | What makes it correct |
|---|---|---|---|---|---|
| Work queues (`pool/WorkQueue.h`, `pool/Work.h`) | deque of jobs, buffer of ready works, `latestJobId` (atomic), `shutdown`, condition variables | pushJob, tryGetWork / popWithTimeout, clear, expireJobs, the refill thread, destructor | pools push; GPU threads pop and ask their work whether it has expired | the refill thread makes works without the lock; all notifies come after the unlock; `expireJobs` uses no lock | one job in the buffer, nothing of an old job after a clean push, expiry is final, no lost wakeup, the newest job gets through |
| PoolSwitcher and Pool (`pool/PoolSwitcher.cpp`, `pool/Pool.cpp`) | list of pools, `active_pool` (weak pointer under a lock), per pool `_connected`, `_disabled`, `_isDead`, last sign of life | periodic check, tryAddPool, tryGetWork, submitSolution, destructor | reads flags the pools' I/O threads write; tells pools that they are dead; expires the works of a pool given up | flags are read one by one while they change; the notify of a state change uses another mutex than its waiters | the best usable pool becomes active, GPUs leave a pool that was given up, waiting GPUs are released, shutdown ends |
| Stratum pools (`pool/PoolEthash.cpp`, `pool/PoolGrin.cpp`) | `cxn`, `acceptMiningNotify`, current job or template, authorised or not | login, job notifications, submit share, onDeclaredDead | JSON-RPC calls, work queue, statistics | shares travel across lost connections, late answers and disconnectAll | a share is counted once, is submitted only after the login and is not forgotten |
| JSON-RPC calls (`network/JsonRpcUtil.cpp`, `network/JsonRpcHandlerMap.cpp`) | handlers of pending calls, retries | callAsync, callAsyncRetryNTimes, response | BaseIO | an answer races with the repetition and with the last timeout | each call ends, with one of its two callbacks |
| BaseIO client (`network/BaseIO.cpp`) | `_shutdown`, `_hasLaunched`, the io_service, its thread, retries under way | launchClientAutoReconnect, disconnectAll, callAsync, destructor | runs the handlers of the pools | the owner stops, resets and restarts the service from another thread; reconnects launch themselves | never two clients, nothing connects after disconnectAll, the owner is not blocked, a reachable host is reached |
| JSON-RPC messages (`network/JsonRpc*.cpp`, `JsonIO`, `IOTypeLayer`) | method tables, incoming buffers | parse, classify, invoke, answer | BaseIO, pools, API | lines that are no message, requests without an id, missing or mistyped arguments | each request is answered as the standard says |
| AlgoEthashCL (`algorithm/ethash/`) | DAG cache (shared by all GPUs), per GPU a DAG with its buffer, subtasks, `shutdown` | gpuTask, gpuSubTask, submitShare, destructor | pool's queue, UpgradeableLockGuarded, TaskExecutorPool, OpenCL | several GPUs change the cache while executors hash with it; buffers outlive epochs; allocations fail | a GPU mines with the DAG of its work, shares are judged with the right cache, all threads end |
| UpgradeableLockGuarded (`util/LockUtils.h`) | `mut`, `upgradeMut` | readLock, immediateLock, upgrade, downgrade | used by AlgoEthashCL | an upgrade lets go of the shared lock first | a writer is alone, nothing changes between the check and the upgrade, no deadlock |
| TaskExecutorPool (`util/TaskExecutorPool.cpp`) | queue of tasks, `shutdown` | addTask, workers, destructor | used by AlgoEthashCL and AlgoCuckatoo31Cl | notify after the unlock | no task is overlooked, the join returns |
| Cuckatoo solver (`algorithm/grin/`) | edges alive on the device, the graph as two hash tables, bitmaps, per GPU a thread and the future of its last task | rounds, prune, findCycles, AlgoCuckatoo31Cl's threads and tasks | pool's queue, TaskExecutorPool, OpenCL | full buckets, repeated edges, long sequences of operations; tasks that refer to objects of other threads | exactly the cycles of the graph; no task outlives its solver |
| OpenCL programs (`compute/opencl/CLProgramLoader.cpp`) | programs under construction | compileCLFile | AlgoEthashCL, AlgoCuckatoo31Cl | callback of the driver against a wait | the wait ends |
| Statistics (`statistics/`) | tree of nodes with listeners and moving averages | addListener, report, reset | everybody reports, the API reads | a report changes several nodes one after the other | nothing is lost between a node and its listener |
| Command line (`application/CLI.cpp`) | | expand, reject and look up arguments, the tutorial's file | Main | arguments without values, combined letters, several of a name | what is documented of the arguments |
| Configuration (`config/`, `util/ConfigUtils.cpp`, `application/RegistryImpl.cpp`) | the parsed configuration, the tables of the registry | parse, default values, validate, which task, implementation and pool for which device | Application | defaults, names that differ in case, tasks for all remaining devices | each device gets the task documented for it, no unusable setting gets to a GPU |
| Application and shutdown (`application/`) | active profile, algorithms, switchers, devices in use, shutdown flags and future | launchProfile, destruction, signals | owns everything | order of construction and destruction, a second signal during the shutdown | threads end before what they use is destroyed, a signal ends the process |
| API server (`application/ApiServer.cpp`) | connections, the request being answered | getGpuStats, getPoolStats, ... | Application's locks, statistics | requests during the launch and the end; answers in order | requests are answered or the connection is given up |

The rest (device enumeration, GPU control, hashes, kernels, number and text
conversions, the dummies, sockets, logging) keeps no state of its own worth a
model, or is pure input and output.

How they interact: a pool's I/O thread (BaseIO) receives jobs (stratum) and
pushes them into the pool's work queue. The pools tell the PoolSwitcher of
changes; its thread chooses the active pool. GPU threads (AlgoEthashCL) ask the
switcher for work, which asks the active pool's queue, and submit shares to it;
the pool posts them to its I/O thread, which calls the server and repeats the
call until it is answered. When a pool is declared dead, the switcher's thread
disconnects it and lets it connect anew. `main` loads a configuration, owns all of
this in an Application, and waits for a signal.

## Modules

`WorkSource`, `SharedCache` and `ShareDelivery` are abstract specifications: what a queue
promises its users, what a cache promises the threads that check, replace and use it,
and what a pool promises of a share. The other modules are translations of the code. Constants carry named assumptions,
program counters are functions over the actors, a step is one critical section
or one access to an atomic wherever somebody could tell the difference.

| Module | Component | State and actions |
|---|---|---|
| `WorkSource` | a pool's queue as the algorithms see it | `offered` job, whether its works are `fresh`, the `work` each GPU holds. Jobs are offered in the order of their ids, works expire all together and for good |
| `WorkQueue` | `WorkQueue` | the job deque, the buffer, `latestJobId`, and the program counters of the owner, the GPU threads and the refill thread. `RefillBegin` is the critical section before the works are made, `RefillStore` / `RefillDiscard` the one afterwards; `OwnerNotify` and `PopNotify` are the notifies after the unlock. A work is known by the id of its job |
| `LazyWorkQueue` | `LazyWorkQueue` | `DrawId` and `EmplaceFront` are the two halves of pushJob, between which the lockless `expireJobs` may come |
| `PoolSwitcher` | `PoolSwitcher`, `Pool` | per pool the flags, the age of its last sign of life and its I/O thread; the check (`Top` .. `ResetPoolsChanged`) flag by flag; GPU threads in tryGetWork; the application that adds pools and closes. The queues are of either kind: of a `LazyWorkQueue` a push offers the new job at once, of a `WorkQueue` the refill thread does when it stores (`Refill`), perhaps after `expireJobs`. Works are told apart by their jobs only. That each pool is a `WorkSource` is proved (`PoolsAreSources`) |
| `BaseIO` | `BaseIO` as a client | the I/O thread inside and outside of `run()`, the one outstanding operation, the endpoints of a host, the owner in stopIOThread, disconnectAll and the destructor |
| `StratumPool` | `PoolEthash`, `PoolGrin`, `JsonRpcUtil`, `HandlerMap` | the login of each connection, and for each share its way from the GPU thread to the answer. The protocol is chosen in the initial state; a job is known by the connection it came from, and lives until it is out of the queue and no thread holds it any more (`JobDies`), so a share may be posted of a job the pool has dropped. The connection is what `BaseIO` makes of it: at most one, and disconnectAll ends it |
| `ShareDelivery` | the way of one share | where it is, what has been told of it, the requests the server has not answered, whether writing it reaches the server, and whether the server has accepted the login |
| `SharedCache` | the DAG cache as its users see it | its contents, who needs what, who uses them and who replaces them. A check and the write after it are one step to the others, and what is used does not change |
| `UpgradeableLock` | `UpgradeableLockGuarded` | who has `upgradeMut`, who shares `mut`, who has it alone. Operators, composed into `EthashAlgo` |
| `TaskExecutorPool` | `TaskExecutorPool` | the queue of tasks and where each worker is. Operators, composed into `EthashAlgo` and `CuckatooMiner` |
| `EthashAlgo` | `AlgoEthashCL`, `DagCacheContainer`, `DagFile` | extends the two above: the cache, per GPU its place in gpuTask and its DAG with what the buffer was allocated for, the subtasks, the executors in submitShare, the destructor; the wait in the switcher until there is an active pool (`AwaitPool`). Epochs are small numbers modulo `MaxEpoch + 1` in place of 32 bits |
| `CuckatooGraph` | `Graph` of the Cuckatoo solver | the two hash tables as counts of insertions per bucket and, per edge, how far from its first bucket it is; insertion, pruning with its two stacks entry by entry, and the search. Nodes are small numbers in place of 31 bits |
| `CuckatooSolver` | `CuckatooSolver::solve`, the kernels, `isValidCycle` | extends the graph: the rounds on the device (which edges are alive, the buckets of their nodes, partners), building the graph, the last pruning, the cycles translated back to edges |
| `CuckatooMiner` | `AlgoCuckatoo31Cl`, `CLProgramLoader` | extends `LazyWorkQueue` and composes it with `TaskExecutorPool`: per GPU the build of its program, its thread with the same wait for a pool, its rounds and the future of its task, and the destructor |
| `CommandLine` | `CLI.cpp` | operators: how arguments are expanded, rejected and looked up; the tutorial's file |
| `Configuration` | `Config.cpp`, `ConfigUtils.cpp`, `RegistryImpl.cpp` | operators: parse, defaults, checks, the task of a device, an implementation by name, the pools of a powType |
| `ShutdownState` | `ShutdownState.cpp` | the tasks that signals start, the future that holds the last of them, who waits for whom |
| `ApiServer` | the server side of `BaseIO`, `JsonIO`, `JsonRpcUtil`, `ApiServer` | connections, the message a handler is at, what has been answered and whether the socket has taken each answer at once (`Written`). The rest of one it has not is sent when the client reads (`SendRest`), while other answers are written |
| `Statistics` | `StatisticNode`, `PoolRecords` | counts per node, since the beginning and since a reset; who has reported where |
| `Application` | `Application`, `Main` | extends the five above: main from its arguments to its return, the launch task by task, algorithms and switchers with their locks, requests against both |
| `MCPoolSwitcher`, `MCEthashAlgo`, `MCCuckatooSolver`, `MCApplication` | | values of constants for TLC |
| `WorkQueueProofs`, `CuckatooMinerProofs` (with the lazy queue's), `PoolSwitcherProofs`, `BaseIOProofs`, `StratumPoolProofs`, `EthashAlgoProofs`, `CuckatooSolverProofs` (with the graph's), `ApplicationProofs` | | [proofs](#proofs) |

`PROJECT.json` names for each definition the lines it stands for.

Where modules meet: `WorkQueue` and `LazyWorkQueue` both implement `WorkSource`, and so
does each pool of `PoolSwitcher`;
`EthashAlgo` uses its pool through that promise only (a work is of the newest job),
`PoolSwitcher` has what matters of both queues to a switch, and
`CuckatooMiner` runs on the lazy queue itself. That a pool may never become active,
which `TryGetWorkReturns` is violated by, is in both algorithms. `EthashAlgo` is composed of its own
threads, the lock and the executors, each in its module; `CuckatooMiner` uses the
same executors. `Application` takes the algorithms and pools as things that are
constructed, run and destroyed (perhaps never), as their modules say.
`StratumPool` relies on what `BaseIO` is checked for: at most one client, no
handler while disconnectAll resets. Each of its shares takes a way that `ShareDelivery`
allows.

## Runs

All runs deal with every interleaving of the threads named, under the bounds given.
CHECK_DEADLOCK is off where the system may stop: after its destructor, or when
a server has sent all the jobs of the bound. `CuckatooSolver`, whose last step
repeats, is checked for deadlock.

| Run | Bounds | What it shows |
|---|---|---|
| `work_queue` | 2 GPU threads, 3 jobs, refill below 2 up to 3 works, 1 job kept, ids up to 4 | `IInv` (types, the buffer is bounded and of one job, nobody sleeps on a true predicate), `CleanPushDropsOldWork`; it implements `WorkSource`; `NewestJobIsOffered`; the destructor's join returns (`RefillThreadEnds`) |
| `cuckatoo_miner` | 2 GPUs with or without a device, 1 executor, 2 rounds, ids up to 2, 1 job kept | `MinerQueueInv`: a GPU has at most one task, no task outlives its solver or the algorithm, no executor sleeps through a task or the end, and the ids of the lazy queue are in order; the queue implements `WorkSource`; a thread that sleeps in the loader when the callback comes goes on (`LoaderWakes`); the destructor returns unless a thread is stuck there or waits for a first active pool (`MinerCloses`) |
| `pool_switcher` | 2 pools with queues of either kind, 1 GPU thread, the first pool sends 2 jobs and the second 1, dead after 0 ticks; connections do not break, and the application is not closed | `GpusLeaveOldPool`: after a switch no GPU keeps a fresh work of the pool that was given up, even if it copied the active pool before, unless the work is of a job the pool's queue came to offer after the switch; and its strengthening |
| `pool_switcher_live` | 2 pools with a job each and lazy queues, no GPU thread, not closed | `BestPoolBecomesActive`: if from some time on a pool is good and none above it is, it is active from some time on |
| `pool_switcher_one` | 1 pool that refuses logins, with a lazy queue, 2 jobs, 1 GPU thread | waiting GPU threads are released, silent and disabled pools lose their connection, the check never spins, the destructors end |
| `base_io` | 3 endpoints, 2 failed tries counted | `IInv` (the assertion of launchClient, no handler while resetting), `DisconnectAllIsFinal`, stopIOThread returns if the thread was in `run()`, and the client gets through if an endpoint but the last accepts |
| `stratum` | 2 shares, 2 tries, 3 connections, both protocols | a share is counted at most once, never forgotten, only sent after the login; an Ethash pool that says it is connected can submit (in `IInv`); every share settles; each share takes the way of `ShareDelivery` (`SharesDelivered`) |
| `ethash` | 2 GPUs with a subtask each, 1 executor, 2 jobs of epochs 2 or 4, 1 epoch ahead, 1 share | `IInv` (ownership of the lock, what each GPU knows of cache and DAG), `MinesWithRightDag`, `SharesJudgedRight`: a share is judged with a wrong cache only while some GPU has no DAG of its epoch; with its lock the cache implements `SharedCache`, whose upgrade and downgrade are atomic as `util/LockUtils.h` says; once there is an active pool, every GPU gets the DAG of the newest job unless the algorithm ends (`EveryGpuFollows`); the destructor returns unless a GPU waits for a first active pool (`AlgoCloses`) |
| `cuckatoo_solver` | 6 edges, each one of 6 pairs of nodes, repeated or not; tables of 4 buckets of 2 entries, device buckets of 3, 2 or 3 rounds, cycles of 4 | `IInv` (every entry is found, the tables agree), `NoDeadEndIsLeft`: the side left unpruned by the last round is right for either parity; `CyclesDelivered`: each cycle, defined as a set of edges, is handed out once and in a form isValidCycle accepts |
| `application` | lists of up to 2 tasks of 8 with two choices of pools and of 3 different ones, ten files that are incomplete or not valid, any two arguments of seven, what may be at the tutorial's path, up to 3 signals to any thread, two clients with two messages each of 13 kinds, two pools with 2 shares each | `AppInv`: a device belongs to one algorithm, settings that reach a GPU are usable, an algorithm has pools, a request never uses what is destroyed, shutdown tasks end before the process; `LaunchedAsDocumented` (config.proto, CLI.h); `AnswersInOrder`: none is missing or out of place before the first answer the socket does not take at once; `RecordsAddUp`; `SignalEndsProcess`; `RequestsAreHandled` |
| `get_work_waits_for_ever` | as `pool_switcher_one`, login accepted | violated: [below](#where-the-code-differs-from-what-is-said-of-it) |
| `last_endpoint_never_used` | as `base_io` | violated |

Why these bounds are enough for what they are about. Queues: a refill can be
overtaken by a push, an expiration and a pop, the buffer (3) can be full, half
full and empty, and a thread that copied job 1 can find job 3. Switcher: to
give a pool up, come back to it and hold a work fetched through a stale copy
takes 2 pools and 2 jobs of one of them; a refill that began before a switch and
stores after it, and a push of the second job in between, take no more. With
`DeadAfter` 0 a pool is alive or silent, with 1 it has been quiet for a while in
between. A connection that breaks changes the same flags as one that falls silent
and is disconnected, and is in the two other runs. BaseIO: 3 endpoints tell the first, the last and one
between; the failed tries only scale a delay, which is not modelled, and are
counted so that 'reset' differs from 'one more'. Stratum: 2 tries have a first,
a last and the timeout after it; 3 connections let a share outlive one and
meet the next; a second share lets one be tried while another is aborted, or be of
an older job than the other. The
Cuckatoo miner: one executor is busy while the other GPU asks for it, 2 rounds
have a first and a last, and 2 ids let a job be replaced or expired during a solve. Ethash:
two GPUs can disagree about the epoch, one of them holding the lock in each of
its modes while the other waits; epochs 2 and 4 are further apart than the buffer
is allocated ahead (1), so that both an allocation and a reuse happen; the unknown
epoch, what the sum of the code overflows at, is covered by the proofs. Cuckatoo:
6 edges are a cycle of 4 with a copy, a chord and a dead end; 3 entries for one
bucket overflow it, the last bucket overflows into the first, and a bucket of the
device drops a node. Application: three tasks are one for a device, one for the
remaining ones and one that cannot run, in any order; 3 signals are the first, one
while its task waits and one while the handler of that one blocks.

Each property was also tried on changed models (`mutants` in `PROJECT.json`): the
definition of one operation is replaced by a plausible mistake, and the
property is then violated under the same configuration.

## Fairness

Threads that can run do so; a mutex or lock is not withheld for ever from a thread
that asks again and again; nothing is assumed of networks, servers, users, or
of the demand for work.

- `WorkQueue`: weak fairness of the refill thread and of the two notifies, which
  are straight-line code of threads that run. Nobody has to push or pop.
- `PoolSwitcher`: weak fairness of each pool's I/O thread (between network
  events), of the check and of the clock, none of a refill thread; strong fairness where a step waits for a
  mutex others take in between (adding a pool, the wait of the check, tryGetWork,
  the destructor). That a GPU thread copies the active pool (`CopyActive`) is
  not assumed, nor any event of the network.
- `BaseIO`: weak fairness of the I/O thread and of the owner inside its calls;
  none of resolving, losing connections or starting disconnectAll. `GetsThrough`
  states its assumption about the network in the property.
- `StratumPool`: weak fairness of disconnectAll once begun and of GPU threads that
  have a share (a job need not die); strong fairness of the handlers and timers of a call, as
  disconnectAll interrupts them again and again. The server need not answer.
- `EthashAlgo`: weak fairness of the threads; strong fairness of taking
  `upgradeMut` (`LockCache`, `LockToRead`): the mutex is free again and again and
  not withheld; and strong fairness of `CacheGenerated`: a GPU task tries again
  after `bad_alloc`, and the memory is assumed to be found at some time. A kernel
  need not find a share. A GPU that waits for an active pool goes on once there is one
  (`GpuIsReleased` of the switcher); nothing says that there ever is one, or a job.
- `CuckatooMiner`: weak fairness of the threads once they have a work, of the
  driver and of the destructor once begun, and of the return from the wait for an active
  pool. Nothing is assumed of the pool, that it ever is active, of the
  demand for works, or that the algorithm is ever closed.
- `Application`: weak fairness of main outside of the launch and of the destructors
  of algorithms, of the handlers of signals, of the shutdown tasks (their ten
  seconds pass) and of the API's thread. Clients need not read (`SendRest`). The drivers called by a launch, and the
  destructor of an algorithm (see `get_work_waits_for_ever`), need not return.

## Proofs

TLAPS checks the `*Proofs` modules for every value of the constants that
satisfies the named assumptions (`WorkQueueAssumption` and so on: mostly that
bounds are numbers; for `EthashAlgo` also that an epoch plus the epochs ahead
stays below the unknown epoch; for `CuckatooMiner` that there is an executor). In
each, an inductive invariant `IInv` is shown
to hold initially and to be preserved by each action; properties are then
consequences of it, or of it and one step.

- `WorkQueueProofs`. The properties alone are not inductive: what the refill thread
  stores was decided before it gave the lock up. `RefillInv` relates what it
  copied (`refillId`, `hasNewJob`, `room`) to what the queue may have become;
  `IdInv` orders the ids: nothing offered is newer than the newest push or the
  counter. From this: the buffer is of one job and bounded, `CleanPushDropsOldWork`,
  `NoLostRefillWakeup`, `ExpiredStaysExpired` (the last two by proof only), and that every step is a step of
  `WorkSource` or stutters (`QueueImplementsSource`).
- `CuckatooMinerProofs`. Of the lazy queue, `IdInv` says that the counter is past the
  last job offered only if that job was expired, also when `expireJobs` comes between
  the two halves of a push; from this `ExpireJobsExpiresAll`, and that every step is a
  step of `WorkSource` or stutters. `MinerInv` is inductive: as a GPU adds a task only
  when its future is not pending, a task is the only one of its GPU, so a GPU is known
  to have none when its thread ends, and none is left when the executors are stopped
  (`TasksHaveTheirSolver`); with the invariant of the queue it is `MinerQueueInv`. Every step is a step of the lazy queue or leaves it alone,
  so what is proved of the queue holds here (`MinerUsesQueue`).
- `PoolSwitcherProofs`. `GpusLeaveOldPool` needs to know of all pools, not only of those
  a GPU has works of, that a pool neither active nor about to be expired has fresh
  works only of jobs its queue came to offer since it was given up (`FloorInv`), and what the check
  remembers of the active pool at each of its places (`ThreadInv`). `FloorInv` rests on
  jobs being offered in their order, also by a refill that was overtaken by pushes,
  clears and expirations (`QueueInv`): what it stores is newer than all that was offered
  before. The same makes each pool a `WorkSource` to the GPU threads (`EachPoolIsSource`):
  what one step does to all pools is shown pool by pool, where it is a step of
  `WorkSource` or none. No run checks this; TLC does if `PoolsAreSources` is
  added to `MCPoolSwitcher.cfg`.
- `BaseIOProofs`. `IoInv` says which flags the owner has set by where it is and that
  no client counts as launched when no operation is outstanding; from this the
  expectation of launchClient, that disconnectAll is final and that no handler
  runs while the owner resets the service.
- `StratumPoolProofs`. `CallInv` relates for one share the handler map, the retries,
  the flag they share and what the callbacks were told; `LoginInv` relates the
  login to the connection it was made on. While the pool counts as connected its queue
  has jobs of the current connection only (`QueueOfConnection`); a job that a thread
  holds may be of an older one, and nothing rests on its end. Most steps touch one share, so the
  proof goes share by share. So does that of `SharesDelivered`: for each share, a step of
  the pool is a step of `ShareDelivery` or none. It needs that an answer on its way to a share
  nobody has been told of still finds the handler in the map, and that none is on
  its way after an abort. What `ShareDelivery` does not know of, the numbers of
  connections, is what keeps a call from a connection without login.
- `EthashAlgoProofs`. `OwnerInv` says by where a thread is what it holds of the lock;
  `CacheInv`, that between the check and the last use of the cache nobody else has
  changed its epoch, although upgrade and downgrade both let go for a moment, and that
  what the check found is still so when the GPU is alone with the cache;
  `SubInv` and `DagInv`, that subtasks only run while their GPU waits for them and
  that the buffer is allocated for the DAG's epoch; `LastChangeInv`, that the GPU
  that changed the cache last, if it mines, mines for the cache's epoch. From this
  `MinesWithRightDag`, `NoTaskOverlooked` (by proof only) and `SharesJudgedRight`.
  Every step is a step of `SharedCache` or stutters (`CacheIsShared`). A GPU is taken to
  use the cache from the check that found what it needs, or from giving the exclusive
  lock up, and to replace it from obtaining the exclusive lock: by the
  invariant nobody else uses it then, and the check could be made again with the same
  result. That is what the comments of `util/LockUtils.h` mean by atomic.
- `CuckatooSolverProofs`, of the graph. That an insertion that failed is counted makes
  every entry reachable (`Findable`); that later entries are never nearer (`InOrder`)
  makes equal edges come in the same order in both tables, so that the two entries
  taken out are always of one edge (`TablesAgree`). `SparedInv` says that a set of edges
  without dead ends touches no pair that is on a stack or being removed, `CoveredInv`
  that each dead end is on a stack, being removed or ahead of the loop. From this
  `CyclesSurvive` and `PruneIsComplete`. `SearchInv` says of a walk from the node being
  searched, by how far the search has come, that what is left to try still leads to it;
  `FoundInv`, that a closed walk is found, or has its first node ahead of the search:
  `SearchIsComplete`, for walks through nodes that occur in several edges, too.
- `CuckatooSolverProofs`, of a whole solve (`SolverInv`). The rounds: an edge dies only
  if one of its nodes has no partner in its bucket, and in a set without dead ends each
  node has one, unless a bucket overflowed (`RoundsSpare`). What the last bitmap leaves
  is what the graph is built from; the side the last round did not prune is the one
  prune is called on (`NoDeadEndIsLeft`). A cycle is defined as a minimal set of edges
  without dead ends; that such a set is one closed walk is proved by following it, an
  edge after the other, until a node comes again. The search comes to this walk, from
  its smallest edge and in one direction only, so that cycles none of whose edges has
  a twin are found once (`EveryCycleFound`). `ChecksPass` counts the edges isValidCycle
  has come to: two more each turn. Together they are `CyclesDelivered`.
- `ApplicationProofs`. `AppInv` is inductive with three parts that say what the properties in it
  rest on. `LaunchInv`: the configuration in use has passed the checks of
  `validateConfig`; a device in use belongs to a name already taken from `todo`, or to the
  one being made; what is being launched has a switcher with a pool. `RequestsInv`: a
  connection has been asked for no more than the client sends, and the request that is
  served is its next. `RecordsInv`: who has reported where, and that a pool that does not
  exist has no record. `AnswersInOrder`: as long as the socket has taken every answer at
  once, each step of a connection leaves what was received as it is or adds the answer to
  the message it handles; from the first it has not taken, nothing is said of what comes. `RecordsAddUp`: the shares of a switcher and those on their way to it
  are the sum over its pools; a report moves between the two. `LaunchedAsDocumented`:
  while a profile is launched (`LaunchedSoFar`), devices of names in `todo` wait, those of
  the name being made are prepared, and those of the names taken mine or cannot run;
  what the loop of getTaskForDevice arrives at is the first task of the device's own, or
  else the last one of `remaining`; and the name a task gives finds the implementation
  that made it, as no name is registered twice.

Sums and concatenations are, in the community modules, functions that are defined
recursively. The proofs first show that such a function exists and then reason about
the least number, or a smallest set, for which a statement fails.

Checked by TLC only: all liveness properties and everything about
fairness, and the runs that are violated. No proof rests on anything but the
assumptions on constants and the library's theorems. Of these, `CycleLength` even comes
from `algorithm/grin/Cuckatoo.h:45`; `ConfigurationAssumption` and `ApplicationAssumption` say
of what kind the tables of the registry and the texts of configurations are, that names
and types of work in them are not empty, and that no algorithm is registered
twice (`application/Registry.cpp:20`).

## Where the code differs from what is said of it

Two disagreements are shown by a run each:

- `get_work_waits_for_ever`: `pool/Pool.h` says of tryGetWorkImpl that nullptr is
  returned after a short timeout without work. `PoolSwitcher::tryGetWork` waits
  for an active pool without a timeout, so that a GPU thread waits as long as no
  pool ever becomes active, and so does the destructor that joins it.
- `last_endpoint_never_used`: a comment in clientIterateEndpoints says that there is
  another endpoint to try. The iterator is advanced before it is compared with
  the end, so the last endpoint of several is not tried.

Others were met while modelling and are not given a run; the models do what the
code does:

- `WorkQueue::expireJobs` (`pool/WorkQueue.h:245`) says that all works are expired;
  the store of a refill under way (`:148`) gives the counter the job's id again.
- `pool/Pool.h:193` says that expireJobs makes all works up to now expire. If the queue of
  the pool that is given up is a `WorkQueue` whose refill thread is making works of a job
  sent before, those are fresh after the switch. GPU threads that copied the active pool
  before may still fetch them. `GpusLeaveOldPool` says that it is only those.
- `pool/WorkQueue.h:229`: a push does not expire the works of older jobs until the
  refill thread has stored works of the new job; `pool/Pool.h:188` says that the
  answer changes "as soon as a newer job was pushed" (and has it the wrong way
  round).
- `pool/Work.h:33` says makeWork is called with the queue locked; the refill
  thread calls it unlocked (`pool/WorkQueue.h:131`).
- `network/BaseIO.h:86` says that stopIOThread joins the I/O thread. If the thread has
  just left `run()` and tested `_shutdown`, it calls `restart()` (`BaseIO.cpp:183`)
  after the owner's `stop()` and enters `run()` again; the join waits until that
  returns by itself. `StopReturnsFromRun` is stated for the other case.
- `network/BaseIO.cpp:485`: abortAllAsyncRetries calls onNeverResponded for
  calls that have been answered but whose timer is still running.
- `pool/Pool.h:199` says that clearJobs invalidates all works and solutions of the pool.
  A thread that holds the job (`pool/PoolSwitcher.cpp:210`, `pool/WorkQueue.h:126`,
  `pool/Work.h:178`) keeps it alive: a share of a job of a lost connection may be submitted
  on the next one.
- `network/BaseIO.cpp:422`: a disabled pool keeps reconnecting by itself until it is
  disconnected; `pool/Pool.h:133` says it is not used any more.
- `pool/Pool.cpp:19`: a pool that gets its first job before the switcher has given
  it a condition variable does not count as connected until its next job;
  `pool/Pool.h:287` defines connected as having received a job.
- `pool/PoolSwitcher.cpp`: the works of a pool that was given up stay expired when the
  switcher returns to it, until it sends its next job.
- `algorithm/ethash/DagFile.cpp:296`: the first comparison is `0 < epoch`, so a
  process that begins with epoch 0 never allocates and ends the algorithm.
- `algorithm/ethash/AlgoEthashCL.cpp:183`: while GPUs are at different epochs, a share
  of the old one is hashed with the new cache, counted as invalid and not
  submitted; `SharesJudgedRight` says that this is the only time it happens.

- `compute/opencl/CLProgramLoader.cpp:53`: the callback notifies without the mutex of the
  wait, so that a thread between its test and its sleep is not woken and sleeps for
  ever; `LoaderWakes` and `MinerCloses` are stated for the others. If the wait has
  ended by itself, the callback uses a condition variable that is gone.
- `algorithm/grin/AlgoCuckatoo31Cl.cpp:82`: a solve is aborted when the pool has
  dropped the job (`valid()`), not when the work has expired; expired works are solved
  to the end.
- `algorithm/grin/Cuckatoo.cpp:316`: isValidCycle accepts a closed walk through both
  nodes of a pair twice, such as (0,0), (0,1), (1,2), (1,3), which the comment there
  excludes, and for edges that are not connected its answer may depend on the order
  of an unordered_map. A cycle of which an edge has a copy is handed out as often as
  it is found, with the last of the copies.
- `application/CLI.h:52` says that `--run-tutorial` adds or replaces `--config`. A
  `--config` without a value keeps its place in front (`CLI.cpp:227`, `:192`), and the
  tutorial does not run. If the program was started without a directory in its name,
  the tutorial's file is looked for in one that does not exist.
- `config/Config.cpp`: the ports of pools are not checked, nor that `raw_intensity` is a
  multiple of `work_size` (`:119`). Names of algorithms are compared with case when the
  configuration is checked, which only warns, and without when they are looked up; two
  names of one implementation get their pools twice.
- `application/ShutdownState.cpp:38`: the handler of a second signal waits for the task
  of the first. On main it makes the end a forced one after ten seconds, although
  `ShutdownState.h:13` speaks of a grace period; while main has the mutex it hangs for
  ever (`SignalEndsProcess` excludes it by `HandlerBlocksTask`). On another thread it
  lets `ShutdownState` be destroyed while the first task still waits; a
  signal that comes after that dereferences a null pointer.
- `statistics/PoolRecords.h:60` says that resetInterval acts on all listeners; it resets
  its own node only, so that the interval of a switcher is never reset.
  `DeviceRecords.cpp:29` makes the child a listener of its parent, the reverse of what
  is said of it (no caller). `Average.cpp:13` divides by the time passed, which may be 0.
- `network/JsonRpcUtil.cpp`: a request whose id is null, an array or an object counts as
  a notification; a notification of an unknown method is answered; a line that is not
  JSON ends the connection without the parse error of the standard.
- `network/BaseIO.cpp:57`: the buffer of a write is that of the parameter, not of the copy
  the handler keeps, so the rest of an answer that does not fit is read from a
  destroyed string, and the next answer may be written before it. `AnswersInOrder` says
  nothing of a connection from the first such answer on.
- `network/BaseIO.cpp:92`: a line with a NUL byte from any client of the API fails the
  assertion, and with it the process, in a build that has assertions (`AssertionFails`).
- `config/config.proto:37` reads as if all tasks of one device ran; a device gets one
  of them, which is what `LaunchedAsDocumented` asks for.
- `application/Application.cpp`: the statistics of the pools are locked during the whole
  launch; `RequestsAreHandled` excludes a launch that does not end.
- `algorithm/grin/Cuckatoo.cpp:147`: a walk that uses an edge twice is dropped only if that is
  its smallest edge, and a cycle that isValidCycle rejects (`:153`) is logged as
  an error and handed to the pool all the same.

## Not modelled

- Data: hashes, targets, texts of messages, sizes of tables. Works are ids of jobs,
  epochs are small numbers, the siphash is an arbitrary function.
- Sockets and TLS; a connection is made, written to, and lost.
- Memory orders: every access to an atomic is a step of its own that all threads
  see at once. Only `latestJobId` is accessed with relaxed order.
- The data race on `_ioService` (`network/BaseIO.cpp:294`) and other accesses that are
  undefined: handlers that are not async-signal-safe, two signals that swap the
  shutdown future at the same instant.
- Exceptions thrown by handlers are the network's choice in `BaseIO`; tasks of
  TaskExecutorPool that throw are left out. A kernel that does not compile ends the
  process.
- `lock()` and `ReadLocked::upgrade()` of the upgradeable lock and
  `setThreadCount` of the executors, which nothing calls.
- The kernels' output buffer and the assertion at `AlgoEthashCL.cpp:241`: data of
  the device. Likewise the rates that statistics compute from their counts.
- A pool's messages whose fields cannot be read, such as the rejection without an
  error object that `PoolGrin.cpp:132` dereferences.
- The commands of the command line other than `--config` and the tutorial, which print
  and exit.
- Device enumeration and GPU control (files of the driver), hashes and kernels (bit
  arithmetic on words of 32 to 512 bits), number and text conversions that no property
  depends on, the dummies (templates with the structure of what is modelled), logging,
  the tests, and the third-party code in `src/lib`, which is close to half of all lines.

## Plan

What a further version would add, in the order of importance:

1. `BaseIO` and `StratumPool` in one module, so that what the second takes of the first
   is shown and not assumed.
2. The fields of a job in both stratum protocols, where a message may be partly read,
   and the conversions between difficulties and targets.
