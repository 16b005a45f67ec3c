----------------------------- MODULE EthashAlgo -----------------------------
(***************************************************************************)
(* AlgoEthashCL (algorithm/ethash/AlgoEthashCL.cpp): per GPU a task that   *)
(* generates the DAG and the subtasks that mine with it, the DAG cache all *)
(* GPUs share behind an UpgradeableLockGuarded, and the workers of a       *)
(* TaskExecutorPool that check the shares found with that cache.           *)
(*                                                                         *)
(* The pool is what it is to the algorithm: the newest job and its epoch;  *)
(* a work has expired when its job is not the newest one. Until the        *)
(* switcher has an active pool a gpuTask that asks for a work waits there, *)
(* without a timeout; an active pool is only ever replaced, so no subtask  *)
(* waits like that. The switcher's own shutdown comes after the            *)
(* algorithm's destructor.                                                 *)
(*                                                                         *)
(* OpenCL calls may fail at any time. Epochs are 32 bit numbers, modulo    *)
(* MaxEpoch + 1 here; MaxEpoch stands for "unknown", also as the epoch of  *)
(* a job whose seed hash calculateEthEpoch does not recognise.             *)
(***************************************************************************)
EXTENDS Integers, SequencesExt, UpgradeableLock, TaskExecutorPool

CONSTANTS
    Gpus,          \* devices assigned to the algorithm
    SubTasks,      \* their subtasks: num_threads per GPU
    GpuOf,         \* the GPU of each subtask
    Epochs,        \* epochs of the jobs the pool sends
    MaxEpoch,      \* UINT32_MAX
    FutureEpochs,  \* epochs the DAG is allocated ahead: 6 in the code
    MaxJobs,       \* bound on the number of jobs
    MaxShares      \* bound on the number of shares found

ASSUME EthashAlgoAssumption ==
    /\ Threads = Gpus \cup Workers
    /\ Gpus \cap Workers = {} /\ Gpus # {} /\ Workers # {}
    /\ GpuOf \in [SubTasks -> Gpus]
    /\ MaxEpoch \in Nat /\ FutureEpochs \in Nat
    /\ Epochs \subseteq 0 .. MaxEpoch
    /\ \A e \in Epochs : e + FutureEpochs < MaxEpoch \/ e = MaxEpoch
    /\ MaxJobs \in Nat /\ MaxShares \in Nat

VARIABLES
    jobs,      \* epochs of the jobs the pool has sent, newest last
    poolActive, \* the switcher has an active pool
    cache,     \* dagCache: currentEpoch and valid
    gpuPc,     \* where each gpuTask is
    want,      \* the epoch of the work each gpuTask generates the cache for
    dag,       \* per GPU: epoch, allocationMaxEpoch and what the buffer is allocated for
    subPc,     \* gpuSubTask: "off", "ready", "run" or "notify"
    subJob,    \* the job each subtask mines, as an index of jobs, or NoJob
    found,     \* number of shares found
    shutdown,
    appPc      \* the owner: "running", "joinGpus", "notify", "joinWorkers", "closed"

gpuVars   == <<gpuPc, want, dag>>
subVars   == <<subPc, subJob, found>>
poolVars  == <<jobs, poolActive>>
vars      == <<poolVars, cache, gpuVars, subVars, shutdown, appPc, lockVars, executorVars>>

UnknownEpoch == MaxEpoch
EpochValues == Epochs \cup {UnknownEpoch}
NoBuffer == -1
NoJob == 0
Newest == Len(jobs)

(* A gpuTask that cannot compile its program ends at once.                 *)
Init ==
    /\ jobs = <<>>
    /\ poolActive = FALSE
    /\ cache = [epoch |-> UnknownEpoch, valid |-> FALSE]
    /\ gpuPc \in [Gpus -> {"top", "ended"}]
    /\ want = [g \in Gpus |-> UnknownEpoch]
    /\ dag = [g \in Gpus |-> [epoch |-> UnknownEpoch, allocationMaxEpoch |-> 0,
                              buffer |-> NoBuffer]]
    /\ subPc = [s \in SubTasks |-> "off"]
    /\ subJob = [s \in SubTasks |-> NoJob]
    /\ found = 0
    /\ shutdown = FALSE
    /\ appPc = "running"
    /\ LockInit
    /\ ExecutorInit

(* The pool sends a job.                                                   *)
NewJob(e) ==
    /\ appPc = "running"
    /\ Len(jobs) < MaxJobs
    /\ jobs' = Append(jobs, e)
    /\ UNCHANGED <<poolActive, cache, gpuVars, subVars, shutdown, appPc, lockVars, executorVars>>

(* The switcher's thread finds the pool connected and makes it the active  *)
(* one.                                                                    *)
ChoosePool ==
    /\ ~poolActive
    /\ poolActive' = TRUE
    /\ UNCHANGED <<jobs, cache, gpuVars, subVars, shutdown, appPc, lockVars, executorVars>>

-----------------------------------------------------------------------------
(* gpuTask.                                                                *)

At(g, pc) == gpuPc[g] = pc
GoTo(g, pc) == gpuPc' = [gpuPc EXCEPT ![g] = pc]
Others == <<poolVars, subVars, appPc, executorVars>>

EndTask(g) ==
    /\ At(g, "top") /\ shutdown
    /\ GoTo(g, "ended")
    /\ UNCHANGED <<cache, want, dag, shutdown, lockVars, Others>>

(* tryGetWork, only to learn which epoch is needed.                        *)
GetWork(g) ==
    /\ At(g, "top") /\ ~shutdown
    /\ poolActive /\ jobs # <<>>
    /\ want' = [want EXCEPT ![g] = Last(jobs)]
    /\ GoTo(g, "ask")
    /\ UNCHANGED <<cache, dag, shutdown, lockVars, Others>>

(* The switcher has no active pool to ask: from its test of shutdown on    *)
(* the thread is deaf to it, waits there and comes back without a work.    *)
AwaitPool(g) ==
    /\ At(g, "top") /\ ~shutdown
    /\ ~poolActive
    /\ GoTo(g, "noPool")
    /\ UNCHANGED <<cache, want, dag, shutdown, lockVars, Others>>

PoolSeen(g) ==
    /\ At(g, "noPool")
    /\ poolActive
    /\ GoTo(g, "top")
    /\ UNCHANGED <<cache, want, dag, shutdown, lockVars, Others>>

LockCache(g) ==
    /\ At(g, "ask")
    /\ immediateLock(g)
    /\ GoTo(g, "check")
    /\ UNCHANGED <<cache, want, dag, shutdown, Others>>

isGenerated(e) == cache.valid /\ cache.epoch = e

UseCache(g) ==
    /\ At(g, "check") /\ isGenerated(want[g])
    /\ DowngradeImmediate(g)
    /\ GoTo(g, "read")
    /\ UNCHANGED <<cache, want, dag, shutdown, Others>>

UpgradeCache(g) ==
    /\ At(g, "check") /\ ~isGenerated(want[g])
    /\ BeginUpgrade(g)
    /\ GoTo(g, "upgrade")
    /\ UNCHANGED <<cache, want, dag, shutdown, Others>>

(* DagCacheContainer::generate of an unknown epoch only invalidates.       *)
GenerateCache(g) ==
    /\ At(g, "upgrade")
    /\ EndUpgrade(g)
    /\ cache' = [cache EXCEPT !.valid = FALSE]
    /\ GoTo(g, IF want[g] = UnknownEpoch THEN "release" ELSE "generate")
    /\ UNCHANGED <<want, dag, shutdown, Others>>

CacheGenerated(g) ==
    /\ At(g, "generate")
    /\ cache' = [epoch |-> want[g], valid |-> TRUE]
    /\ GoTo(g, "release")
    /\ UNCHANGED <<want, dag, shutdown, lockVars, Others>>

(* bad_alloc: the old nodes are kept, but no longer valid.                 *)
BadAlloc(g) ==
    /\ At(g, "generate")
    /\ GoTo(g, "release")
    /\ UNCHANGED <<cache, want, dag, shutdown, lockVars, Others>>

ReleaseCache(g) ==
    /\ At(g, "release")
    /\ BeginDowngrade(g)
    /\ GoTo(g, "downgrade")
    /\ UNCHANGED <<cache, want, dag, shutdown, Others>>

ReadCache(g) ==
    /\ At(g, "downgrade")
    /\ EndDowngrade(g)
    /\ GoTo(g, "read")
    /\ UNCHANGED <<cache, want, dag, shutdown, Others>>

(* DagFile::generate, of the epoch the cache has, valid or not. The buffer *)
(* is only allocated for epochs beyond what it has been allocated for.     *)
AllocatesRarely(g) == dag[g].allocationMaxEpoch + FutureEpochs < cache.epoch
NeedsAllocation(g) == dag[g].allocationMaxEpoch < cache.epoch

AllocatedFor(g) ==
    IF NeedsAllocation(g) THEN (cache.epoch + FutureEpochs) % (MaxEpoch + 1)
    ELSE dag[g].allocationMaxEpoch

BufferFor(g) == IF NeedsAllocation(g) THEN AllocatedFor(g) ELSE dag[g].buffer

(* The upload of an empty cache fails.                                     *)
CanGenerate(g) == BufferFor(g) # NoBuffer /\ cache.epoch # UnknownEpoch

KeepsOldDag(g) == IF dag[g].epoch = UnknownEpoch THEN cache.epoch ELSE dag[g].epoch
GeneratedEpoch(g) == cache.epoch

(* The work is not used again; the next round begins with another one.     *)
DropWork(g) == want' = [want EXCEPT ![g] = UnknownEpoch]

(* Any failure ends the whole algorithm.                                   *)
DagFails(g) ==
    /\ At(g, "read")
    /\ \E buffer \in {BufferFor(g)} \cup (IF NeedsAllocation(g) THEN {NoBuffer} ELSE {}) :
          dag' = [dag EXCEPT ![g] = [epoch |-> dag[g].epoch,
                                     allocationMaxEpoch |-> AllocatedFor(g),
                                     buffer |-> buffer]]
    /\ shutdown' = TRUE
    /\ DropWork(g)
    /\ UnlockShared(g)
    /\ GoTo(g, "top")
    /\ UNCHANGED <<cache, Others>>

SubTasksOf(g) == {s \in SubTasks : GpuOf[s] = g}

(* The lock is released and the subtasks are launched; those whose OpenCL  *)
(* objects cannot be created end at once.                                  *)
DagGenerated(g) ==
    /\ At(g, "read")
    /\ CanGenerate(g)
    /\ dag' = [dag EXCEPT ![g] = [epoch |-> GeneratedEpoch(g),
                                  allocationMaxEpoch |-> AllocatedFor(g),
                                  buffer |-> BufferFor(g)]]
    /\ DropWork(g)
    /\ UnlockShared(g)
    /\ \E ready \in SUBSET SubTasksOf(g) :
          subPc' = [s \in SubTasks |-> IF s \in ready THEN "ready" ELSE subPc[s]]
    /\ GoTo(g, "mine")
    /\ UNCHANGED <<poolVars, cache, subJob, found, shutdown, appPc, executorVars>>

(* The futures of the subtasks are destroyed, which waits for all of them. *)
AllDone(g) == \A s \in SubTasksOf(g) : subPc[s] = "off"

SubTasksDone(g) ==
    /\ At(g, "mine")
    /\ AllDone(g)
    /\ GoTo(g, "top")
    /\ UNCHANGED <<cache, want, dag, shutdown, lockVars, Others>>

-----------------------------------------------------------------------------
(* gpuSubTask.                                                             *)

SubGoTo(s, pc) == subPc' = [subPc EXCEPT ![s] = pc]
NotSub == <<poolVars, cache, gpuVars, shutdown, appPc, lockVars>>

(* A subtask ends when there is work of another epoch.                     *)
AnyEpoch(s) == TRUE
SameEpochOnly(s) == Last(jobs) = dag[GpuOf[s]].epoch

SubTaskEnds(s) ==
    /\ subPc[s] = "ready"
    /\ shutdown \/ (jobs # <<>> /\ ~SameEpochOnly(s))
    /\ SubGoTo(s, "off")
    /\ UNCHANGED <<subJob, found, executorVars, NotSub>>

SubGetWork(s) ==
    /\ subPc[s] = "ready" /\ ~shutdown
    /\ jobs # <<>> /\ SameEpochOnly(s)
    /\ subJob' = [subJob EXCEPT ![s] = Newest]
    /\ SubGoTo(s, "run")
    /\ UNCHANGED <<found, executorVars, NotSub>>

(* runKernel finds a share, which is handed to the executors.              *)
FindShare(s) ==
    /\ subPc[s] = "run"
    /\ found < MaxShares
    /\ found' = found + 1
    /\ addTask(subJob[s])
    /\ SubGoTo(s, "notify")
    /\ UNCHANGED <<subJob, NotSub>>

AnnounceShare(s) ==
    /\ subPc[s] = "notify"
    /\ NotifyOne
    /\ SubGoTo(s, "run")
    /\ UNCHANGED <<subJob, found, jobQueue, task, stopping, NotSub>>

(* The work has expired, its nonces are exhausted or there is a shutdown.  *)
LeaveWork(s) ==
    /\ subPc[s] = "run"
    /\ subJob' = [subJob EXCEPT ![s] = NoJob]
    /\ SubGoTo(s, "ready")
    /\ UNCHANGED <<found, executorVars, NotSub>>

-----------------------------------------------------------------------------
(* submitShare, run by a worker.                                           *)

NotWorker == <<poolVars, cache, gpuVars, subVars, shutdown, appPc>>

LockToRead(w) ==
    /\ executor[w] = "busy" /\ w \notin readers
    /\ readLock(w)
    /\ UNCHANGED <<executorVars, NotWorker>>

(* getHash with the cache there is now: the verdict on the share is right  *)
(* only if that is the cache of the share's epoch.                         *)
RightCache(w) == cache.epoch = jobs[task[w]]

submitShare(w) ==
    /\ w \in readers
    /\ UnlockShared(w)
    /\ TaskDone(w)
    /\ UNCHANGED NotWorker

WorkerLoop(w) ==
    /\ Sleep(w) \/ EndWorker(w) \/ TakeTask(w)
    /\ UNCHANGED <<lockVars, NotWorker>>

-----------------------------------------------------------------------------
(* ~AlgoEthashCL: the GPU tasks are joined, then the executors.            *)

Close ==
    /\ appPc = "running"
    /\ shutdown' = TRUE
    /\ appPc' = "joinGpus"
    /\ UNCHANGED <<poolVars, cache, gpuVars, subVars, lockVars, executorVars>>

JoinGpus ==
    /\ appPc = "joinGpus"
    /\ \A g \in Gpus : gpuPc[g] = "ended"
    /\ SetStopping
    /\ appPc' = "notify"
    /\ UNCHANGED <<poolVars, cache, gpuVars, subVars, shutdown, lockVars>>

NotifyWorkers ==
    /\ appPc = "notify"
    /\ NotifyAll
    /\ appPc' = "joinWorkers"
    /\ UNCHANGED <<poolVars, cache, gpuVars, subVars, shutdown, lockVars,
                   jobQueue, task, stopping>>

JoinWorkers ==
    /\ appPc = "joinWorkers"
    /\ \A w \in Workers : executor[w] = "ended"
    /\ appPc' = "closed"
    /\ UNCHANGED <<poolVars, cache, gpuVars, subVars, shutdown, lockVars, executorVars>>

-----------------------------------------------------------------------------
GpuTask(g) ==
    \/ EndTask(g) \/ GetWork(g) \/ AwaitPool(g) \/ PoolSeen(g) \/ UseCache(g) \/ UpgradeCache(g)
    \/ GenerateCache(g) \/ CacheGenerated(g) \/ BadAlloc(g)
    \/ ReleaseCache(g) \/ ReadCache(g)
    \/ DagGenerated(g) \/ DagFails(g) \/ SubTasksDone(g)
SubTask(s) == SubTaskEnds(s) \/ SubGetWork(s) \/ AnnounceShare(s) \/ LeaveWork(s)
Worker(w) == submitShare(w) \/ WorkerLoop(w)
Destructor == JoinGpus \/ NotifyWorkers \/ JoinWorkers

Next ==
    \/ \E e \in Epochs : NewJob(e)
    \/ ChoosePool
    \/ \E g \in Gpus : GpuTask(g) \/ LockCache(g)
    \/ \E s \in SubTasks : SubTask(s) \/ FindShare(s)
    \/ \E w \in Workers : Worker(w) \/ LockToRead(w)
    \/ Close \/ Destructor

(* Threads run (one that waits for a pool is told soon after there is one, *)
(* but nothing says that there ever is), upgradeMut is not kept from one of them for ever, and the  *)
(* memory for a cache that is tried again and again is found some time.    *)
Fairness ==
    /\ \A g \in Gpus :
          WF_vars(GpuTask(g)) /\ SF_vars(LockCache(g)) /\ SF_vars(CacheGenerated(g))
    /\ \A s \in SubTasks : WF_vars(SubTask(s))
    /\ \A w \in Workers : WF_vars(Worker(w)) /\ SF_vars(LockToRead(w))
    /\ WF_vars(Destructor)

Spec == Init /\ [][Next]_vars
FairSpec == Spec /\ Fairness

-----------------------------------------------------------------------------
(* Properties.                                                             *)

AlgoTypeOK ==
    /\ jobs \in Seq(Epochs) /\ Len(jobs) <= MaxJobs
    /\ cache \in [epoch : EpochValues, valid : BOOLEAN]
    /\ poolActive \in BOOLEAN
    /\ gpuPc \in [Gpus -> {"top", "noPool", "ask", "check", "upgrade", "generate", "release",
                           "downgrade", "read", "mine", "ended"}]
    /\ want \in [Gpus -> EpochValues]
    /\ dag \in [Gpus -> [epoch : EpochValues, allocationMaxEpoch : 0 .. MaxEpoch,
                         buffer : 0 .. MaxEpoch \cup {NoBuffer}]]
    /\ subPc \in [SubTasks -> {"off", "ready", "run", "notify"}]
    /\ subJob \in [SubTasks -> 0 .. MaxJobs]
    /\ found \in 0 .. MaxShares
    /\ shutdown \in BOOLEAN
    /\ appPc \in {"running", "joinGpus", "notify", "joinWorkers", "closed"}

TypeOK == AlgoTypeOK /\ LockTypeOK /\ ExecutorTypeOK(1 .. MaxJobs)

(* Who has the lock, by where the threads are.                             *)
OwnerInv ==
    /\ \A g \in Gpus :
          /\ upgradeMut = g <=> gpuPc[g] \in {"check", "upgrade", "generate", "release",
                                              "downgrade"}
          /\ g \in readers <=> gpuPc[g] \in {"check", "read"}
          /\ writer = g <=> gpuPc[g] \in {"generate", "release"}
    /\ \A w \in Workers :
          /\ w \in readers => executor[w] = "busy"
          /\ w # writer /\ w # upgradeMut

(* A cache that was not generated when a GPU checked it is not when the    *)
(* GPU may write, and what was checked or generated for a GPU is still the *)
(* cache its DAG is generated from, although the lock changes hands in     *)
(* between: the upgrade and both downgrades are atomic.                    *)
CacheInv ==
    \A g \in Gpus :
        /\ gpuPc[g] = "upgrade" /\ cache.valid => cache.epoch # want[g]
        /\ gpuPc[g] = "generate" => ~cache.valid
        /\ gpuPc[g] \in {"release", "downgrade", "read"} /\ cache.valid =>
              cache.epoch = want[g]

(* Subtasks run only while their GPU waits for them, and mine what its DAG *)
(* is for.                                                                 *)
SubInv ==
    \A s \in SubTasks :
        /\ subPc[s] # "off" => gpuPc[GpuOf[s]] = "mine"
        /\ subPc[s] \in {"run", "notify"} =>
              subJob[s] \in 1 .. Len(jobs) /\ jobs[subJob[s]] = dag[GpuOf[s]].epoch

(* Past its first work a GPU always finds an active pool, and so do its    *)
(* subtasks.                                                               *)
PoolInv == \A g \in Gpus : gpuPc[g] \notin {"top", "noPool", "ended"} => poolActive

(* What a buffer is allocated for, unless its allocation has failed.       *)
DagInv ==
    \A g \in Gpus :
        /\ \/ shutdown /\ gpuPc[g] \in {"top", "ended"}
           \/ dag[g].buffer = dag[g].allocationMaxEpoch
           \/ dag[g].buffer = NoBuffer /\ dag[g].allocationMaxEpoch = 0
        /\ gpuPc[g] = "mine" => dag[g].epoch <= dag[g].buffer

(* Whoever changed the cache last has its DAG from it when it mines.       *)
LastChangeInv == \E g \in Gpus : gpuPc[g] = "mine" => dag[g].epoch = cache.epoch

DestructorInv == stopping => appPc \in {"notify", "joinWorkers", "closed"}

(* No worker sleeps through a wakeup although addTask and the destructor   *)
(* notify outside of the critical section: while there is something to do  *)
(* somebody is awake or still has to notify.                               *)
NoTaskOverlooked ==
    /\ jobQueue # <<>> /\ Asleep = Workers => \E s \in SubTasks : subPc[s] = "notify"
    /\ stopping /\ Asleep # {} => appPc = "notify"

IInv ==
    /\ TypeOK
    /\ LockInv /\ OwnerInv /\ CacheInv
    /\ SubInv /\ DagInv /\ LastChangeInv
    /\ PoolInv /\ DestructorInv /\ NoTaskOverlooked

(* A GPU never mines for an epoch other than that of its DAG, nor with a   *)
(* buffer allocated for a smaller one, although it keeps both while jobs   *)
(* of several epochs come and go.                                          *)
MinesWithRightDag ==
    \A s \in SubTasks :
        subPc[s] \in {"run", "notify"} =>
            /\ jobs[subJob[s]] = dag[GpuOf[s]].epoch
            /\ dag[GpuOf[s]].epoch <= dag[GpuOf[s]].buffer

(* submitShare hashes with the wrong cache only while the GPUs do not      *)
(* agree: some GPU has no DAG of the share's epoch.                        *)
SharesJudgedRight ==
    [][\A w \in Workers :
          submitShare(w) /\ ~RightCache(w) =>
              \E g \in Gpus : gpuPc[g] # "mine" \/ dag[g].epoch # jobs[task[w]]]_vars

(* Every GPU changes to the epoch of the newest job of the active pool,    *)
(* whatever the other GPUs and the workers do with the cache.              *)
EveryGpuFollows ==
    (poolActive /\ Newest = MaxJobs /\ Last(jobs) # UnknownEpoch) ~>
        \A g \in Gpus :
            \/ jobs # <<>> /\ dag[g].epoch = Last(jobs)
            \/ shutdown \/ gpuPc[g] = "ended"

(* A gpuTask that has asked for a work before there was any active pool.   *)
AwaitsPool(g) == gpuPc[g] = "noPool" /\ ~poolActive

(* The destructor returns unless a GPU waits in the switcher for a first   *)
(* active pool that never comes: neither the lock nor the executors keep   *)
(* it, nor do subtasks that ask for work.                                  *)
AlgoCloses ==
    appPc = "joinGpus" /\ (\A g \in Gpus : ~AwaitsPool(g)) ~> appPc = "closed"

(* What a thread does with the cache is what SharedCache promises: from    *)
(* its check on, a GPU that found it generated uses it, though it has only *)
(* asked for a lock of another kind, and a GPU that gives the exclusive    *)
(* lock up uses it before it has the shared one.                           *)
CacheUsers ==
    {g \in Gpus : gpuPc[g] \in {"downgrade", "read"}} \cup (readers \cap Workers)

Cache == INSTANCE SharedCache WITH
    content <- cache, needs <- want, users <- CacheUsers, owner <- writer,
    NoOwner <- NoThread
ImplementsSharedCache == Cache!Spec
=============================================================================
