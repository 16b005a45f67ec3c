-------------------------- MODULE EthashAlgoProofs --------------------------
(***************************************************************************)
(* Theorems about AlgoEthashCL for any number of GPUs, subtasks, workers,  *)
(* jobs and shares. IInv of EthashAlgo is inductive: one lemma per action  *)
(* shows that the action preserves it.                                     *)
(***************************************************************************)
EXTENDS EthashAlgo, TLAPS

USE EthashAlgoAssumption, UpgradeableLockAssumption DEF poolVars

LEMMA EpochNumber ==
  ASSUME NEW e \in EpochValues
  PROVE  e \in 0 .. MaxEpoch
  BY DEF EpochValues, UnknownEpoch

(* The 32 bit sum of DagFile::generate.                                    *)
LEMMA Modulo ==
  ASSUME NEW n \in Nat, NEW m \in Nat
  PROVE  n % (m + 1) \in 0 .. m /\ (n <= m => n % (m + 1) = n)
  OBVIOUS

(* tryGetWork returns the work of the newest job.                          *)
LEMMA NewestWork ==
  ASSUME TypeOK, jobs # <<>>
  PROVE  /\ Newest \in 1 .. MaxJobs /\ Newest = Len(jobs)
         /\ Last(jobs) = jobs[Newest] /\ Last(jobs) \in Epochs
  BY DEF TypeOK, AlgoTypeOK, Newest, Last

(***************************************************************************)
(* gpuTask: every step preserves the invariant.                            *)
(***************************************************************************)
LEMMA EndTaskIInv ==
  ASSUME NEW g \in Gpus, IInv, EndTask(g)
  PROVE  IInv'
  <1>1. TypeOK'
    BY DEF IInv, TypeOK, AlgoTypeOK, LockTypeOK, ExecutorTypeOK, EndTask, At, GoTo,
           lockVars, Others, subVars, executorVars
  <1>2. LockInv' /\ OwnerInv' /\ CacheInv'
    BY DEF IInv, LockInv, OwnerInv, CacheInv, EndTask, At, GoTo, lockVars, Others,
           subVars, executorVars
  <1>3. SubInv' /\ DagInv' /\ LastChangeInv'
    BY DEF IInv, SubInv, DagInv, LastChangeInv, EndTask, At, GoTo, lockVars, Others,
           subVars, executorVars
  <1>4. PoolInv' /\ DestructorInv' /\ NoTaskOverlooked'
    BY DEF IInv, PoolInv, DestructorInv, NoTaskOverlooked, Asleep, EndTask, At, GoTo,
           lockVars, Others, subVars, executorVars
  <1>5. QED
    BY <1>1, <1>2, <1>3, <1>4 DEF IInv

LEMMA GetWorkIInv ==
  ASSUME NEW g \in Gpus, IInv, GetWork(g)
  PROVE  IInv'
  <1>1. Last(jobs) \in Epochs
    BY NewestWork DEF IInv, GetWork
  <1>2. TypeOK'
    BY <1>1 DEF IInv, TypeOK, AlgoTypeOK, LockTypeOK, ExecutorTypeOK, EpochValues, GetWork,
                GoTo, Others, lockVars, subVars, executorVars
  <1>3. LockInv' /\ OwnerInv' /\ CacheInv'
    BY DEF IInv, LockInv, OwnerInv, CacheInv, TypeOK, AlgoTypeOK, GetWork, At, GoTo, Others,
           lockVars, subVars, executorVars
  <1>4. SubInv' /\ DagInv' /\ LastChangeInv'
    BY DEF IInv, SubInv, DagInv, LastChangeInv, TypeOK, AlgoTypeOK, GetWork, At, GoTo,
           Others, subVars
  <1>5. PoolInv' /\ DestructorInv' /\ NoTaskOverlooked'
    BY DEF IInv, PoolInv, DestructorInv, NoTaskOverlooked, Asleep, GetWork, Others, subVars,
           executorVars
  <1>6. QED
    BY <1>2, <1>3, <1>4, <1>5 DEF IInv

(* Waiting for an active pool.                                             *)
LEMMA PoolWaitIInv ==
  ASSUME NEW g \in Gpus, IInv, AwaitPool(g) \/ PoolSeen(g)
  PROVE  IInv'
  <1>1. /\ \/ gpuPc[g] = "top" /\ ~shutdown /\ gpuPc' = [gpuPc EXCEPT ![g] = "noPool"]
           \/ gpuPc[g] = "noPool" /\ gpuPc' = [gpuPc EXCEPT ![g] = "top"]
        /\ UNCHANGED <<cache, want, dag, shutdown, lockVars, Others>>
    BY DEF AwaitPool, PoolSeen, At, GoTo
  <1>2. TypeOK'
    BY <1>1 DEF IInv, TypeOK, AlgoTypeOK, LockTypeOK, ExecutorTypeOK, lockVars, Others,
                subVars, executorVars
  <1>3. LockInv' /\ OwnerInv' /\ CacheInv'
    BY <1>1 DEF IInv, TypeOK, AlgoTypeOK, LockInv, OwnerInv, CacheInv, lockVars, Others, subVars, executorVars
  <1>4. SubInv' /\ DagInv' /\ LastChangeInv'
    <2>1. SubInv' /\ LastChangeInv'
      BY <1>1 DEF IInv, TypeOK, AlgoTypeOK, SubInv, LastChangeInv, lockVars, Others, subVars, executorVars
    <2>2. DagInv'
      BY <1>1 DEF IInv, TypeOK, AlgoTypeOK, DagInv, lockVars, Others, subVars, executorVars
    <2>3. QED
      BY <2>1, <2>2
  <1>5. PoolInv' /\ DestructorInv' /\ NoTaskOverlooked'
    BY <1>1 DEF IInv, TypeOK, AlgoTypeOK, PoolInv, DestructorInv, NoTaskOverlooked, Asleep, lockVars, Others,
                subVars, executorVars
  <1>6. QED
    BY <1>2, <1>3, <1>4, <1>5 DEF IInv

LEMMA LockCacheIInv ==
  ASSUME NEW g \in Gpus, IInv, LockCache(g)
  PROVE  IInv'
  <1>1. TypeOK'
    BY DEF IInv, TypeOK, AlgoTypeOK, LockTypeOK, ExecutorTypeOK, LockCache, At,
           immediateLock, GoTo, Others, subVars, executorVars
  <1>2. LockInv' /\ OwnerInv' /\ CacheInv'
    BY DEF IInv, LockInv, OwnerInv, CacheInv, TypeOK, AlgoTypeOK, LockTypeOK,
           ExecutorTypeOK, LockCache, At, immediateLock, GoTo, Others, subVars,
           executorVars
  <1>3. SubInv' /\ DagInv' /\ LastChangeInv'
    BY DEF IInv, SubInv, DagInv, LastChangeInv, LockCache, At, immediateLock, GoTo,
           Others, subVars, executorVars
  <1>4. PoolInv' /\ DestructorInv' /\ NoTaskOverlooked'
    BY DEF IInv, PoolInv, DestructorInv, NoTaskOverlooked, Asleep, LockCache, At,
           immediateLock, GoTo, Others, subVars, executorVars
  <1>5. QED
    BY <1>1, <1>2, <1>3, <1>4 DEF IInv

LEMMA UseCacheIInv ==
  ASSUME NEW g \in Gpus, IInv, UseCache(g)
  PROVE  IInv'
  <1>1. TypeOK'
    BY DEF IInv, TypeOK, AlgoTypeOK, LockTypeOK, ExecutorTypeOK, UseCache, At,
           isGenerated, DowngradeImmediate, GoTo, Others, subVars, executorVars
  <1>2. LockInv' /\ OwnerInv' /\ CacheInv'
    BY DEF IInv, LockInv, OwnerInv, CacheInv, TypeOK, AlgoTypeOK, LockTypeOK,
           ExecutorTypeOK, UseCache, At, isGenerated, DowngradeImmediate, GoTo,
           Others, subVars, executorVars
  <1>3. SubInv' /\ DagInv' /\ LastChangeInv'
    BY DEF IInv, SubInv, DagInv, LastChangeInv, UseCache, At, isGenerated,
           DowngradeImmediate, GoTo, Others, subVars, executorVars
  <1>4. PoolInv' /\ DestructorInv' /\ NoTaskOverlooked'
    BY DEF IInv, PoolInv, DestructorInv, NoTaskOverlooked, Asleep, UseCache, At, isGenerated,
           DowngradeImmediate, GoTo, Others, subVars, executorVars
  <1>5. QED
    BY <1>1, <1>2, <1>3, <1>4 DEF IInv

LEMMA UpgradeCacheIInv ==
  ASSUME NEW g \in Gpus, IInv, UpgradeCache(g)
  PROVE  IInv'
  <1>1. TypeOK'
    BY DEF IInv, TypeOK, AlgoTypeOK, LockTypeOK, ExecutorTypeOK, UpgradeCache, At,
           isGenerated, BeginUpgrade, GoTo, Others, subVars, executorVars
  <1>2. LockInv' /\ OwnerInv' /\ CacheInv'
    BY DEF IInv, LockInv, OwnerInv, CacheInv, TypeOK, AlgoTypeOK, LockTypeOK,
           ExecutorTypeOK, UpgradeCache, At, isGenerated, BeginUpgrade, GoTo, Others,
           subVars, executorVars
  <1>3. SubInv' /\ DagInv' /\ LastChangeInv'
    BY DEF IInv, SubInv, DagInv, LastChangeInv, UpgradeCache, At, isGenerated,
           BeginUpgrade, GoTo, Others, subVars, executorVars
  <1>4. PoolInv' /\ DestructorInv' /\ NoTaskOverlooked'
    BY DEF IInv, PoolInv, DestructorInv, NoTaskOverlooked, Asleep, UpgradeCache, At,
           isGenerated, BeginUpgrade, GoTo, Others, subVars, executorVars
  <1>5. QED
    BY <1>1, <1>2, <1>3, <1>4 DEF IInv

LEMMA GenerateCacheIInv ==
  ASSUME NEW g \in Gpus, IInv, GenerateCache(g)
  PROVE  IInv'
  <1>1. TypeOK'
    BY DEF IInv, TypeOK, AlgoTypeOK, LockTypeOK, ExecutorTypeOK, GenerateCache, At,
           EndUpgrade, GoTo, Others, ExclusiveFree, subVars, executorVars
  <1>2. LockInv' /\ OwnerInv' /\ CacheInv'
    BY DEF IInv, LockInv, OwnerInv, CacheInv, TypeOK, AlgoTypeOK, LockTypeOK,
           ExecutorTypeOK, GenerateCache, At, EndUpgrade, GoTo, Others,
           ExclusiveFree, subVars, executorVars
  <1>3. SubInv' /\ DagInv' /\ LastChangeInv'
    BY DEF IInv, SubInv, DagInv, LastChangeInv, GenerateCache, At, EndUpgrade, GoTo,
           Others, ExclusiveFree, subVars, executorVars
  <1>4. PoolInv' /\ DestructorInv' /\ NoTaskOverlooked'
    BY DEF IInv, PoolInv, DestructorInv, NoTaskOverlooked, Asleep, GenerateCache, At,
           EndUpgrade, GoTo, Others, ExclusiveFree, subVars, executorVars
  <1>5. QED
    BY <1>1, <1>2, <1>3, <1>4 DEF IInv

LEMMA CacheGeneratedIInv ==
  ASSUME NEW g \in Gpus, IInv, CacheGenerated(g)
  PROVE  IInv'
  <1>1. TypeOK'
    BY DEF IInv, TypeOK, AlgoTypeOK, LockTypeOK, ExecutorTypeOK, CacheGenerated, At,
           GoTo, lockVars, Others, subVars, executorVars
  <1>2. LockInv' /\ OwnerInv' /\ CacheInv'
    BY DEF IInv, LockInv, OwnerInv, CacheInv, TypeOK, AlgoTypeOK, LockTypeOK,
           ExecutorTypeOK, CacheGenerated, At, GoTo, lockVars, Others, subVars,
           executorVars
  <1>3. SubInv' /\ DagInv' /\ LastChangeInv'
    BY DEF IInv, SubInv, DagInv, LastChangeInv, CacheGenerated, At, GoTo, lockVars,
           Others, subVars, executorVars
  <1>4. PoolInv' /\ DestructorInv' /\ NoTaskOverlooked'
    BY DEF IInv, PoolInv, DestructorInv, NoTaskOverlooked, Asleep, CacheGenerated, At, GoTo,
           lockVars, Others, subVars, executorVars
  <1>5. QED
    BY <1>1, <1>2, <1>3, <1>4 DEF IInv

LEMMA BadAllocIInv ==
  ASSUME NEW g \in Gpus, IInv, BadAlloc(g)
  PROVE  IInv'
  <1>1. TypeOK'
    BY DEF IInv, TypeOK, AlgoTypeOK, LockTypeOK, ExecutorTypeOK, BadAlloc, At, GoTo,
           lockVars, Others, subVars, executorVars
  <1>2. LockInv' /\ OwnerInv' /\ CacheInv'
    BY DEF IInv, LockInv, OwnerInv, CacheInv, BadAlloc, At, GoTo, lockVars, Others,
           subVars, executorVars
  <1>3. SubInv' /\ DagInv' /\ LastChangeInv'
    BY DEF IInv, SubInv, DagInv, LastChangeInv, BadAlloc, At, GoTo, lockVars, Others,
           subVars, executorVars
  <1>4. PoolInv' /\ DestructorInv' /\ NoTaskOverlooked'
    BY DEF IInv, PoolInv, DestructorInv, NoTaskOverlooked, Asleep, BadAlloc, At, GoTo,
           lockVars, Others, subVars, executorVars
  <1>5. QED
    BY <1>1, <1>2, <1>3, <1>4 DEF IInv

LEMMA ReleaseCacheIInv ==
  ASSUME NEW g \in Gpus, IInv, ReleaseCache(g)
  PROVE  IInv'
  <1>1. TypeOK'
    BY DEF IInv, TypeOK, AlgoTypeOK, LockTypeOK, ExecutorTypeOK, ReleaseCache, At,
           BeginDowngrade, GoTo, Others, subVars, executorVars
  <1>2. LockInv' /\ OwnerInv' /\ CacheInv'
    BY DEF IInv, LockInv, OwnerInv, CacheInv, TypeOK, AlgoTypeOK, LockTypeOK,
           ExecutorTypeOK, ReleaseCache, At, BeginDowngrade, GoTo, Others, subVars,
           executorVars
  <1>3. SubInv' /\ DagInv' /\ LastChangeInv'
    BY DEF IInv, SubInv, DagInv, LastChangeInv, ReleaseCache, At, BeginDowngrade,
           GoTo, Others, subVars, executorVars
  <1>4. PoolInv' /\ DestructorInv' /\ NoTaskOverlooked'
    BY DEF IInv, PoolInv, DestructorInv, NoTaskOverlooked, Asleep, ReleaseCache, At,
           BeginDowngrade, GoTo, Others, subVars, executorVars
  <1>5. QED
    BY <1>1, <1>2, <1>3, <1>4 DEF IInv

LEMMA ReadCacheIInv ==
  ASSUME NEW g \in Gpus, IInv, ReadCache(g)
  PROVE  IInv'
  <1>1. TypeOK'
    BY DEF IInv, TypeOK, AlgoTypeOK, LockTypeOK, ExecutorTypeOK, ReadCache, At,
           EndDowngrade, GoTo, Others, subVars, executorVars
  <1>2. LockInv' /\ OwnerInv' /\ CacheInv'
    BY DEF IInv, LockInv, OwnerInv, CacheInv, TypeOK, AlgoTypeOK, LockTypeOK,
           ExecutorTypeOK, ReadCache, At, EndDowngrade, GoTo, Others, subVars,
           executorVars
  <1>3. SubInv' /\ DagInv' /\ LastChangeInv'
    BY DEF IInv, SubInv, DagInv, LastChangeInv, ReadCache, At, EndDowngrade, GoTo,
           Others, subVars, executorVars
  <1>4. PoolInv' /\ DestructorInv' /\ NoTaskOverlooked'
    BY DEF IInv, PoolInv, DestructorInv, NoTaskOverlooked, Asleep, ReadCache, At,
           EndDowngrade, GoTo, Others, subVars, executorVars
  <1>5. QED
    BY <1>1, <1>2, <1>3, <1>4 DEF IInv

(* The step that needs the arithmetic: the buffer the DAG is generated     *)
(* into has been allocated for its epoch or a later one.                   *)
LEMMA DagGeneratedIInv ==
  ASSUME NEW g \in Gpus, IInv, DagGenerated(g)
  PROVE  IInv'
  <1>1. PICK ready \in SUBSET SubTasksOf(g) :
          subPc' = [s \in SubTasks |-> IF s \in ready THEN "ready" ELSE subPc[s]]
    BY DEF DagGenerated
  <1>2. /\ gpuPc[g] = "read" /\ gpuPc' = [gpuPc EXCEPT ![g] = "mine"]
        /\ \A s \in SubTasksOf(g) : subPc[s] = "off"
    BY DEF IInv, SubInv, TypeOK, AlgoTypeOK, DagGenerated, At, GoTo, SubTasksOf
  <1>3. /\ dag' = [dag EXCEPT ![g] = [epoch |-> cache.epoch,
                                      allocationMaxEpoch |-> AllocatedFor(g),
                                      buffer |-> AllocatedFor(g)]]
        /\ AllocatedFor(g) \in 0 .. MaxEpoch /\ cache.epoch <= AllocatedFor(g)
    <2>1. dag' = [dag EXCEPT ![g] = [epoch |-> cache.epoch,
                                     allocationMaxEpoch |-> AllocatedFor(g),
                                     buffer |-> BufferFor(g)]]
      BY DEF DagGenerated, GeneratedEpoch
    <2>2. /\ cache.epoch \in 0 .. MaxEpoch /\ cache.epoch + FutureEpochs < MaxEpoch
          /\ BufferFor(g) # NoBuffer
      BY DEF IInv, TypeOK, AlgoTypeOK, EpochValues, DagGenerated, CanGenerate, UnknownEpoch
    <2>3. CASE NeedsAllocation(g)
      <3>1. /\ AllocatedFor(g) = (cache.epoch + FutureEpochs) % (MaxEpoch + 1)
            /\ BufferFor(g) = AllocatedFor(g)
        BY <2>3 DEF AllocatedFor, BufferFor
      <3>2. AllocatedFor(g) = cache.epoch + FutureEpochs
        <4> DEFINE n == cache.epoch + FutureEpochs
        <4>1. n \in Nat /\ n <= MaxEpoch
          BY <2>2
        <4> HIDE DEF n
        <4>2. n % (MaxEpoch + 1) = n
          BY <4>1, Modulo
        <4>3. QED
          BY <3>1, <4>2 DEF n
      <3>3. QED
        BY <2>1, <2>2, <3>1, <3>2
    <2>4. CASE ~NeedsAllocation(g)
      <3>1. /\ dag[g].allocationMaxEpoch \in 0 .. MaxEpoch
            /\ cache.epoch <= dag[g].allocationMaxEpoch
        <4>1. dag[g].allocationMaxEpoch \in 0 .. MaxEpoch
          BY DEF IInv, TypeOK, AlgoTypeOK
        <4>2. QED
          BY <2>2, <2>4, <4>1 DEF NeedsAllocation
      <3>2. dag[g].buffer = dag[g].allocationMaxEpoch
        BY <1>2, <2>2, <2>4, <3>1 DEF IInv, DagInv, BufferFor, NoBuffer
      <3>3. QED
        BY <2>1, <2>4, <3>1, <3>2 DEF AllocatedFor, BufferFor
    <2>5. QED
      BY <2>3, <2>4
  <1>4. /\ UNCHANGED <<poolVars, cache, subJob, found, shutdown, appPc, executorVars>>
        /\ want' = [want EXCEPT ![g] = UnknownEpoch]
        /\ readers' = readers \ {g} /\ UNCHANGED <<upgradeMut, writer>>
    BY DEF DagGenerated, DropWork, UnlockShared
  <1>5. TypeOK'
    <2>1. dag' \in [Gpus -> [epoch : EpochValues, allocationMaxEpoch : 0 .. MaxEpoch,
                             buffer : 0 .. MaxEpoch \cup {NoBuffer}]]
      BY <1>3 DEF IInv, TypeOK, AlgoTypeOK
    <2>2. subPc' \in [SubTasks -> {"off", "ready", "run", "notify"}]
      BY <1>1 DEF IInv, TypeOK, AlgoTypeOK
    <2>3. QED
      BY <1>2, <1>4, <2>1, <2>2 DEF IInv, TypeOK, AlgoTypeOK, LockTypeOK, ExecutorTypeOK,
                                    executorVars, EpochValues
  <1>6. LockInv' /\ OwnerInv' /\ CacheInv'
    BY <1>2, <1>4 DEF IInv, LockInv, OwnerInv, CacheInv, TypeOK, AlgoTypeOK, executorVars
  <1>7. SubInv'
    <2> SUFFICES ASSUME NEW s \in SubTasks
                 PROVE  /\ subPc'[s] # "off" => gpuPc'[GpuOf[s]] = "mine"
                        /\ subPc'[s] \in {"run", "notify"} =>
                              /\ subJob'[s] \in 1 .. Len(jobs')
                              /\ jobs'[subJob'[s]] = dag'[GpuOf[s]].epoch
      BY DEF SubInv
    <2>1. CASE GpuOf[s] = g
      BY <1>1, <1>2, <2>1 DEF SubTasksOf, IInv, TypeOK, AlgoTypeOK
    <2>2. CASE GpuOf[s] # g
      <3>1. subPc'[s] = subPc[s]
        BY <1>1, <2>2 DEF SubTasksOf
      <3>2. gpuPc'[GpuOf[s]] = gpuPc[GpuOf[s]] /\ dag'[GpuOf[s]] = dag[GpuOf[s]]
        BY <1>2, <1>3, <2>2 DEF IInv, TypeOK, AlgoTypeOK
      <3>3. QED
        BY <1>4, <3>1, <3>2 DEF IInv, SubInv
    <2>3. QED
      BY <2>1, <2>2
  <1>8. DagInv' /\ LastChangeInv'
    BY <1>2, <1>3, <1>4 DEF IInv, DagInv, LastChangeInv, TypeOK, AlgoTypeOK
  <1>9. PoolInv' /\ DestructorInv' /\ NoTaskOverlooked'
    <2>1. \A s \in SubTasks : subPc[s] = "notify" => subPc'[s] = "notify"
      BY <1>1, <1>2
    <2>2. QED
      BY <1>2, <1>4, <2>1 DEF IInv, TypeOK, AlgoTypeOK, PoolInv, DestructorInv, NoTaskOverlooked, Asleep,
                              executorVars
  <1>10. QED
    BY <1>5, <1>6, <1>7, <1>8, <1>9 DEF IInv

LEMMA DagFailsIInv ==
  ASSUME NEW g \in Gpus, IInv, DagFails(g)
  PROVE  IInv'
  <1>1. AllocatedFor(g) \in 0 .. MaxEpoch /\ BufferFor(g) \in 0 .. MaxEpoch \cup {NoBuffer}
    <2> DEFINE n == cache.epoch + FutureEpochs
    <2>1. n \in Nat
      <3>1. cache.epoch \in EpochValues
        BY DEF IInv, TypeOK, AlgoTypeOK
      <3>2. cache.epoch \in Nat
        BY <3>1, EpochNumber
      <3>3. QED
        BY <3>2 DEF n
    <2> HIDE DEF n
    <2>2. n % (MaxEpoch + 1) \in 0 .. MaxEpoch
      BY <2>1, Modulo
    <2>3. \/ AllocatedFor(g) = n % (MaxEpoch + 1)
          \/ AllocatedFor(g) = dag[g].allocationMaxEpoch
      BY DEF AllocatedFor, n
    <2>4. AllocatedFor(g) \in 0 .. MaxEpoch
      BY <2>2, <2>3 DEF IInv, TypeOK, AlgoTypeOK
    <2>5. QED
      BY <2>4 DEF IInv, TypeOK, AlgoTypeOK, BufferFor
  <1>2. PICK buffer \in 0 .. MaxEpoch \cup {NoBuffer} :
          dag' = [dag EXCEPT ![g] = [epoch |-> dag[g].epoch,
                                     allocationMaxEpoch |-> AllocatedFor(g),
                                     buffer |-> buffer]]
    BY <1>1 DEF DagFails
  <1>3. dag' \in [Gpus -> [epoch : EpochValues, allocationMaxEpoch : 0 .. MaxEpoch,
                           buffer : 0 .. MaxEpoch \cup {NoBuffer}]]
    BY <1>1, <1>2 DEF IInv, TypeOK, AlgoTypeOK
  <1>4. TypeOK'
    BY <1>3 DEF IInv, TypeOK, AlgoTypeOK, LockTypeOK, ExecutorTypeOK, EpochValues,
                UnknownEpoch, DagFails, DropWork, UnlockShared, GoTo, Others, subVars,
                executorVars
  <1>5. LockInv' /\ OwnerInv' /\ CacheInv'
    BY DEF IInv, LockInv, OwnerInv, CacheInv, TypeOK, AlgoTypeOK, DagFails, At, DropWork,
           UnlockShared, GoTo, Others, subVars, executorVars
  <1>6. SubInv' /\ DagInv' /\ LastChangeInv'
    BY <1>2 DEF IInv, SubInv, DagInv, LastChangeInv, TypeOK, AlgoTypeOK, DagFails, At, GoTo,
                Others, subVars
  <1>7. PoolInv' /\ DestructorInv' /\ NoTaskOverlooked'
    BY DEF IInv, TypeOK, AlgoTypeOK, PoolInv, DestructorInv, NoTaskOverlooked, Asleep, DagFails, GoTo,
           Others, subVars, executorVars
  <1>8. QED
    BY <1>4, <1>5, <1>6, <1>7 DEF IInv

LEMMA SubTasksDoneIInv ==
  ASSUME NEW g \in Gpus, IInv, SubTasksDone(g)
  PROVE  IInv'
  <1>1. TypeOK'
    BY DEF IInv, TypeOK, AlgoTypeOK, LockTypeOK, ExecutorTypeOK, SubTasksDone, At,
           AllDone, GoTo, lockVars, Others, SubTasksOf, subVars, executorVars
  <1>2. LockInv' /\ OwnerInv' /\ CacheInv'
    BY DEF IInv, LockInv, OwnerInv, CacheInv, SubTasksDone, At, AllDone, GoTo,
           lockVars, Others, SubTasksOf, subVars, executorVars
  <1>3. SubInv' /\ DagInv' /\ LastChangeInv'
    BY DEF IInv, SubInv, DagInv, LastChangeInv, SubTasksDone, At, AllDone, GoTo,
           lockVars, Others, SubTasksOf, subVars, executorVars
  <1>4. PoolInv' /\ DestructorInv' /\ NoTaskOverlooked'
    BY DEF IInv, PoolInv, DestructorInv, NoTaskOverlooked, Asleep, SubTasksDone, At, AllDone,
           GoTo, lockVars, Others, SubTasksOf, subVars, executorVars
  <1>5. QED
    BY <1>1, <1>2, <1>3, <1>4 DEF IInv

(***************************************************************************)
(* gpuSubTask.                                                             *)
(***************************************************************************)
LEMMA SubTaskEndsIInv ==
  ASSUME NEW s \in SubTasks, IInv, SubTaskEnds(s)
  PROVE  IInv'
  <1>1. TypeOK'
    BY DEF IInv, TypeOK, AlgoTypeOK, LockTypeOK, ExecutorTypeOK, SubTaskEnds,
           SameEpochOnly, SubGoTo, executorVars, NotSub, gpuVars, lockVars
  <1>2. LockInv' /\ OwnerInv' /\ CacheInv'
    BY DEF IInv, LockInv, OwnerInv, CacheInv, SubTaskEnds, SameEpochOnly, SubGoTo,
           executorVars, NotSub, gpuVars, lockVars
  <1>3. SubInv' /\ DagInv' /\ LastChangeInv'
    BY DEF IInv, SubInv, DagInv, LastChangeInv, SubTaskEnds, SameEpochOnly, SubGoTo,
           executorVars, NotSub, gpuVars, lockVars
  <1>4. PoolInv' /\ DestructorInv' /\ NoTaskOverlooked'
    BY DEF IInv, PoolInv, DestructorInv, NoTaskOverlooked, Asleep, SubTaskEnds, SameEpochOnly,
           SubGoTo, executorVars, NotSub, gpuVars, lockVars
  <1>5. QED
    BY <1>1, <1>2, <1>3, <1>4 DEF IInv

LEMMA SubGetWorkIInv ==
  ASSUME NEW s \in SubTasks, IInv, SubGetWork(s)
  PROVE  IInv'
  <1>1. /\ Newest \in 1 .. MaxJobs /\ Newest = Len(jobs)
        /\ jobs[Newest] = dag[GpuOf[s]].epoch
    BY NewestWork DEF IInv, SubGetWork, SameEpochOnly
  <1>2. /\ subJob' = [subJob EXCEPT ![s] = Newest] /\ subPc' = [subPc EXCEPT ![s] = "run"]
        /\ subPc[s] = "ready"
        /\ UNCHANGED <<found, executorVars, NotSub>>
    BY DEF SubGetWork, SubGoTo
  <1>3. TypeOK'
    BY <1>1, <1>2 DEF IInv, TypeOK, AlgoTypeOK, LockTypeOK, ExecutorTypeOK, EpochValues,
                      executorVars, NotSub, gpuVars, lockVars
  <1>4. LockInv' /\ OwnerInv' /\ CacheInv'
    BY <1>2 DEF IInv, LockInv, OwnerInv, CacheInv, executorVars, NotSub, gpuVars, lockVars
  <1>5. SubInv' /\ DagInv' /\ LastChangeInv'
    BY <1>1, <1>2 DEF IInv, SubInv, DagInv, LastChangeInv, TypeOK, AlgoTypeOK, NotSub, gpuVars
  <1>6. PoolInv' /\ DestructorInv' /\ NoTaskOverlooked'
    BY <1>2 DEF IInv, PoolInv, DestructorInv, NoTaskOverlooked, Asleep, TypeOK, AlgoTypeOK,
                executorVars, NotSub, gpuVars
  <1>7. QED
    BY <1>3, <1>4, <1>5, <1>6 DEF IInv

LEMMA FindShareIInv ==
  ASSUME NEW s \in SubTasks, IInv, FindShare(s)
  PROVE  IInv'
  <1>1. subJob[s] \in 1 .. MaxJobs
    BY DEF IInv, SubInv, TypeOK, AlgoTypeOK, FindShare
  <1>2. /\ jobQueue' = Append(jobQueue, subJob[s]) /\ UNCHANGED <<executor, task, stopping>>
        /\ subPc[s] = "run" /\ subPc' = [subPc EXCEPT ![s] = "notify"]
        /\ found < MaxShares /\ found' = found + 1
        /\ UNCHANGED <<subJob, NotSub>>
    BY DEF FindShare, addTask, SubGoTo
  <1>3. TypeOK'
    <2>1. jobQueue' \in Seq(1 .. MaxJobs)
      BY <1>1, <1>2 DEF IInv, TypeOK, ExecutorTypeOK
    <2>2. QED
      BY <1>2, <2>1 DEF IInv, TypeOK, AlgoTypeOK, LockTypeOK, ExecutorTypeOK, EpochValues,
                        NotSub, gpuVars, lockVars
  <1>4. LockInv' /\ OwnerInv' /\ CacheInv'
    BY <1>2 DEF IInv, LockInv, OwnerInv, CacheInv, NotSub, gpuVars, lockVars
  <1>5. SubInv' /\ DagInv' /\ LastChangeInv'
    BY <1>2 DEF IInv, SubInv, DagInv, LastChangeInv, TypeOK, AlgoTypeOK, NotSub, gpuVars
  <1>6. PoolInv' /\ DestructorInv' /\ NoTaskOverlooked'
    BY <1>2 DEF IInv, PoolInv, DestructorInv, NoTaskOverlooked, Asleep, TypeOK, AlgoTypeOK, NotSub,
                gpuVars
  <1>7. QED
    BY <1>3, <1>4, <1>5, <1>6 DEF IInv

LEMMA AnnounceShareIInv ==
  ASSUME NEW s \in SubTasks, IInv, AnnounceShare(s)
  PROVE  IInv'
  <1>1. TypeOK'
    BY DEF IInv, TypeOK, AlgoTypeOK, LockTypeOK, ExecutorTypeOK, AnnounceShare,
           NotifyOne, SubGoTo, NotSub, Asleep, gpuVars, lockVars
  <1>2. LockInv' /\ OwnerInv' /\ CacheInv'
    BY DEF IInv, LockInv, OwnerInv, CacheInv, TypeOK, AlgoTypeOK, LockTypeOK,
           ExecutorTypeOK, AnnounceShare, NotifyOne, SubGoTo, NotSub, Asleep,
           gpuVars, lockVars
  <1>3. SubInv' /\ DagInv' /\ LastChangeInv'
    BY DEF IInv, SubInv, DagInv, LastChangeInv, AnnounceShare, NotifyOne, SubGoTo,
           NotSub, Asleep, gpuVars, lockVars
  <1>4. PoolInv' /\ DestructorInv' /\ NoTaskOverlooked'
    BY DEF IInv, PoolInv, DestructorInv, NoTaskOverlooked, Asleep, TypeOK, ExecutorTypeOK,
           AnnounceShare, NotifyOne, SubGoTo, NotSub, gpuVars, lockVars
  <1>5. QED
    BY <1>1, <1>2, <1>3, <1>4 DEF IInv

LEMMA LeaveWorkIInv ==
  ASSUME NEW s \in SubTasks, IInv, LeaveWork(s)
  PROVE  IInv'
  <1>1. TypeOK'
    BY DEF IInv, TypeOK, AlgoTypeOK, LockTypeOK, ExecutorTypeOK, EpochValues,
           NoBuffer, UnknownEpoch, NoTask, NoJob, LeaveWork, SubGoTo, executorVars,
           NotSub, gpuVars, lockVars
  <1>2. LockInv' /\ OwnerInv' /\ CacheInv'
    BY DEF IInv, LockInv, OwnerInv, CacheInv, LeaveWork, SubGoTo, executorVars,
           NotSub, gpuVars, lockVars
  <1>3. SubInv' /\ DagInv' /\ LastChangeInv'
    BY DEF IInv, SubInv, DagInv, LastChangeInv, TypeOK, AlgoTypeOK, LeaveWork,
           SubGoTo, executorVars, NotSub, gpuVars, lockVars
  <1>4. PoolInv' /\ DestructorInv' /\ NoTaskOverlooked'
    BY DEF IInv, PoolInv, DestructorInv, NoTaskOverlooked, Asleep, LeaveWork, SubGoTo,
           executorVars, NotSub, gpuVars, lockVars
  <1>5. QED
    BY <1>1, <1>2, <1>3, <1>4 DEF IInv

(***************************************************************************)
(* The workers.                                                            *)
(***************************************************************************)
LEMMA LockToReadIInv ==
  ASSUME NEW w \in Workers, IInv, LockToRead(w)
  PROVE  IInv'
  <1>1. TypeOK'
    BY DEF IInv, TypeOK, AlgoTypeOK, LockTypeOK, ExecutorTypeOK, LockToRead,
           readLock, executorVars, NotWorker, gpuVars, subVars
  <1>2. LockInv' /\ OwnerInv' /\ CacheInv'
    BY DEF IInv, LockInv, OwnerInv, CacheInv, LockToRead, readLock, executorVars,
           NotWorker, gpuVars, subVars
  <1>3. SubInv' /\ DagInv' /\ LastChangeInv'
    BY DEF IInv, SubInv, DagInv, LastChangeInv, LockToRead, readLock, executorVars,
           NotWorker, gpuVars, subVars
  <1>4. PoolInv' /\ DestructorInv' /\ NoTaskOverlooked'
    BY DEF IInv, PoolInv, DestructorInv, NoTaskOverlooked, Asleep, LockToRead, readLock,
           executorVars, NotWorker, gpuVars, subVars
  <1>5. QED
    BY <1>1, <1>2, <1>3, <1>4 DEF IInv

LEMMA submitShareIInv ==
  ASSUME NEW w \in Workers, IInv, submitShare(w)
  PROVE  IInv'
  <1>1. TypeOK'
    BY DEF IInv, TypeOK, AlgoTypeOK, LockTypeOK, ExecutorTypeOK, submitShare,
           UnlockShared, TaskDone, NotWorker, gpuVars, subVars
  <1>2. LockInv' /\ OwnerInv' /\ CacheInv'
    BY DEF IInv, LockInv, OwnerInv, CacheInv, submitShare, UnlockShared, TaskDone,
           NotWorker, gpuVars, subVars
  <1>3. SubInv' /\ DagInv' /\ LastChangeInv'
    BY DEF IInv, SubInv, DagInv, LastChangeInv, submitShare, UnlockShared, TaskDone,
           NotWorker, gpuVars, subVars
  <1>4. PoolInv' /\ DestructorInv' /\ NoTaskOverlooked'
    BY DEF IInv, PoolInv, DestructorInv, NoTaskOverlooked, Asleep, submitShare, UnlockShared,
           TaskDone, NotWorker, gpuVars, subVars
  <1>5. QED
    BY <1>1, <1>2, <1>3, <1>4 DEF IInv

LEMMA WorkerLoopIInv ==
  ASSUME NEW w \in Workers, IInv, WorkerLoop(w)
  PROVE  IInv'
  <1>1. UNCHANGED <<poolVars, cache, gpuVars, subVars, shutdown, appPc, lockVars>>
    BY DEF WorkerLoop, NotWorker
  <1>2. ExecutorTypeOK(1 .. MaxJobs)'
    <2>1. CASE Sleep(w) \/ EndWorker(w)
      BY <2>1 DEF IInv, TypeOK, ExecutorTypeOK, Sleep, EndWorker, NoTask
    <2>2. CASE TakeTask(w)
      <3>1. Head(jobQueue) \in 1 .. MaxJobs /\ Tail(jobQueue) \in Seq(1 .. MaxJobs)
        BY <2>2 DEF IInv, TypeOK, ExecutorTypeOK, TakeTask
      <3>2. QED
        BY <2>2, <3>1 DEF IInv, TypeOK, ExecutorTypeOK, TakeTask
    <2>3. QED
      BY <2>1, <2>2 DEF WorkerLoop
  <1>3. TypeOK'
    BY <1>1, <1>2 DEF IInv, TypeOK, AlgoTypeOK, LockTypeOK, EpochValues, gpuVars, subVars,
                      lockVars
  <1>4. LockInv' /\ OwnerInv' /\ CacheInv'
    BY <1>1 DEF IInv, LockInv, OwnerInv, CacheInv, TypeOK, ExecutorTypeOK, WorkerLoop, Sleep,
                EndWorker, TakeTask, gpuVars, lockVars
  <1>5. SubInv' /\ DagInv' /\ LastChangeInv'
    BY <1>1 DEF IInv, SubInv, DagInv, LastChangeInv, gpuVars, subVars
  <1>6. PoolInv' /\ DestructorInv' /\ NoTaskOverlooked'
    BY <1>1 DEF IInv, PoolInv, DestructorInv, NoTaskOverlooked, Asleep, TypeOK, ExecutorTypeOK,
                WorkerLoop, Sleep, EndWorker, TakeTask, subVars, gpuVars
  <1>7. QED
    BY <1>3, <1>4, <1>5, <1>6 DEF IInv

(***************************************************************************)
(* The pool and the destructor.                                            *)
(***************************************************************************)
LEMMA NewJobIInv ==
  ASSUME NEW e \in Epochs, IInv, NewJob(e)
  PROVE  IInv'
  <1>1. TypeOK'
    BY DEF IInv, TypeOK, AlgoTypeOK, LockTypeOK, ExecutorTypeOK, NewJob, gpuVars,
           subVars, lockVars, executorVars
  <1>2. LockInv' /\ OwnerInv' /\ CacheInv'
    BY DEF IInv, LockInv, OwnerInv, CacheInv, NewJob, gpuVars, subVars, lockVars,
           executorVars
  <1>3. SubInv' /\ DagInv' /\ LastChangeInv'
    BY DEF IInv, SubInv, DagInv, LastChangeInv, NewJob, gpuVars, subVars, lockVars,
           executorVars
  <1>4. PoolInv' /\ DestructorInv' /\ NoTaskOverlooked'
    BY DEF IInv, PoolInv, DestructorInv, NoTaskOverlooked, Asleep, NewJob, gpuVars, subVars,
           lockVars, executorVars
  <1>5. QED
    BY <1>1, <1>2, <1>3, <1>4 DEF IInv

LEMMA ChoosePoolIInv ==
  ASSUME IInv, ChoosePool
  PROVE  IInv'
  <1>1. TypeOK'
    BY DEF IInv, TypeOK, AlgoTypeOK, LockTypeOK, ExecutorTypeOK, ChoosePool, gpuVars,
           subVars, lockVars, executorVars
  <1>2. LockInv' /\ OwnerInv' /\ CacheInv'
    BY DEF IInv, LockInv, OwnerInv, CacheInv, ChoosePool, gpuVars, subVars, lockVars,
           executorVars
  <1>3. SubInv' /\ DagInv' /\ LastChangeInv'
    BY DEF IInv, SubInv, DagInv, LastChangeInv, ChoosePool, gpuVars, subVars, lockVars,
           executorVars
  <1>4. PoolInv' /\ DestructorInv' /\ NoTaskOverlooked'
    BY DEF IInv, PoolInv, DestructorInv, NoTaskOverlooked, Asleep, ChoosePool, gpuVars,
           subVars, lockVars, executorVars
  <1>5. QED
    BY <1>1, <1>2, <1>3, <1>4 DEF IInv

LEMMA CloseIInv ==
  ASSUME IInv, Close
  PROVE  IInv'
  <1>1. TypeOK'
    BY DEF IInv, TypeOK, AlgoTypeOK, LockTypeOK, ExecutorTypeOK, Close, gpuVars,
           subVars, lockVars, executorVars
  <1>2. LockInv' /\ OwnerInv' /\ CacheInv'
    BY DEF IInv, LockInv, OwnerInv, CacheInv, Close, gpuVars, subVars, lockVars,
           executorVars
  <1>3. SubInv' /\ DagInv' /\ LastChangeInv'
    BY DEF IInv, SubInv, DagInv, LastChangeInv, Close, gpuVars, subVars, lockVars,
           executorVars
  <1>4. PoolInv' /\ DestructorInv' /\ NoTaskOverlooked'
    BY DEF IInv, PoolInv, DestructorInv, NoTaskOverlooked, Asleep, Close, gpuVars, subVars,
           lockVars, executorVars
  <1>5. QED
    BY <1>1, <1>2, <1>3, <1>4 DEF IInv

LEMMA JoinGpusIInv ==
  ASSUME IInv, JoinGpus
  PROVE  IInv'
  <1>1. TypeOK'
    BY DEF IInv, TypeOK, AlgoTypeOK, LockTypeOK, ExecutorTypeOK, JoinGpus,
           SetStopping, gpuVars, subVars, lockVars
  <1>2. LockInv' /\ OwnerInv' /\ CacheInv'
    BY DEF IInv, LockInv, OwnerInv, CacheInv, JoinGpus, SetStopping, gpuVars,
           subVars, lockVars
  <1>3. SubInv' /\ DagInv' /\ LastChangeInv'
    BY DEF IInv, SubInv, DagInv, LastChangeInv, JoinGpus, SetStopping, gpuVars,
           subVars, lockVars
  <1>4. PoolInv' /\ DestructorInv' /\ NoTaskOverlooked'
    BY DEF IInv, PoolInv, DestructorInv, NoTaskOverlooked, Asleep, JoinGpus, SetStopping,
           gpuVars, subVars, lockVars
  <1>5. QED
    BY <1>1, <1>2, <1>3, <1>4 DEF IInv

LEMMA NotifyWorkersIInv ==
  ASSUME IInv, NotifyWorkers
  PROVE  IInv'
  <1>1. TypeOK'
    BY DEF IInv, TypeOK, AlgoTypeOK, LockTypeOK, ExecutorTypeOK, NotifyWorkers,
           NotifyAll, gpuVars, subVars, lockVars, Asleep
  <1>2. LockInv' /\ OwnerInv' /\ CacheInv'
    BY DEF IInv, LockInv, OwnerInv, CacheInv, NotifyWorkers, NotifyAll, gpuVars,
           subVars, lockVars, Asleep
  <1>3. SubInv' /\ DagInv' /\ LastChangeInv'
    BY DEF IInv, SubInv, DagInv, LastChangeInv, NotifyWorkers, NotifyAll, gpuVars,
           subVars, lockVars, Asleep
  <1>4. PoolInv' /\ DestructorInv' /\ NoTaskOverlooked'
    BY DEF IInv, PoolInv, DestructorInv, NoTaskOverlooked, Asleep, NotifyWorkers, NotifyAll,
           gpuVars, subVars, lockVars
  <1>5. QED
    BY <1>1, <1>2, <1>3, <1>4 DEF IInv

LEMMA JoinWorkersIInv ==
  ASSUME IInv, JoinWorkers
  PROVE  IInv'
  <1>1. TypeOK'
    BY DEF IInv, TypeOK, AlgoTypeOK, LockTypeOK, ExecutorTypeOK, JoinWorkers,
           gpuVars, subVars, lockVars, executorVars
  <1>2. LockInv' /\ OwnerInv' /\ CacheInv'
    BY DEF IInv, LockInv, OwnerInv, CacheInv, JoinWorkers, gpuVars, subVars,
           lockVars, executorVars
  <1>3. SubInv' /\ DagInv' /\ LastChangeInv'
    BY DEF IInv, SubInv, DagInv, LastChangeInv, JoinWorkers, gpuVars, subVars,
           lockVars, executorVars
  <1>4. PoolInv' /\ DestructorInv' /\ NoTaskOverlooked'
    BY DEF IInv, PoolInv, DestructorInv, NoTaskOverlooked, Asleep, JoinWorkers, gpuVars,
           subVars, lockVars, executorVars
  <1>5. QED
    BY <1>1, <1>2, <1>3, <1>4 DEF IInv

-----------------------------------------------------------------------------
LEMMA InitIInv == Init => IInv
  <1> SUFFICES ASSUME Init PROVE IInv
    OBVIOUS
  <1>1. TypeOK
    <2>1. LockTypeOK /\ ExecutorTypeOK(1 .. MaxJobs)
      <3>1. LockTypeOK
        BY DEF Init, LockInit, LockTypeOK
      <3>2. ExecutorTypeOK(1 .. MaxJobs)
        <4>1. jobQueue \in Seq(1 .. MaxJobs)
          BY DEF Init, ExecutorInit
        <4>2. executor \in [Workers -> {"check", "asleep", "busy", "ended"}]
          BY DEF Init, ExecutorInit
        <4>3. task \in [Workers -> (1 .. MaxJobs) \cup {NoTask}]
          BY DEF Init, ExecutorInit
        <4>4. QED
          BY <4>1, <4>2, <4>3 DEF Init, ExecutorInit, ExecutorTypeOK
      <3>3. QED
        BY <3>1, <3>2
    <2>2. dag \in [Gpus -> [epoch : EpochValues, allocationMaxEpoch : 0 .. MaxEpoch,
                            buffer : 0 .. MaxEpoch \cup {NoBuffer}]]
      BY DEF Init, EpochValues, UnknownEpoch, NoBuffer
    <2>3. /\ jobs \in Seq(Epochs) /\ Len(jobs) <= MaxJobs
          /\ cache \in [epoch : EpochValues, valid : BOOLEAN]
          /\ want \in [Gpus -> EpochValues]
      BY DEF Init, EpochValues
    <2>4. /\ gpuPc \in [Gpus -> {"top", "noPool", "ask", "check", "upgrade", "generate", "release",
                                 "downgrade", "read", "mine", "ended"}]
          /\ subPc \in [SubTasks -> {"off", "ready", "run", "notify"}]
          /\ subJob \in [SubTasks -> 0 .. MaxJobs]
          /\ found \in 0 .. MaxShares
      BY DEF Init, NoJob
    <2>5. QED
      BY <2>1, <2>2, <2>3, <2>4 DEF Init, TypeOK, AlgoTypeOK
  <1>2. LockInv /\ OwnerInv /\ CacheInv
    BY DEF Init, LockInit, ExecutorInit, LockInv, OwnerInv, CacheInv
  <1>3. SubInv /\ DagInv /\ LastChangeInv
    BY DEF Init, SubInv, DagInv, LastChangeInv
  <1>4. PoolInv /\ DestructorInv /\ NoTaskOverlooked
    BY DEF Init, PoolInv, ExecutorInit, DestructorInv, NoTaskOverlooked, Asleep
  <1>5. QED
    BY <1>1, <1>2, <1>3, <1>4 DEF IInv

LEMMA StutterIInv ==
  ASSUME IInv, UNCHANGED vars
  PROVE  IInv'
  BY DEF IInv, vars, gpuVars, subVars, lockVars, executorVars, TypeOK, AlgoTypeOK,
         LockTypeOK, ExecutorTypeOK, LockInv, OwnerInv, CacheInv, SubInv, DagInv,
         LastChangeInv, PoolInv, DestructorInv, NoTaskOverlooked, Asleep

LEMMA NextIInv == IInv /\ [Next]_vars => IInv'
  <1> SUFFICES ASSUME IInv, [Next]_vars PROVE IInv'
    OBVIOUS
  <1>1. ASSUME NEW e \in Epochs, NewJob(e) PROVE IInv'
    BY <1>1, NewJobIInv
  <1>2. ASSUME NEW g \in Gpus, GpuTask(g) \/ LockCache(g) PROVE IInv'
    BY <1>2, EndTaskIInv, GetWorkIInv, PoolWaitIInv, LockCacheIInv, UseCacheIInv, UpgradeCacheIInv,
       GenerateCacheIInv, CacheGeneratedIInv, BadAllocIInv, ReleaseCacheIInv,
       ReadCacheIInv, DagGeneratedIInv, DagFailsIInv, SubTasksDoneIInv DEF GpuTask
  <1>3. ASSUME NEW s \in SubTasks, SubTask(s) \/ FindShare(s) PROVE IInv'
    BY <1>3, SubTaskEndsIInv, SubGetWorkIInv, FindShareIInv, AnnounceShareIInv,
       LeaveWorkIInv DEF SubTask
  <1>4. ASSUME NEW w \in Workers, Worker(w) \/ LockToRead(w) PROVE IInv'
    BY <1>4, LockToReadIInv, submitShareIInv, WorkerLoopIInv DEF Worker
  <1>5. ASSUME ChoosePool \/ Close \/ Destructor PROVE IInv'
    BY <1>5, ChoosePoolIInv, CloseIInv, JoinGpusIInv, NotifyWorkersIInv, JoinWorkersIInv DEF Destructor
  <1>6. ASSUME UNCHANGED vars PROVE IInv'
    BY <1>6, StutterIInv
  <1>7. QED
    BY <1>1, <1>2, <1>3, <1>4, <1>5, <1>6 DEF Next

(* IInv holds in every reachable state: among others a GPU that rebuilds   *)
(* the DAG cache is alone with it, and the cache it then reads is the one  *)
(* it has checked or generated, although it changes the kind of lock twice.*)
THEOREM InductiveInvariant == Spec => []IInv
  <1>1. QED
    BY InitIInv, NextIInv, PTL DEF Spec

(* Subtasks only mine a job whose epoch is that of the DAG of their GPU,   *)
(* and the buffer of that DAG was allocated for that epoch or a later one  *)
(* (gpuSubTask, DagFile::generate).                                        *)
THEOREM RightDag == Spec => []MinesWithRightDag
  <1>1. IInv => MinesWithRightDag
    BY DEF IInv, SubInv, DagInv, MinesWithRightDag
  <1>2. QED
    BY <1>1, InductiveInvariant, PTL

(* Neither addTask nor the destructor of TaskExecutorPool loses a wakeup   *)
(* by notifying after it has released queueMutex.                          *)
THEOREM NoLostWakeup == Spec => []NoTaskOverlooked
  <1>1. IInv => NoTaskOverlooked
    BY DEF IInv
  <1>2. QED
    BY <1>1, InductiveInvariant, PTL

(* submitShare hashes a share with the cache of another epoch only while   *)
(* some GPU has no DAG of the share's epoch: when all GPUs mine for an     *)
(* epoch, whoever changed the cache last left it at that epoch.            *)
THEOREM SharesAreJudgedRight == Spec => SharesJudgedRight
  <1>1. IInv => [\A w \in Workers :
                    submitShare(w) /\ ~RightCache(w) =>
                        \E g \in Gpus : gpuPc[g] # "mine" \/ dag[g].epoch # jobs[task[w]]]_vars
    BY DEF IInv, LastChangeInv, RightCache
  <1>2. QED
    BY <1>1, InductiveInvariant, PTL DEF SharesJudgedRight

(***************************************************************************)
(* Refinement: with its lock the cache keeps the promises of SharedCache.  *)
(***************************************************************************)
Uses(pc) == pc \in {"downgrade", "read"}

(* A GPU that goes somewhere joins the users, leaves them, or neither.     *)
LEMMA UsersOf ==
  ASSUME TypeOK, NEW g \in Gpus, NEW pc, GoTo(g, pc),
         readers' \cap Workers = readers \cap Workers
  PROVE  /\ Uses(pc) => CacheUsers' = CacheUsers \cup {g}
         /\ ~Uses(pc) => CacheUsers' = CacheUsers \ {g}
         /\ g \in CacheUsers <=> Uses(gpuPc[g])
  BY DEF TypeOK, AlgoTypeOK, GoTo, CacheUsers, Uses

(* What leaves the cache, the needs of the GPUs and those who use it alone *)
(* is a stutter.                                                           *)
LEMMA NothingSeen ==
  ASSUME cache' = cache, want' = want, writer' = writer, CacheUsers' = CacheUsers
  PROVE  [Cache!Next]_Cache!vars
  BY Zenon DEF Cache!vars

(* Steps of a GPU that are none of its cache's.                            *)
LEMMA GpuStepsUnseen ==
  ASSUME IInv, NEW g \in Gpus,
         \/ EndTask(g) \/ AwaitPool(g) \/ PoolSeen(g)
         \/ LockCache(g) \/ UpgradeCache(g) \/ BadAlloc(g) \/ ReadCache(g) \/ SubTasksDone(g)
  PROVE  [Cache!Next]_Cache!vars
  <1>1. cache' = cache /\ want' = want /\ writer' = writer
    BY DEF EndTask, AwaitPool, PoolSeen, LockCache, UpgradeCache, BadAlloc, ReadCache, SubTasksDone,
           immediateLock, BeginUpgrade, EndDowngrade, lockVars
  <1>2. readers' \cap Workers = readers \cap Workers
    BY DEF EndTask, AwaitPool, PoolSeen, LockCache, UpgradeCache, BadAlloc, ReadCache, SubTasksDone,
           immediateLock, BeginUpgrade, EndDowngrade, lockVars
  <1>3. PICK pc : GoTo(g, pc) /\ (Uses(pc) <=> Uses(gpuPc[g]))
    BY DEF EndTask, AwaitPool, PoolSeen, LockCache, UpgradeCache, BadAlloc, ReadCache, SubTasksDone, At, Uses
  <1>4. CacheUsers' = CacheUsers
    BY <1>2, <1>3, UsersOf DEF IInv
  <1>5. QED
    BY <1>1, <1>4, NothingSeen

(* tryGetWork, only to learn which epoch is needed.                        *)
LEMMA GetWorkAsks ==
  ASSUME IInv, NEW g \in Gpus, GetWork(g)
  PROVE  Cache!Ask(g)
  <1>1. Last(jobs) \in Epochs
    BY NewestWork DEF IInv, GetWork
  <1>2. readers' = readers /\ writer' = writer
    BY DEF GetWork, lockVars
  <1>3. CacheUsers' = CacheUsers /\ g \notin CacheUsers
    <2>1. GoTo(g, "ask") /\ ~Uses("ask") /\ ~Uses(gpuPc[g])
      BY DEF GetWork, At, Uses
    <2>2. QED
      BY <1>2, <2>1, UsersOf DEF IInv
  <1>4. g # writer
    BY DEF IInv, OwnerInv, GetWork, At
  <1>5. want' = [want EXCEPT ![g] = Last(jobs)] /\ cache' = cache
    BY DEF GetWork
  <1>6. QED
    BY <1>1, <1>2, <1>3, <1>4, <1>5, Zenon DEF Cache!Ask

(* A GPU that found the cache generated uses it from its check on.         *)
LEMMA UseCacheUses ==
  ASSUME IInv, NEW g \in Gpus, UseCache(g)
  PROVE  Cache!Use(g)
  <1>1. readers' = readers /\ writer' = writer /\ cache' = cache /\ want' = want
    BY DEF UseCache, DowngradeImmediate
  <1>2. CacheUsers' = CacheUsers \cup {g} /\ g \notin CacheUsers
    BY <1>1, UsersOf DEF IInv, UseCache, At, Uses
  <1>3. writer = NoThread
    BY DEF IInv, LockInv, OwnerInv, UseCache, At
  <1>4. Cache!GeneratedFor(want[g])
    BY DEF UseCache, isGenerated, Cache!GeneratedFor
  <1>5. QED
    BY <1>1, <1>2, <1>3, <1>4, Zenon DEF Cache!Use

(* The exclusive lock is obtained when nobody uses the cache, and the cache *)
(* is still not what it was not when it was checked.                       *)
LEMMA GenerateCacheReplaces ==
  ASSUME IInv, NEW g \in Gpus, GenerateCache(g)
  PROVE  Cache!Replace(g)
  <1>1. At(g, "upgrade") /\ readers = {} /\ writer = NoThread /\ writer' = g
    BY DEF GenerateCache, EndUpgrade, ExclusiveFree
  <1>2. readers' = readers /\ want' = want
    BY DEF GenerateCache, EndUpgrade
  <1>3. cache' = [cache EXCEPT !.valid = FALSE]
    BY DEF GenerateCache
  <1>4. CacheUsers = {}
    <2>1. upgradeMut = g
      BY <1>1 DEF IInv, OwnerInv, At
    <2>2. \A h \in Gpus : gpuPc[h] \notin {"downgrade", "read"}
      BY <1>1, <2>1 DEF IInv, OwnerInv, At
    <2>3. QED
      BY <1>1, <2>2 DEF CacheUsers
  <1>5. CacheUsers' = {}
    <2>1. PICK pc : GoTo(g, pc) /\ ~Uses(pc)
      BY DEF GenerateCache, Uses
    <2>2. QED
      BY <1>2, <1>4, <2>1, UsersOf DEF IInv
  <1>6. ~Cache!GeneratedFor(want[g])
    BY <1>1 DEF IInv, CacheInv, At, Cache!GeneratedFor
  <1>7. QED
    BY <1>1, <1>2, <1>3, <1>4, <1>5, <1>6, Zenon DEF Cache!Replace

LEMMA CacheGeneratedGenerates ==
  ASSUME IInv, NEW g \in Gpus, CacheGenerated(g)
  PROVE  Cache!Generate(g)
  <1>1. readers' = readers /\ writer' = writer /\ want' = want
    BY DEF CacheGenerated, lockVars
  <1>2. CacheUsers' = CacheUsers
    <2>1. GoTo(g, "release") /\ ~Uses("release") /\ ~Uses(gpuPc[g])
      BY DEF CacheGenerated, At, Uses
    <2>2. QED
      BY <1>1, <2>1, UsersOf DEF IInv
  <1>3. writer = g /\ ~cache.valid
    BY DEF IInv, OwnerInv, CacheInv, CacheGenerated, At
  <1>4. cache' = [epoch |-> want[g], valid |-> TRUE]
    BY DEF CacheGenerated
  <1>5. QED
    BY <1>1, <1>2, <1>3, <1>4, Zenon DEF Cache!Generate

(* Whoever gives the exclusive lock up uses the cache from then on, though *)
(* for a moment it has neither lock.                                       *)
LEMMA ReleaseCacheUses ==
  ASSUME IInv, NEW g \in Gpus, ReleaseCache(g)
  PROVE  Cache!UseOwn(g)
  <1>1. readers' = readers /\ writer' = NoThread /\ cache' = cache /\ want' = want
    BY DEF ReleaseCache, BeginDowngrade
  <1>2. writer = g /\ readers = {} /\ upgradeMut = g /\ gpuPc[g] = "release"
    BY DEF IInv, OwnerInv, LockInv, ReleaseCache, At
  <1>3. CacheUsers = {}
    <2>1. \A h \in Gpus : gpuPc[h] \notin {"downgrade", "read"}
      BY <1>2 DEF IInv, OwnerInv
    <2>2. QED
      BY <1>2, <2>1 DEF CacheUsers
  <1>4. CacheUsers' = {g}
    BY <1>1, <1>3, UsersOf DEF IInv, ReleaseCache, Uses
  <1>5. Cache!GeneratedFor(want[g]) \/ ~cache.valid
    BY <1>2 DEF IInv, CacheInv, TypeOK, AlgoTypeOK, Cache!GeneratedFor
  <1>6. QED
    BY <1>1, <1>2, <1>4, <1>5, Zenon DEF Cache!UseOwn

(* The DAG has been generated from the cache, or could not be.             *)
LEMMA DagLeaves ==
  ASSUME IInv, NEW g \in Gpus, DagGenerated(g) \/ DagFails(g)
  PROVE  Cache!Leave(g)
  <1>1. /\ readers' = readers \ {g} /\ writer' = writer /\ cache' = cache
        /\ want' = [want EXCEPT ![g] = UnknownEpoch]
    BY DEF DagGenerated, DagFails, DropWork, UnlockShared
  <1>2. readers' \cap Workers = readers \cap Workers
    BY <1>1
  <1>3. CacheUsers' = CacheUsers \ {g} /\ g \in CacheUsers
    <2>1. PICK pc : GoTo(g, pc) /\ ~Uses(pc) /\ Uses(gpuPc[g])
      BY DEF DagGenerated, DagFails, At, Uses
    <2>2. QED
      BY <1>2, <2>1, UsersOf DEF IInv
  <1>4. QED
    BY <1>1, <1>3, Zenon DEF Cache!Leave

(* Workers use whatever the cache has, between their lock and its release. *)
LEMMA WorkerStepImplementsCache ==
  ASSUME IInv, NEW w \in Workers, Worker(w) \/ LockToRead(w)
  PROVE  [Cache!Next]_Cache!vars
  <1>1. CASE LockToRead(w)
    <2>1. /\ writer = NoThread /\ w \notin readers /\ readers' = readers \cup {w}
          /\ writer' = writer /\ cache' = cache /\ want' = want /\ gpuPc' = gpuPc
      BY <1>1 DEF LockToRead, readLock, NotWorker, gpuVars
    <2>2. w \notin CacheUsers /\ CacheUsers' = CacheUsers \cup {w}
      BY <2>1 DEF CacheUsers
    <2>3. Cache!LookUp(w)
      BY <2>1, <2>2, Zenon DEF Cache!LookUp
    <2>4. QED
      BY <2>3, Zenon DEF Cache!Next
  <1>2. CASE submitShare(w)
    <2>1. /\ w \in readers /\ readers' = readers \ {w}
          /\ writer' = writer /\ cache' = cache /\ want' = want /\ gpuPc' = gpuPc
      BY <1>2 DEF submitShare, UnlockShared, NotWorker, gpuVars
    <2>2. w \in CacheUsers /\ CacheUsers' = CacheUsers \ {w}
      BY <2>1 DEF CacheUsers
    <2>3. Cache!LookedUp(w)
      BY <2>1, <2>2, Zenon DEF Cache!LookedUp
    <2>4. QED
      BY <2>3, Zenon DEF Cache!Next
  <1>3. CASE WorkerLoop(w)
    <2>1. /\ writer' = writer /\ readers' = readers /\ gpuPc' = gpuPc
          /\ cache' = cache /\ want' = want
      BY <1>3 DEF WorkerLoop, NotWorker, gpuVars, lockVars
    <2>2. CacheUsers' = CacheUsers
      BY <2>1 DEF CacheUsers
    <2>3. QED
      BY <2>1, <2>2, NothingSeen
  <1>4. QED
    BY <1>1, <1>2, <1>3 DEF Worker

LEMMA StepImplementsCache == IInv /\ [Next]_vars => [Cache!Next]_Cache!vars
  <1> SUFFICES ASSUME IInv, [Next]_vars PROVE [Cache!Next]_Cache!vars
    OBVIOUS
  <1>1. ASSUME NEW g \in Gpus, GpuTask(g) \/ LockCache(g) PROVE [Cache!Next]_Cache!vars
    <2>1. CASE \/ EndTask(g) \/ AwaitPool(g) \/ PoolSeen(g) \/ LockCache(g) \/ UpgradeCache(g) \/ BadAlloc(g)
               \/ ReadCache(g) \/ SubTasksDone(g)
      BY <2>1, GpuStepsUnseen
    <2>2. CASE \/ GetWork(g) \/ UseCache(g) \/ GenerateCache(g) \/ CacheGenerated(g)
               \/ ReleaseCache(g) \/ DagGenerated(g) \/ DagFails(g)
      <3>1. \/ Cache!Ask(g) \/ Cache!Use(g) \/ Cache!Replace(g) \/ Cache!Generate(g)
            \/ Cache!UseOwn(g) \/ Cache!Leave(g)
        BY <2>2, GetWorkAsks, UseCacheUses, GenerateCacheReplaces,
           CacheGeneratedGenerates, ReleaseCacheUses, DagLeaves
      <3>2. QED
        BY <3>1, Zenon DEF Cache!Next
    <2>3. QED
      BY <1>1, <2>1, <2>2 DEF GpuTask
  <1>2. ASSUME NEW w \in Workers, Worker(w) \/ LockToRead(w) PROVE [Cache!Next]_Cache!vars
    BY <1>2, WorkerStepImplementsCache
  <1>3. ASSUME \/ \E e \in Epochs : NewJob(e)
               \/ \E s \in SubTasks : SubTask(s) \/ FindShare(s)
               \/ ChoosePool \/ Close \/ Destructor
               \/ UNCHANGED vars
        PROVE  [Cache!Next]_Cache!vars
    <2>1. UNCHANGED <<cache, want, gpuPc, readers, writer>>
      BY <1>3 DEF NewJob, SubTask, SubTaskEnds, SubGetWork, AnnounceShare, LeaveWork,
                  FindShare, ChoosePool, Close, Destructor, JoinGpus, NotifyWorkers, JoinWorkers,
                  NotSub, vars, gpuVars, lockVars
    <2>2. CacheUsers' = CacheUsers
      BY <2>1 DEF CacheUsers
    <2>3. QED
      BY <2>1, <2>2, NothingSeen
  <1>4. QED
    BY <1>1, <1>2, <1>3 DEF Next

(* The cache behind its UpgradeableLockGuarded (dagCache) keeps the        *)
(* promises of SharedCache: a GPU that checks the cache and then generates *)
(* it does so in one step as far as the others can tell, and what it has   *)
(* checked or generated stays until its DAG is done.                       *)
THEOREM CacheIsShared == Spec => ImplementsSharedCache
  <1>1. Init => Cache!Init
    <2> SUFFICES ASSUME Init PROVE Cache!Init
      OBVIOUS
    <2>1. CacheUsers = {}
      BY DEF Init, LockInit, CacheUsers
    <2>2. QED
      BY <2>1, Zenon DEF Init, LockInit, Cache!Init
  <1>2. QED
    BY <1>1, StepImplementsCache, InductiveInvariant, PTL
       DEF Spec, ImplementsSharedCache, Cache!Spec
=============================================================================
