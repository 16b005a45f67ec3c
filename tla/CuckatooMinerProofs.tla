-------------------------- MODULE CuckatooMinerProofs --------------------------
(***************************************************************************)
(* Theorems about LazyWorkQueue, for any set of GPU threads, any number of *)
(* jobs kept and any bound on the ids, and about CuckatooMiner, which runs *)
(* on such a queue, for any number of executors and of rounds.             *)
(***************************************************************************)
EXTENDS CuckatooMiner, SequenceTheorems, TLAPS

USE LazyWorkQueueAssumption DEF LazyWorkQueueAssumption

(* Pushing to the front.                                                   *)
LEMMA PushFacts ==
    ASSUME NEW S, NEW q \in Seq(S), NEW e \in S
    PROVE  /\ <<e>> \o q \in Seq(S)
           /\ <<e>> \o q # <<>>
           /\ Head(<<e>> \o q) = e
           /\ Len(<<e>> \o q) = Len(q) + 1
           /\ (<<e>> \o q)[1] = e
           /\ \A i \in 2 .. Len(q) + 1 : (<<e>> \o q)[i] = q[i - 1]
  OBVIOUS

LEMMA TrimFacts ==
    ASSUME NEW S, NEW q \in Seq(S)
    PROVE  /\ Trim(q) \in Seq(S)
           /\ Len(Trim(q)) <= Len(q)
           /\ \A i \in 1 .. Len(Trim(q)) : Trim(q)[i] = q[i]
  BY DEF Trim

LEMMA HeadFacts ==
    ASSUME NEW S, NEW q \in Seq(S), q # <<>>
    PROVE  Head(q) = q[1] /\ Head(q) \in S /\ Len(q) >= 1
  OBVIOUS

-----------------------------------------------------------------------------
LEMMA InitIInv == Init => IInv
  <1> SUFFICES ASSUME Init PROVE IInv
    OBVIOUS
  <1>1. TypeOK
    BY DEF Init, TypeOK, NoWork
  <1>2. JobsNewestFirst /\ NewestJobIsFresh /\ IdInv
    BY DEF Init, JobsNewestFirst, NewestJobIsFresh, IdInv, NoWork
  <1>3. QED
    BY <1>1, <1>2 DEF IInv

(* The first half of pushJob: nothing the older jobs are is disturbed, and *)
(* the id is larger than theirs.                                           *)
LEMMA DrawIdIInv ==
    ASSUME IInv, NEW cleanFlag \in BOOLEAN, DrawId(cleanFlag)
    PROVE  IInv'
  <1>1. /\ jobQueue' \in Seq(1 .. MaxLatest) /\ Len(jobQueue') <= Len(jobQueue)
        /\ \A i \in 1 .. Len(jobQueue') : jobQueue'[i] = jobQueue[i]
    <2>1. jobQueue \in Seq(1 .. MaxLatest)
      BY DEF IInv, TypeOK
    <2>2. CASE cleanFlag
      BY <2>1, <2>2 DEF DrawId
    <2>3. CASE ~cleanFlag
      <3>1. jobQueue' = Trim(jobQueue)
        BY <2>3 DEF DrawId
      <3>2. QED
        BY <2>1, <3>1, TrimFacts
    <2>4. QED
      BY <2>2, <2>3
  <1>2. TypeOK'
    BY <1>1 DEF IInv, TypeOK, DrawId, DrawnId
  <1>3. JobsNewestFirst'
    <2> SUFFICES ASSUME NEW i \in 1 .. Len(jobQueue'), NEW k \in 1 .. Len(jobQueue'), i < k
                 PROVE  jobQueue'[i] > jobQueue'[k]
      BY DEF JobsNewestFirst
    <2>1. Len(jobQueue) \in Nat /\ Len(jobQueue') \in Nat
      BY <1>1 DEF IInv, TypeOK
    <2>2. i \in 1 .. Len(jobQueue) /\ k \in 1 .. Len(jobQueue)
      BY <1>1, <2>1
    <2>3. jobQueue[i] > jobQueue[k]
      BY <2>2 DEF IInv, JobsNewestFirst
    <2>4. QED
      BY <1>1, <2>3
  <1>4. NewestJobIsFresh'
    BY DEF IInv, TypeOK, NewestJobIsFresh, DrawId, DrawnId, Unlocked
  <1>5. IdInv'
    <2>1. jobQueue' # <<>> => jobQueue # <<>> /\ Head(jobQueue') = Head(jobQueue)
      BY <1>1, HeadFacts DEF IInv, TypeOK
    <2>2. QED
      BY <2>1, HeadFacts DEF IInv, TypeOK, IdInv, DrawId, DrawnId, Unlocked
  <1>6. QED
    BY <1>2, <1>3, <1>4, <1>5 DEF IInv

(* The second half: the new job is in front of the older ones.             *)
LEMMA EmplaceFrontIInv ==
    ASSUME IInv, EmplaceFront
    PROVE  IInv'
  <1>1. /\ pushing \in 1 .. MaxLatest /\ pushing = offered
        /\ jobQueue' = <<pushing>> \o jobQueue /\ pushing' = 0
        /\ UNCHANGED <<latestJobId, work, offered, expireMark>>
    BY DEF IInv, TypeOK, IdInv, EmplaceFront, Unlocked
  <1>2. /\ jobQueue' \in Seq(1 .. MaxLatest) /\ Head(jobQueue') = pushing
        /\ jobQueue'[1] = pushing /\ Len(jobQueue') = Len(jobQueue) + 1
        /\ \A i \in 2 .. Len(jobQueue) + 1 : jobQueue'[i] = jobQueue[i - 1]
    BY <1>1, PushFacts DEF IInv, TypeOK
  <1>3. TypeOK'
    BY <1>1, <1>2 DEF IInv, TypeOK
  <1>4. JobsNewestFirst'
    <2> SUFFICES ASSUME NEW i \in 1 .. Len(jobQueue) + 1, NEW k \in 1 .. Len(jobQueue) + 1, i < k
                 PROVE  jobQueue'[i] > jobQueue'[k]
      BY <1>2 DEF JobsNewestFirst
    <2>1. /\ jobQueue \in Seq(1 .. MaxLatest) /\ Len(jobQueue) \in Nat
          /\ jobQueue'[k] = jobQueue[k - 1] /\ k - 1 \in 1 .. Len(jobQueue)
      BY <1>2 DEF IInv, TypeOK
    <2>2. CASE i = 1
      <3>1. jobQueue # <<>> /\ 1 \in 1 .. Len(jobQueue) /\ Head(jobQueue) = jobQueue[1] /\ Head(jobQueue) < pushing
        BY <1>1, <2>1, <2>2, HeadFacts DEF IInv, IdInv
      <3>2. k - 1 = 1 \/ jobQueue[1] > jobQueue[k - 1]
        BY <2>1, <2>2, <3>1 DEF IInv, JobsNewestFirst
      <3>3. jobQueue[1] \in Nat /\ jobQueue[k - 1] \in Nat /\ pushing \in Nat
        <4>1. jobQueue[1] \in 1 .. MaxLatest /\ jobQueue[k - 1] \in 1 .. MaxLatest
          BY <2>1, <3>1
        <4>2. QED
          BY <1>1, <4>1
      <3>4. jobQueue[k - 1] < pushing
        BY <3>1, <3>2, <3>3
      <3>5. jobQueue'[i] = pushing
        BY <1>2, <2>2
      <3>6. QED
        BY <2>1, <3>3, <3>4, <3>5
    <2>3. CASE i # 1
      <3>1. i \in 2 .. Len(jobQueue) + 1 /\ i - 1 \in 1 .. Len(jobQueue) /\ i - 1 < k - 1
        BY <2>1, <2>3
      <3>2. jobQueue'[i] = jobQueue[i - 1]
        BY <1>2, <3>1
      <3>3. jobQueue[i - 1] > jobQueue[k - 1]
        BY <2>1, <3>1 DEF IInv, JobsNewestFirst
      <3>4. QED
        BY <2>1, <3>2, <3>3
    <2>4. QED
      BY <2>2, <2>3
  <1>5. NewestJobIsFresh'
    <2>1. Len(jobQueue') \in Nat /\ 1 \in 1 .. Len(jobQueue')
      BY <1>2 DEF IInv, TypeOK
    <2>2. Alive(offered)'
      BY <1>1, <1>2, <2>1 DEF Alive
    <2>3. offered > expireMark => ~isExpiredJob(offered)'
      BY <1>1 DEF IInv, IdInv, isExpiredJob
    <2>4. Head(jobQueue') = offered'
      BY <1>1, <1>2
    <2>5. QED
      BY <1>1, <2>2, <2>3, <2>4, Zenon DEF NewestJobIsFresh, Expired
  <1>6. IdInv'
    BY <1>1, <1>2 DEF IInv, IdInv
  <1>7. QED
    BY <1>3, <1>4, <1>5, <1>6 DEF IInv

(* expireJobs may come between the two halves.                             *)
LEMMA expireJobsIInv ==
    ASSUME IInv, expireJobs
    PROVE  IInv'
  <1>1. /\ latestJobId' = latestJobId + 1 /\ expireMark' = latestJobId + 1
        /\ latestJobId \in Nat /\ latestJobId < MaxLatest
        /\ UNCHANGED <<jobQueue, pushing, work, offered>>
    BY DEF IInv, TypeOK, expireJobs, ExpiredLatest
  <1>2. TypeOK'
    BY <1>1 DEF IInv, TypeOK
  <1>3. JobsNewestFirst'
    BY <1>1 DEF IInv, JobsNewestFirst
  <1>4. IdInv'
    BY <1>1 DEF IInv, TypeOK, IdInv
  <1>5. NewestJobIsFresh'
    BY <1>1, HeadFacts DEF IInv, TypeOK, IdInv, NewestJobIsFresh, Unlocked
  <1>6. QED
    BY <1>2, <1>3, <1>4, <1>5 DEF IInv

LEMMA clearIInv ==
    ASSUME IInv, clear
    PROVE  IInv'
  <1>1. jobQueue' = <<>> /\ UNCHANGED <<latestJobId, pushing, work, offered, expireMark>>
    BY DEF clear
  <1>2. TypeOK'
    BY <1>1 DEF IInv, TypeOK
  <1>3. JobsNewestFirst' /\ NewestJobIsFresh' /\ IdInv'
    BY <1>1 DEF IInv, JobsNewestFirst, NewestJobIsFresh, IdInv
  <1>4. QED
    BY <1>2, <1>3 DEF IInv

LEMMA tryGetWorkIInv ==
    ASSUME IInv, NEW g \in Gpus, tryGetWork(g)
    PROVE  IInv'
  <1>1. PICK w \in 0 .. MaxLatest : work' = [work EXCEPT ![g] = w] /\ w <= offered
    <2>1. CASE jobQueue = <<>>
      <3>1. work' = [work EXCEPT ![g] = 0]
        BY <2>1 DEF tryGetWork, NoWork
      <3>2. 0 \in 0 .. MaxLatest /\ 0 <= offered
        BY DEF IInv, TypeOK
      <3>3. QED
        BY <3>1, <3>2
    <2>2. CASE jobQueue # <<>>
      <3>1. work' = [work EXCEPT ![g] = offered]
        BY <2>2 DEF IInv, IdInv, tryGetWork, NewestJob, Unlocked
      <3>2. offered \in 0 .. MaxLatest /\ offered <= offered
        BY DEF IInv, TypeOK
      <3>3. QED
        BY <3>1, <3>2
    <2>3. QED
      BY <2>1, <2>2
  <1>2. UNCHANGED <<jobQueue, latestJobId, pushing, offered, expireMark>>
    BY DEF tryGetWork
  <1>3. TypeOK'
    BY <1>1, <1>2 DEF IInv, TypeOK
  <1>4. JobsNewestFirst' /\ NewestJobIsFresh'
    BY <1>2 DEF IInv, JobsNewestFirst, NewestJobIsFresh, Unlocked, Expired, Alive, isExpiredJob
  <1>5. IdInv'
    BY <1>1, <1>2 DEF IInv, TypeOK, IdInv
  <1>6. QED
    BY <1>3, <1>4, <1>5 DEF IInv

LEMMA NextIInv == IInv /\ [Next]_vars => IInv'
  <1> SUFFICES ASSUME IInv, [Next]_vars PROVE IInv'
    OBVIOUS
  <1>1. CASE UNCHANGED vars
    BY <1>1 DEF IInv, vars, TypeOK, JobsNewestFirst, NewestJobIsFresh, IdInv, Unlocked,
                Expired, Alive, isExpiredJob
  <1>2. QED
    BY <1>1, DrawIdIInv, EmplaceFrontIInv, expireJobsIInv, clearIInv, tryGetWorkIInv DEF Next

(* The ids stay ordered, the newest job first, although expireJobs draws   *)
(* from the counter without the lock pushJob has; the newest job is only   *)
(* expired by an expireJobs that came after its id was drawn.              *)
THEOREM InductiveInvariant == Spec => []IInv
  <1>1. QED
    BY InitIInv, NextIInv, PTL DEF Spec

(* expireJobs expires every job that was given its id before, for good and *)
(* whenever its works are handed out.                                      *)
THEOREM ExpireReachesAll == Spec => []ExpireJobsExpiresAll
  <1>1. IInv => ExpireJobsExpiresAll
    BY DEF IInv, TypeOK, IdInv, ExpireJobsExpiresAll, Expired, isExpiredJob
  <1>2. QED
    BY <1>1, InductiveInvariant, PTL

-----------------------------------------------------------------------------
(* Refinement: drawing an id offers the job, the rest of pushJob and clear *)
(* are stutters.                                                           *)
LEMMA StepImplementsSource ==
    ASSUME IInv, [Next]_vars
    PROVE  [Source!Next]_Source!vars
  <1> USE DEF Source!vars
  <1>1. offered \in Nat /\ latestJobId \in Nat /\ offered <= latestJobId
    BY DEF IInv, TypeOK, IdInv
  <1>2. ASSUME NEW cleanFlag \in BOOLEAN, DrawId(cleanFlag)
        PROVE  [Source!Next]_Source!vars
    <2>1. offered' \in Nat /\ offered' > offered /\ UNCHANGED work
      BY <1>1, <1>2 DEF DrawId, DrawnId
    <2>2. (latestJobId = offered)' \in BOOLEAN
      OBVIOUS
    <2>3. Source!Offer
      BY <2>1, <2>2, Zenon DEF Source!Offer
    <2>4. QED
      BY <2>3, Zenon DEF Source!Next
  <1>3. CASE expireJobs
    <2>1. (latestJobId = offered)' = FALSE
      BY <1>1, <1>3 DEF expireJobs, ExpiredLatest
    <2>2. Source!Expire
      BY <1>3, <2>1, Zenon DEF Source!Expire, expireJobs
    <2>3. QED
      BY <2>2, Zenon DEF Source!Next
  <1>4. ASSUME NEW g \in Gpus, tryGetWork(g)
        PROVE  [Source!Next]_Source!vars
    <2>1. UNCHANGED <<offered, latestJobId>>
      BY <1>4, Zenon DEF tryGetWork
    <2>2. CASE jobQueue = <<>>
      <3>1. Source!Drop(g)
        BY <1>4, <2>1, <2>2, Zenon DEF Source!Drop, tryGetWork, NoWork
      <3>2. QED
        BY <3>1, Zenon DEF Source!Next
    <2>3. CASE jobQueue # <<>>
      <3>1. NewestJob = offered /\ offered > 0
        BY <1>4, <2>3, HeadFacts DEF IInv, TypeOK, IdInv, tryGetWork, NewestJob, Unlocked
      <3>2. Source!Take(g)
        BY <1>4, <2>1, <2>3, <3>1, Zenon DEF Source!Take, tryGetWork
      <3>3. QED
        BY <3>2, Zenon DEF Source!Next
    <2>4. QED
      BY <2>2, <2>3
  <1>5. CASE EmplaceFront \/ clear \/ UNCHANGED vars
    BY <1>5, Zenon DEF EmplaceFront, clear, vars
  <1>6. QED
    BY <1>2, <1>3, <1>4, <1>5, Zenon DEF Next

(* The lazy queue keeps the promise of a source of works.                  *)
THEOREM LazyQueueImplementsSource == Spec => ImplementsWorkSource
  <1>1. Init => Source!Init
    <2> SUFFICES ASSUME Init PROVE Source!Init
      OBVIOUS
    <2>1. (latestJobId = offered) \in BOOLEAN
      OBVIOUS
    <2>2. QED
      BY <2>1, Zenon DEF Init, Source!Init, NoWork
  <1>2. IInv /\ [Next]_vars => [Source!Next]_Source!vars
    BY StepImplementsSource
  <1>3. QED
    BY <1>1, <1>2, InductiveInvariant, PTL DEF Spec, ImplementsWorkSource, Source!Spec

-----------------------------------------------------------------------------
(* The miner.                                                              *)

(* What a step that leaves the executor pool alone has to respect: a       *)
(* thread that owes a notify keeps owing it, an ended thread stays ended,  *)
(* and a thread ends only when its solver has no task.                     *)
LEMMA ThreadStep ==
    ASSUME MinerInv, MinerTypeOK', UNCHANGED <<future, execVars>>,
           appPc' = appPc \/ (appPc = "running" /\ appPc' = "joinGpus"),
           \A g \in Gpus : gpu[g] = "notify" => gpu'[g] = "notify",
           \A g \in Gpus : gpu[g] = "ended" => gpu'[g] = "ended",
           \A g \in Gpus : gpu'[g] = "ended" => gpu[g] = "ended" \/ future[g] # "pending"
    PROVE  MinerInv'
  <1> USE DEF execVars
  <1>1. OneTaskPerGpu'
    BY DEF MinerInv, OneTaskPerGpu, Queued, Running
  <1>2. TasksHaveTheirSolver'
    <2>1. ASSUME NEW g \in Gpus, gpu'[g] = "ended"
          PROVE  Queued(g)' = {} /\ Running(g)' = {}
      <3>1. Queued(g) = {} /\ Running(g) = {}
        BY <2>1 DEF MinerInv, OneTaskPerGpu, TasksHaveTheirSolver
      <3>2. QED
        BY <3>1 DEF Queued, Running
    <2>2. QED
      BY <2>1 DEF MinerInv, TasksHaveTheirSolver
  <1>3. ClosingInv'
    BY DEF MinerInv, ClosingInv
  <1>4. TaskSeen'
    BY DEF MinerInv, TaskSeen, ClosingInv
  <1>5. QED
    BY <1>1, <1>2, <1>3, <1>4 DEF MinerInv

(* Nothing changes for a GPU whose tasks wait and run as before.           *)
LEMMA SameTasks ==
    ASSUME OneTaskPerGpu, UNCHANGED future,
           \A h \in Gpus : Queued(h)' = Queued(h) /\ Running(h)' = Running(h)
    PROVE  OneTaskPerGpu'
  <1> SUFFICES ASSUME NEW h \in Gpus
               PROVE  /\ future'[h] = "pending" <=> Queued(h)' # {} \/ Running(h)' # {}
                      /\ Queued(h)' = {} \/ Running(h)' = {}
                      /\ \A m, n \in Queued(h)' : m = n
                      /\ \A v, w \in Running(h)' : v = w
    BY Zenon DEF OneTaskPerGpu
  <1>1. QED
    BY DEF OneTaskPerGpu

LEMMA InitMinerInv == MinerInit => MinerInv
  <1> SUFFICES ASSUME MinerInit PROVE MinerInv
    OBVIOUS
  <1>1. /\ taskQueue = <<>> /\ executor = [w \in Workers |-> "check"] /\ stopping = FALSE
        /\ task = [w \in Workers |-> 0] /\ future = [g \in Gpus |-> "none"] /\ appPc = "running"
    BY DEF MinerInit, Exec!ExecutorInit, Exec!NoTask
  <1>2. MinerTypeOK
    <2>1. round \in [Gpus -> 0 .. Rounds - 1]
      BY CuckatooMinerAssumption DEF CuckatooMinerAssumption, MinerInit
    <2>2. /\ gpu \in [Gpus -> {"test", "ended"}] /\ build = [g \in Gpus |-> "building"]
          /\ terminate = FALSE /\ poolActive = FALSE
      BY DEF MinerInit
    <2>3. Exec!ExecutorTypeOK(Gpus)
      <3>1. task \in [Workers -> Gpus \cup {0}] /\ executor \in [Workers -> {"check", "asleep", "busy", "ended"}]
        BY <1>1
      <3>2. taskQueue \in Seq(Gpus)
        <4>1. taskQueue = <<>>
          BY <1>1
        <4>2. QED
          BY <4>1, EmptySeq
      <3>3. QED
        BY <1>1, <3>1, <3>2 DEF Exec!ExecutorTypeOK, Exec!NoTask
    <2>4. future \in [Gpus -> {"none", "pending", "ready"}]
      BY <1>1
    <2>5. QED
      BY <1>1, <2>1, <2>2, <2>3, <2>4 DEF MinerTypeOK
  <1>3. \A g \in Gpus : Queued(g) = {} /\ Running(g) = {}
    BY <1>1 DEF Queued, Running
  <1>4. OneTaskPerGpu /\ TasksHaveTheirSolver /\ ClosingInv /\ TaskSeen
    BY <1>1, <1>3 DEF OneTaskPerGpu, TasksHaveTheirSolver, ClosingInv, TaskSeen
  <1>5. QED
    BY <1>2, <1>4 DEF MinerInv

-----------------------------------------------------------------------------
(* The loader.                                                             *)
LEMMA LoaderMinerInv ==
    ASSUME MinerInv, NEW g \in Gpus,
           \/ StillBuilding(g) \/ Sleep(g) \/ Compiled(g)
           \/ BuildEnds(g) \/ onDidCompile(g)
    PROVE  MinerInv'
  <1>1. UNCHANGED <<future, execVars, appPc>>
    BY DEF StillBuilding, Sleep, Compiled, BuildEnds, onDidCompile, Loading, ownerVars
  <1>2. PICK pc \in {"test", "enter", "asleep", "loop"} :
            gpu' = gpu \/ (gpu[g] \notin {"notify", "ended"} /\ gpu' = [gpu EXCEPT ![g] = pc])
    <2>1. CASE StillBuilding(g) \/ Sleep(g) \/ Compiled(g)
      BY <2>1 DEF StillBuilding, Sleep, Compiled, At, GoTo
    <2>2. CASE BuildEnds(g)
      BY <2>2 DEF BuildEnds
    <2>3. CASE onDidCompile(g)
      BY <2>3 DEF onDidCompile, Woken, At
    <2>4. QED
      BY <2>1, <2>2, <2>3
  <1>3. build' \in [Gpus -> {"building", "built", "called"}] /\ UNCHANGED <<round, terminate, poolActive>>
    BY DEF MinerInv, MinerTypeOK, StillBuilding, Sleep, Compiled, BuildEnds, onDidCompile,
           Loading, ownerVars
  <1>4. MinerTypeOK'
    BY <1>1, <1>2, <1>3 DEF MinerInv, MinerTypeOK, Exec!ExecutorTypeOK, execVars
  <1>5. \A h \in Gpus : gpu'[h] = gpu[h] \/ (gpu[h] \notin {"notify", "ended"} /\ gpu'[h] = pc)
    BY <1>2 DEF MinerInv, MinerTypeOK
  <1>6. QED
    BY <1>1, <1>4, <1>5, ThreadStep DEF execVars

(* The thread of a GPU while it does not touch the executor pool.          *)
LEMMA SolveMinerInv ==
    ASSUME MinerInv, NEW g \in Gpus,
           \/ GetWork(g) \/ AwaitPool(g) \/ PoolSeen(g)
           \/ PruneRound(g) \/ Finish(g) \/ LeaveLoop(g) \/ EndThread(g)
    PROVE  MinerInv'
  <1>1. UNCHANGED <<future, execVars, appPc, poolActive, build, terminate>>
    BY DEF GetWork, AwaitPool, PoolSeen, PruneRound, Finish, LeaveLoop, EndThread, Solving, ownerVars
  <1>2. PICK pc \in {"loop", "noPool", "prune", "finish", "wait", "destroy", "ended"} :
            /\ gpu' = gpu \/ gpu' = [gpu EXCEPT ![g] = pc]
            /\ gpu[g] \notin {"notify", "ended"}
            /\ pc = "ended" => future[g] # "pending"
    <2>1. CASE GetWork(g) \/ AwaitPool(g) \/ PoolSeen(g)
      BY <2>1 DEF GetWork, AwaitPool, PoolSeen, At, GoTo
    <2>2. CASE PruneRound(g)
      BY <2>2 DEF PruneRound, At, GoTo
    <2>3. CASE Finish(g) \/ LeaveLoop(g) \/ EndThread(g)
      BY <2>3 DEF Finish, LeaveLoop, EndThread, SolverIdle, At, GoTo
    <2>4. QED
      BY <2>1, <2>2, <2>3
  <1>3. round' \in [Gpus -> 0 .. Rounds - 1]
    <2>1. round \in [Gpus -> 0 .. Rounds - 1] /\ Rounds \in Nat /\ Rounds # 0
      BY CuckatooMinerAssumption DEF MinerInv, MinerTypeOK, CuckatooMinerAssumption
    <2>2. CASE PruneRound(g)
      BY <2>1, <2>2 DEF PruneRound
    <2>3. CASE \/ GetWork(g) \/ AwaitPool(g) \/ PoolSeen(g)
               \/ Finish(g) \/ LeaveLoop(g) \/ EndThread(g)
      BY <2>1, <2>3 DEF GetWork, AwaitPool, PoolSeen, Finish, LeaveLoop, EndThread
    <2>4. QED
      BY <2>2, <2>3
  <1>4. MinerTypeOK'
    BY <1>1, <1>2, <1>3 DEF MinerInv, MinerTypeOK, Exec!ExecutorTypeOK, execVars
  <1>5. \A h \in Gpus : gpu'[h] = gpu[h] \/ (h = g /\ gpu'[h] = pc)
    BY <1>2 DEF MinerInv, MinerTypeOK
  <1>6. QED
    BY <1>1, <1>2, <1>4, <1>5, ThreadStep DEF execVars

-----------------------------------------------------------------------------
(* A task is only added when the previous one is done, so it is the only   *)
(* one of its GPU.                                                         *)
LEMMA AddTaskMinerInv ==
    ASSUME MinerInv, NEW g \in Gpus, AddTask(g)
    PROVE  MinerInv'
  <1>1. /\ gpu[g] = "wait" /\ gpu' = [gpu EXCEPT ![g] = "notify"]
        /\ future[g] # "pending" /\ future' = [future EXCEPT ![g] = "pending"]
        /\ taskQueue' = Append(taskQueue, g)
        /\ UNCHANGED <<executor, task, stopping, appPc, build, round, terminate, poolActive>>
    BY DEF AddTask, At, GoTo, PreviousDone, Exec!addTask, Solving, ownerVars
  <1>2. /\ taskQueue \in Seq(Gpus)
        /\ gpu'[g] = "notify" /\ \A h \in Gpus : h # g => gpu'[h] = gpu[h]
        /\ future'[g] = "pending" /\ \A h \in Gpus : h # g => future'[h] = future[h]
    BY <1>1 DEF MinerInv, MinerTypeOK, Exec!ExecutorTypeOK
  <1>3. /\ taskQueue' \in Seq(Gpus) /\ Len(taskQueue') = Len(taskQueue) + 1
        /\ taskQueue'[Len(taskQueue) + 1] = g
        /\ \A n \in 1 .. Len(taskQueue) : taskQueue'[n] = taskQueue[n]
        /\ Len(taskQueue) \in Nat /\ taskQueue' # <<>>
    BY <1>1, <1>2
  <1>4. MinerTypeOK'
    BY <1>1, <1>3 DEF MinerInv, MinerTypeOK, Exec!ExecutorTypeOK
  <1>5. Queued(g) = {} /\ Running(g) = {}
    BY <1>1 DEF MinerInv, OneTaskPerGpu
  <1>6. Queued(g)' = {Len(taskQueue) + 1}
    BY <1>3, <1>5 DEF Queued
  <1>7. \A h \in Gpus : h # g => Queued(h)' = Queued(h)
    BY <1>3 DEF Queued
  <1>8. \A h \in Gpus : Running(h)' = Running(h)
    BY <1>1 DEF Running
  <1>9. OneTaskPerGpu'
    <2> SUFFICES ASSUME NEW h \in Gpus
                 PROVE  /\ future'[h] = "pending" <=> Queued(h)' # {} \/ Running(h)' # {}
                        /\ Queued(h)' = {} \/ Running(h)' = {}
                        /\ \A m, n \in Queued(h)' : m = n
                        /\ \A v, w \in Running(h)' : v = w
      BY Zenon DEF OneTaskPerGpu
    <2>1. CASE h = g
      BY <1>1, <1>2, <1>5, <1>6, <1>8, <2>1
    <2>2. CASE h # g
      BY <1>1, <1>2, <1>7, <1>8, <2>2 DEF MinerInv, OneTaskPerGpu
    <2>3. QED
      BY <2>1, <2>2
  <1>10. ~stopping
    BY <1>1 DEF MinerInv, ClosingInv
  <1>11. TasksHaveTheirSolver' /\ ClosingInv'
    BY <1>1, <1>2, <1>7, <1>8, <1>10 DEF MinerInv, TasksHaveTheirSolver, ClosingInv
  <1>12. TaskSeen'
    BY <1>1, <1>2, <1>10 DEF TaskSeen
  <1>13. QED
    BY <1>4, <1>9, <1>11, <1>12 DEF MinerInv

(* The notify wakes an executor unless none sleeps.                        *)
LEMMA NotifyTaskMinerInv ==
    ASSUME MinerInv, NEW g \in Gpus, NotifyTask(g)
    PROVE  MinerInv'
  <1>1. /\ gpu[g] = "notify" /\ gpu' = [gpu EXCEPT ![g] = "loop"]
        /\ UNCHANGED <<future, taskQueue, task, stopping, appPc, build, round, terminate, poolActive>>
    BY DEF NotifyTask, At, GoTo, Solving, ownerVars
  <1>2. /\ executor \in [Workers -> {"check", "asleep", "busy", "ended"}]
        /\ gpu'[g] = "loop" /\ \A h \in Gpus : h # g => gpu'[h] = gpu[h]
    BY <1>1 DEF MinerInv, MinerTypeOK, Exec!ExecutorTypeOK
  <1>3. /\ executor' \in [Workers -> {"check", "asleep", "busy", "ended"}]
        /\ \A w \in Workers : executor'[w] = executor[w] \/ (executor[w] = "asleep" /\ executor'[w] = "check")
        /\ \E w \in Workers : executor'[w] # "asleep"
    <2>1. ASSUME NEW w \in Workers, executor[w] = "asleep", executor' = [executor EXCEPT ![w] = "check"]
          PROVE  /\ executor' \in [Workers -> {"check", "asleep", "busy", "ended"}]
                 /\ \A v \in Workers : executor'[v] = executor[v] \/ (executor[v] = "asleep" /\ executor'[v] = "check")
                 /\ executor'[w] # "asleep"
      BY <1>2, <2>1
    <2>2. CASE Exec!Asleep = {} /\ UNCHANGED executor
      <3>1. \A w \in Workers : executor[w] # "asleep"
        BY <2>2 DEF Exec!Asleep
      <3>2. PICK w \in Workers : TRUE
        BY CuckatooMinerAssumption DEF CuckatooMinerAssumption
      <3>3. QED
        BY <1>2, <2>2, <3>1, <3>2
    <2>3. CASE \E w \in Exec!Asleep : executor' = [executor EXCEPT ![w] = "check"]
      BY <2>1, <2>3 DEF Exec!Asleep
    <2>4. QED
      BY <2>2, <2>3 DEF NotifyTask, Exec!NotifyOne
  <1>4. MinerTypeOK'
    BY <1>1, <1>3 DEF MinerInv, MinerTypeOK, Exec!ExecutorTypeOK
  <1>5. \A h \in Gpus : Queued(h)' = Queued(h)
    BY <1>1 DEF Queued
  <1>6. \A w \in Workers : executor'[w] = "busy" <=> executor[w] = "busy"
    BY <1>3
  <1>7. \A h \in Gpus : Running(h)' = Running(h)
    BY <1>1, <1>6 DEF Running
  <1>8. OneTaskPerGpu'
    BY <1>1, <1>5, <1>7, SameTasks DEF MinerInv
  <1>9. ~stopping
    BY <1>1 DEF MinerInv, ClosingInv
  <1>10. TasksHaveTheirSolver' /\ ClosingInv'
    BY <1>1, <1>2, <1>5, <1>6, <1>7, <1>9 DEF MinerInv, TasksHaveTheirSolver, ClosingInv
  <1>11. TaskSeen'
    BY <1>1, <1>3, <1>9 DEF TaskSeen
  <1>12. QED
    BY <1>4, <1>8, <1>10, <1>11 DEF MinerInv

-----------------------------------------------------------------------------
(* The executors: the task taken is the only one of its GPU, waiting or    *)
(* running, and so is the one that returns.                                *)
LEMMA TakeTaskMinerInv ==
    ASSUME MinerInv, NEW w \in Workers, Exec!TakeTask(w),
           UNCHANGED <<gpuVars, ownerVars>>
    PROVE  MinerInv'
  <1>1. /\ executor[w] = "check" /\ executor' = [executor EXCEPT ![w] = "busy"]
        /\ taskQueue # <<>> /\ ~stopping /\ task' = [task EXCEPT ![w] = Head(taskQueue)]
        /\ taskQueue' = Tail(taskQueue)
        /\ UNCHANGED <<stopping, gpu, build, round, future, terminate, poolActive, appPc>>
    BY DEF Exec!TakeTask, gpuVars, ownerVars
  <1>2. /\ taskQueue \in Seq(Gpus) /\ task \in [Workers -> Gpus \cup {Exec!NoTask}]
        /\ executor \in [Workers -> {"check", "asleep", "busy", "ended"}]
    BY DEF MinerInv, MinerTypeOK, Exec!ExecutorTypeOK
  <1>3. /\ taskQueue' \in Seq(Gpus) /\ Len(taskQueue) \in Nat /\ Len(taskQueue) >= 1
        /\ Len(taskQueue') = Len(taskQueue) - 1
        /\ \A n \in 1 .. Len(taskQueue) - 1 : taskQueue'[n] = taskQueue[n + 1]
        /\ Head(taskQueue) = taskQueue[1] /\ taskQueue[1] \in Gpus
    BY <1>1, <1>2
  <1>0. PICK t \in Gpus : t = taskQueue[1] /\ t = Head(taskQueue)
    BY <1>3
  <1>4. MinerTypeOK'
    BY <1>0, <1>1, <1>2, <1>3 DEF MinerInv, MinerTypeOK, Exec!ExecutorTypeOK
  <1>5. 1 \in Queued(t)
    BY <1>0, <1>3 DEF Queued
  <1>6. future[t] = "pending" /\ Running(t) = {} /\ \A n \in Queued(t) : n = 1
    BY <1>3, <1>5 DEF MinerInv, OneTaskPerGpu
  <1>7. Queued(t)' = {}
    <2>1. ASSUME NEW n \in 1 .. Len(taskQueue'), taskQueue'[n] = t
          PROVE  FALSE
      <3>1. n \in 1 .. Len(taskQueue) - 1 /\ n + 1 \in 1 .. Len(taskQueue) /\ n + 1 # 1
        BY <1>3, <2>1
      <3>2. n + 1 \in Queued(t)
        BY <1>3, <2>1, <3>1 DEF Queued
      <3>3. QED
        BY <1>6, <3>1, <3>2
    <2>2. QED
      BY <2>1 DEF Queued
  <1>8. Running(t)' = {w}
    <2>1. task'[w] = t /\ executor'[w] = "busy"
      BY <1>0, <1>1, <1>2
    <2>2. \A v \in Workers : v # w => executor'[v] = executor[v] /\ task'[v] = task[v]
      BY <1>1, <1>2
    <2>3. QED
      BY <1>6, <2>1, <2>2 DEF Running
  <1>9. ASSUME NEW h \in Gpus, h # t
        PROVE  Running(h)' = Running(h)
    <2>1. task'[w] = t /\ executor[w] # "busy"
      BY <1>0, <1>1, <1>2
    <2>2. \A v \in Workers : v # w => executor'[v] = executor[v] /\ task'[v] = task[v]
      BY <1>1, <1>2
    <2>3. QED
      BY <1>9, <2>1, <2>2 DEF Running
  <1>10. ASSUME NEW h \in Gpus, h # t
         PROVE  /\ \A n \in Queued(h)' : n + 1 \in Queued(h)
                /\ \A n \in Queued(h) : n - 1 \in Queued(h)'
    <2>1. \A n \in 1 .. Len(taskQueue') : n \in 1 .. Len(taskQueue) - 1 /\ n + 1 \in 1 .. Len(taskQueue)
      BY <1>3
    <2>2. \A n \in 1 .. Len(taskQueue) : n # 1 =>
             n - 1 \in 1 .. Len(taskQueue') /\ taskQueue'[n - 1] = taskQueue[n]
      <3> SUFFICES ASSUME NEW n \in 1 .. Len(taskQueue), n # 1
                   PROVE  n - 1 \in 1 .. Len(taskQueue') /\ taskQueue'[n - 1] = taskQueue[n]
        OBVIOUS
      <3>1. n - 1 \in 1 .. Len(taskQueue) - 1 /\ (n - 1) + 1 = n
        BY <1>3
      <3>2. taskQueue'[n - 1] = taskQueue[(n - 1) + 1]
        BY <1>3, <3>1
      <3>3. QED
        BY <1>3, <3>1, <3>2
    <2>3. ASSUME NEW n \in Queued(h)'
          PROVE  n + 1 \in Queued(h)
      BY <1>3, <2>1, <2>3 DEF Queued
    <2>4. ASSUME NEW n \in Queued(h)
          PROVE  n - 1 \in Queued(h)'
      <3>1. n \in 1 .. Len(taskQueue) /\ taskQueue[n] = h /\ n # 1
        BY <1>0, <1>10, <2>4 DEF Queued
      <3>2. n - 1 \in 1 .. Len(taskQueue') /\ taskQueue'[n - 1] = h
        BY <2>2, <3>1
      <3>3. QED
        BY <3>2 DEF Queued
    <2>5. QED
      BY <2>3, <2>4
  <1>11. OneTaskPerGpu'
    <2> SUFFICES ASSUME NEW h \in Gpus
                 PROVE  /\ future'[h] = "pending" <=> Queued(h)' # {} \/ Running(h)' # {}
                        /\ Queued(h)' = {} \/ Running(h)' = {}
                        /\ \A m, n \in Queued(h)' : m = n
                        /\ \A u, v \in Running(h)' : u = v
      BY Zenon DEF OneTaskPerGpu
    <2>1. CASE h = t
      BY <1>1, <1>6, <1>7, <1>8, <2>1
    <2>2. CASE h # t
      <3>1. Queued(h)' = {} <=> Queued(h) = {}
        BY <1>10, <2>2
      <3>2. \A m, n \in Queued(h)' : m \in Nat /\ n \in Nat /\ m + 1 = n + 1
        BY <1>3, <1>10, <2>2 DEF MinerInv, OneTaskPerGpu, Queued
      <3>3. \A m, n \in Queued(h)' : m = n
        BY <3>2
      <3>4. Running(h)' = Running(h)
        BY <1>9, <2>2
      <3>5. QED
        BY <1>1, <3>1, <3>3, <3>4 DEF MinerInv, OneTaskPerGpu
    <2>3. QED
      BY <2>1, <2>2
  <1>12. TasksHaveTheirSolver'
    <2>1. gpu[t] # "ended"
      BY <1>3, <1>5 DEF MinerInv, TasksHaveTheirSolver
    <2>2. ASSUME NEW h \in Gpus, gpu'[h] = "ended"
          PROVE  Queued(h)' = {} /\ Running(h)' = {}
      <3>1. h # t /\ Queued(h) = {} /\ Running(h) = {}
        BY <1>1, <2>1, <2>2 DEF MinerInv, TasksHaveTheirSolver
      <3>2. Queued(h)' = {}
        BY <1>10, <3>1
      <3>3. QED
        BY <1>9, <3>1, <3>2
    <2>3. \A v \in Workers : executor'[v] = "busy" => task'[v] \in Gpus
      BY <1>0, <1>1, <1>2 DEF MinerInv, TasksHaveTheirSolver
    <2>4. QED
      BY <1>1, <2>2, <2>3 DEF TasksHaveTheirSolver
  <1>13. ClosingInv' /\ TaskSeen'
    <2>1. executor'[w] # "asleep"
      BY <1>1, <1>2
    <2>2. QED
      BY <1>1, <2>1 DEF MinerInv, ClosingInv, TaskSeen
  <1>14. QED
    BY <1>4, <1>11, <1>12, <1>13 DEF MinerInv

LEMMA TaskReturnsMinerInv ==
    ASSUME MinerInv, NEW w \in Workers, TaskReturns(w)
    PROVE  MinerInv'
  <1>0. PICK t \in Gpus : t = task[w]
    BY DEF MinerInv, TasksHaveTheirSolver, TaskReturns
  <1>1. /\ executor[w] = "busy" /\ executor' = [executor EXCEPT ![w] = "check"]
        /\ future' = [future EXCEPT ![t] = "ready"] /\ task' = [task EXCEPT ![w] = Exec!NoTask]
        /\ UNCHANGED <<taskQueue, stopping, gpu, build, round, terminate, poolActive, appPc>>
    BY <1>0 DEF TaskReturns, Exec!TaskDone, ownerVars
  <1>2. /\ task \in [Workers -> Gpus \cup {Exec!NoTask}] /\ future \in [Gpus -> {"none", "pending", "ready"}]
        /\ executor \in [Workers -> {"check", "asleep", "busy", "ended"}]
    BY DEF MinerInv, MinerTypeOK, Exec!ExecutorTypeOK
  <1>3. w \in Running(t)
    BY <1>0, <1>1 DEF Running
  <1>4. MinerTypeOK'
    <2>1. executor' \in [Workers -> {"check", "asleep", "busy", "ended"}]
      BY <1>1, <1>2
    <2>2. future' \in [Gpus -> {"none", "pending", "ready"}]
      BY <1>1, <1>2
    <2>3. task' \in [Workers -> Gpus \cup {Exec!NoTask}]
      BY <1>1, <1>2
    <2>4. QED
      BY <1>1, <2>1, <2>2, <2>3 DEF MinerInv, MinerTypeOK, Exec!ExecutorTypeOK
  <1>5. Queued(t) = {} /\ \A v \in Running(t) : v = w
    BY <1>3 DEF MinerInv, OneTaskPerGpu
  <1>6. \A h \in Gpus : Queued(h)' = Queued(h)
    BY <1>1 DEF Queued
  <1>7. executor'[w] = "check" /\ \A v \in Workers : v # w => executor'[v] = executor[v] /\ task'[v] = task[v]
    BY <1>1, <1>2
  <1>8. Running(t)' = {}
    BY <1>5, <1>7 DEF Running
  <1>9. ASSUME NEW h \in Gpus, h # t
        PROVE  Running(h)' = Running(h)
    BY <1>0, <1>1, <1>7, <1>9 DEF Running
  <1>10. OneTaskPerGpu'
    <2> SUFFICES ASSUME NEW h \in Gpus
                 PROVE  /\ future'[h] = "pending" <=> Queued(h)' # {} \/ Running(h)' # {}
                        /\ Queued(h)' = {} \/ Running(h)' = {}
                        /\ \A m, n \in Queued(h)' : m = n
                        /\ \A u, v \in Running(h)' : u = v
      BY Zenon DEF OneTaskPerGpu
    <2>1. CASE h = t
      BY <1>1, <1>2, <1>3, <1>5, <1>6, <1>8, <2>1
    <2>2. CASE h # t
      BY <1>1, <1>2, <1>6, <1>9, <2>2 DEF MinerInv, OneTaskPerGpu
    <2>3. QED
      BY <2>1, <2>2
  <1>11. ~stopping
    BY <1>1 DEF MinerInv, TasksHaveTheirSolver
  <1>12. TasksHaveTheirSolver'
    <2>1. \A v \in Workers : executor'[v] = "busy" => task'[v] \in Gpus
      BY <1>7 DEF MinerInv, TasksHaveTheirSolver
    <2>2. ASSUME NEW h \in Gpus, gpu'[h] = "ended"
          PROVE  Queued(h)' = {} /\ Running(h)' = {}
      <3>1. Queued(h) = {} /\ Running(h) = {}
        BY <1>1, <2>2 DEF MinerInv, TasksHaveTheirSolver
      <3>2. QED
        BY <1>3, <1>6, <1>9, <3>1
    <2>3. QED
      BY <1>1, <1>11, <2>1, <2>2 DEF TasksHaveTheirSolver
  <1>13. ClosingInv' /\ TaskSeen'
    BY <1>1, <1>7, <1>11 DEF MinerInv, ClosingInv, TaskSeen
  <1>14. QED
    BY <1>4, <1>10, <1>12, <1>13 DEF MinerInv

(* An executor that looks at the queue and finds nothing to do.            *)
LEMMA IdleWorkerMinerInv ==
    ASSUME MinerInv, NEW w \in Workers, Exec!Sleep(w) \/ Exec!EndWorker(w),
           UNCHANGED <<gpuVars, ownerVars>>
    PROVE  MinerInv'
  <1>1. PICK pc \in {"asleep", "ended"} :
            /\ executor[w] = "check" /\ executor' = [executor EXCEPT ![w] = pc]
            /\ pc = "asleep" => taskQueue = <<>> /\ ~stopping
    BY DEF Exec!Sleep, Exec!EndWorker
  <1>2. UNCHANGED <<taskQueue, task, stopping, gpu, build, round, future, terminate, poolActive, appPc>>
    BY DEF Exec!Sleep, Exec!EndWorker, gpuVars, ownerVars
  <1>3. executor \in [Workers -> {"check", "asleep", "busy", "ended"}]
    BY DEF MinerInv, MinerTypeOK, Exec!ExecutorTypeOK
  <1>4. MinerTypeOK'
    BY <1>1, <1>2, <1>3 DEF MinerInv, MinerTypeOK, Exec!ExecutorTypeOK
  <1>5. \A v \in Workers : executor'[v] = "busy" <=> executor[v] = "busy"
    BY <1>1, <1>3
  <1>6. \A h \in Gpus : Queued(h)' = Queued(h) /\ Running(h)' = Running(h)
    BY <1>2, <1>5 DEF Queued, Running
  <1>7. OneTaskPerGpu'
    BY <1>2, <1>6, SameTasks DEF MinerInv
  <1>8. TasksHaveTheirSolver' /\ ClosingInv'
    BY <1>2, <1>5, <1>6 DEF MinerInv, TasksHaveTheirSolver, ClosingInv
  <1>9. TaskSeen'
    BY <1>1, <1>2, <1>3 DEF MinerInv, TaskSeen
  <1>10. QED
    BY <1>4, <1>7, <1>8, <1>9 DEF MinerInv

-----------------------------------------------------------------------------
(* When every thread has ended no task is left, and only then is the       *)
(* executor pool stopped.                                                  *)
LEMMA JoinGpusMinerInv ==
    ASSUME MinerInv, JoinGpus
    PROVE  MinerInv'
  <1>1. /\ \A g \in Gpus : gpu[g] = "ended"
        /\ stopping' = TRUE /\ appPc' = "notify"
        /\ UNCHANGED <<taskQueue, executor, task, gpu, build, round, future, terminate, poolActive>>
    BY DEF JoinGpus, Joined, Exec!SetStopping, gpuVars
  <1>2. MinerTypeOK'
    BY <1>1 DEF MinerInv, MinerTypeOK, Exec!ExecutorTypeOK
  <1>3. \A g \in Gpus : Queued(g) = {} /\ Running(g) = {}
    BY <1>1 DEF MinerInv, TasksHaveTheirSolver
  <1>4. taskQueue = <<>>
    <2> SUFFICES ASSUME taskQueue # <<>> PROVE FALSE
      OBVIOUS
    <2>1. taskQueue \in Seq(Gpus)
      BY DEF MinerInv, MinerTypeOK, Exec!ExecutorTypeOK
    <2>2. 1 \in 1 .. Len(taskQueue) /\ taskQueue[1] \in Gpus
      BY <2>1
    <2>3. 1 \in Queued(taskQueue[1])
      BY <2>2 DEF Queued
    <2>4. QED
      BY <1>3, <2>2, <2>3
  <1>5. \A w \in Workers : executor[w] # "busy"
    BY <1>3 DEF MinerInv, TasksHaveTheirSolver, Running
  <1>6. \A g \in Gpus : Queued(g)' = Queued(g) /\ Running(g)' = Running(g)
    BY <1>1 DEF Queued, Running
  <1>7. OneTaskPerGpu'
    BY <1>1, <1>6, SameTasks DEF MinerInv
  <1>8. TasksHaveTheirSolver' /\ ClosingInv'
    BY <1>1, <1>3, <1>4, <1>5, <1>6 DEF TasksHaveTheirSolver, ClosingInv
  <1>9. TaskSeen'
    BY <1>1, <1>4 DEF TaskSeen
  <1>10. QED
    BY <1>2, <1>7, <1>8, <1>9 DEF MinerInv

LEMMA NotifyWorkersMinerInv ==
    ASSUME MinerInv, NotifyWorkers
    PROVE  MinerInv'
  <1>1. /\ appPc = "notify" /\ appPc' = "joinWorkers"
        /\ executor' = [w \in Workers |-> IF w \in Exec!Asleep THEN "check" ELSE executor[w]]
        /\ UNCHANGED <<taskQueue, task, stopping, gpu, build, round, future, terminate, poolActive>>
    BY DEF NotifyWorkers, Exec!NotifyAll, gpuVars
  <1>2. executor \in [Workers -> {"check", "asleep", "busy", "ended"}]
    BY DEF MinerInv, MinerTypeOK, Exec!ExecutorTypeOK
  <1>3. \A v \in Workers : (executor'[v] = "busy" <=> executor[v] = "busy") /\ executor'[v] # "asleep"
    BY <1>1, <1>2 DEF Exec!Asleep
  <1>4. executor' \in [Workers -> {"check", "asleep", "busy", "ended"}]
    BY <1>1, <1>2
  <1>5. MinerTypeOK'
    BY <1>1, <1>4 DEF MinerInv, MinerTypeOK, Exec!ExecutorTypeOK
  <1>6. \A h \in Gpus : Queued(h)' = Queued(h) /\ Running(h)' = Running(h)
    BY <1>1, <1>3 DEF Queued, Running
  <1>7. OneTaskPerGpu'
    BY <1>1, <1>6, SameTasks DEF MinerInv
  <1>8. TasksHaveTheirSolver' /\ ClosingInv'
    BY <1>1, <1>3, <1>6 DEF MinerInv, TasksHaveTheirSolver, ClosingInv
  <1>9. TaskSeen'
    BY <1>3, CuckatooMinerAssumption DEF TaskSeen, CuckatooMinerAssumption
  <1>10. QED
    BY <1>5, <1>7, <1>8, <1>9 DEF MinerInv

(* The owner's other steps, and the pool's.                                *)
LEMMA OwnerMinerInv ==
    ASSUME MinerInv, Close \/ JoinWorkers \/ ChoosePool \/ UNCHANGED minerVars
    PROVE  MinerInv'
  <1> USE DEF gpuVars, ownerVars, execVars, minerVars
  <1>1. CASE Close
    <2>1. MinerTypeOK'
      BY <1>1 DEF Close, MinerInv, MinerTypeOK, Exec!ExecutorTypeOK
    <2>2. QED
      BY <1>1, <2>1, ThreadStep DEF Close
  <1>2. CASE UNCHANGED minerVars
    <2>1. MinerTypeOK'
      BY <1>2 DEF MinerInv, MinerTypeOK, Exec!ExecutorTypeOK
    <2>2. UNCHANGED <<future, execVars>> /\ appPc' = appPc /\ gpu' = gpu
      BY <1>2
    <2>3. QED
      BY <2>1, <2>2, ThreadStep
  <1>3. CASE JoinWorkers
    <2>1. /\ appPc = "joinWorkers" /\ appPc' = "closed"
          /\ UNCHANGED <<taskQueue, executor, task, stopping, gpu, build, round, future, terminate, poolActive>>
      BY <1>3 DEF JoinWorkers
    <2>2. MinerTypeOK'
      BY <2>1 DEF MinerInv, MinerTypeOK, Exec!ExecutorTypeOK
    <2>3. OneTaskPerGpu' /\ TasksHaveTheirSolver'
      BY <2>1 DEF MinerInv, OneTaskPerGpu, TasksHaveTheirSolver, Queued, Running
    <2>4. ClosingInv' /\ TaskSeen'
      BY <2>1 DEF MinerInv, ClosingInv, TaskSeen
    <2>5. QED
      BY <2>2, <2>3, <2>4 DEF MinerInv
  <1>4. CASE ChoosePool
    <2>1. poolActive' = TRUE /\ UNCHANGED <<gpu, build, round, future, terminate, appPc, execVars>>
      BY <1>4 DEF ChoosePool
    <2>2. MinerTypeOK'
      BY <2>1 DEF MinerInv, MinerTypeOK, Exec!ExecutorTypeOK
    <2>3. QED
      BY <2>1, <2>2, ThreadStep
  <1>5. QED
    BY <1>1, <1>2, <1>3, <1>4

LEMMA NextMinerInv == MinerInv /\ [MinerNext]_<<vars, minerVars>> => MinerInv'
  <1> SUFFICES ASSUME MinerInv, [MinerNext]_<<vars, minerVars>> PROVE MinerInv'
    OBVIOUS
  <1>1. CASE PoolStep \/ ChoosePool \/ UNCHANGED <<vars, minerVars>>
    BY <1>1, OwnerMinerInv DEF PoolStep
  <1>2. ASSUME NEW g \in Gpus, GetWork(g) \/ AwaitPool(g) \/ GpuThread(g) \/ Driver(g)
        PROVE  MinerInv'
    BY <1>2, LoaderMinerInv, SolveMinerInv, AddTaskMinerInv, NotifyTaskMinerInv DEF GpuThread, Driver
  <1>3. ASSUME NEW w \in Workers, Worker(w)
        PROVE  MinerInv'
    BY <1>3, TaskReturnsMinerInv, TakeTaskMinerInv, IdleWorkerMinerInv DEF Worker, WorkerLoop
  <1>4. CASE Close \/ Destructor
    BY <1>4, OwnerMinerInv, JoinGpusMinerInv, NotifyWorkersMinerInv DEF Destructor
  <1>5. QED
    BY <1>1, <1>2, <1>3, <1>4 DEF MinerNext

(* However slow the executors are, a GPU has at most one task waiting or   *)
(* running; no solver and no executor pool is destroyed under a task, and  *)
(* no executor sleeps through a task or the end.                           *)
THEOREM TasksInvariant == MinerSpec => []MinerInv
  <1>1. QED
    BY InitMinerInv, NextMinerInv, PTL DEF MinerSpec

-----------------------------------------------------------------------------
(* To the pool the miner is one of the threads of LazyWorkQueue.           *)
LEMMA MinerStepIsQueueStep == [MinerNext]_<<vars, minerVars>> => [Next]_vars
  <1> SUFFICES ASSUME [MinerNext]_<<vars, minerVars>> PROVE [Next]_vars
    OBVIOUS
  <1>1. CASE PoolStep
    BY <1>1, Zenon DEF PoolStep, Next
  <1>2. ASSUME NEW g \in Gpus, GetWork(g)
        PROVE  [Next]_vars
    BY <1>2, Zenon DEF GetWork, Next
  <1>3. ASSUME NEW g \in Gpus, AwaitPool(g) \/ GpuThread(g) \/ Driver(g)
        PROVE  UNCHANGED vars
    BY <1>3 DEF GpuThread, Driver, StillBuilding, Sleep, Compiled, BuildEnds, onDidCompile, Loading,
                AwaitPool, PoolSeen, PruneRound, Finish, AddTask, NotifyTask, LeaveLoop, EndThread
  <1>4. ASSUME NEW w \in Workers, Worker(w)
        PROVE  UNCHANGED vars
    BY <1>4 DEF Worker, TaskReturns, WorkerLoop
  <1>5. CASE ChoosePool \/ Close \/ Destructor \/ UNCHANGED <<vars, minerVars>>
    BY <1>5 DEF ChoosePool, Close, Destructor, JoinGpus, NotifyWorkers, JoinWorkers
  <1>6. QED
    BY <1>1, <1>2, <1>3, <1>4, <1>5, Zenon DEF MinerNext

(* The miner uses the queue as LazyWorkQueue says, so whatever was proved  *)
(* of the queue holds while the miner runs on it.                          *)
THEOREM MinerUsesQueue == MinerSpec => Spec /\ []IInv /\ ImplementsWorkSource
  <1>1. MinerInit => Init
    BY DEF MinerInit
  <1>2. MinerSpec => Spec
    BY <1>1, MinerStepIsQueueStep, PTL DEF MinerSpec, Spec
  <1>3. QED
    BY <1>2, InductiveInvariant, LazyQueueImplementsSource, PTL

(* However many GPUs and executors there are: no GPU has two tasks, no     *)
(* task outlives its solver, no executor sleeps through a task, and the    *)
(* ids of the queue the miner takes its works from stay in order.          *)
THEOREM MinerInvariant == MinerSpec => []MinerQueueInv
  <1>1. QED
    BY TasksInvariant, MinerUsesQueue, PTL DEF MinerQueueInv
=============================================================================
