---------------------------- MODULE LazyWorkQueue ----------------------------
(***************************************************************************)
(* LazyWorkQueue (pool/WorkQueue.h): the queue of the pools whose makeWork *)
(* is cheap. It makes a work from the newest job on request, under the     *)
(* lock. expireJobs and isExpiredJob do not take the lock, so they can run *)
(* between pushJob's fetch_add and its emplace_front; that is why pushJob  *)
(* is two actions. A work is represented by the id of its job.             *)
(***************************************************************************)
EXTENDS Integers, Sequences, SequencesExt

CONSTANTS
    Gpus,       \* threads that call tryGetWork
    KeepJobs,   \* old jobs kept by an unclean push, 7 in the code
    MaxLatest   \* bound on the value of latestJobId

ASSUME LazyWorkQueueAssumption == KeepJobs \in Nat /\ MaxLatest \in Nat

VARIABLES
    jobQueue,     \* ids of the queued jobs, newest first
    latestJobId,  \* the atomic that isExpiredJob compares with
    pushing,      \* id of the job being pushed (lock held), 0 for none
    work,         \* job id of the work each GPU thread holds, 0 for none
    offered,      \* history: id given to the last job pushed
    expireMark    \* history: latestJobId after the last expireJobs

vars == <<jobQueue, latestJobId, pushing, work, offered, expireMark>>

NoWork == 0

Init ==
    /\ jobQueue = <<>>
    /\ latestJobId = 0
    /\ pushing = 0
    /\ work = [g \in Gpus |-> NoWork]
    /\ offered = 0
    /\ expireMark = 0

Unlocked == pushing = 0

Alive(j) == j = pushing \/ \E i \in 1 .. Len(jobQueue) : jobQueue[i] = j

isBehindCounter(j) == latestJobId < j

isExpiredJob(j) == latestJobId # j

Expired(j) == ~Alive(j) \/ isExpiredJob(j)

Trim(q) == SubSeq(q, 1, IF Len(q) < KeepJobs THEN Len(q) ELSE KeepJobs)

(* The id of the job being pushed.                                         *)
DrawnId == latestJobId + 1

(* pushJob up to fetch_add: the older jobs are dropped, the id is drawn.   *)
DrawId(cleanFlag) ==
    /\ Unlocked
    /\ latestJobId < MaxLatest
    /\ jobQueue' = IF cleanFlag THEN <<>> ELSE Trim(jobQueue)
    /\ latestJobId' = latestJobId + 1
    /\ pushing' = DrawnId
    /\ offered' = DrawnId
    /\ UNCHANGED <<work, expireMark>>

EmplaceReadAgain ==
    /\ ~Unlocked
    /\ jobQueue' = <<latestJobId>> \o jobQueue
    /\ pushing' = 0
    /\ UNCHANGED <<latestJobId, work, offered, expireMark>>

(* The rest of pushJob.                                                    *)
EmplaceFront ==
    /\ ~Unlocked
    /\ jobQueue' = <<pushing>> \o jobQueue
    /\ pushing' = 0
    /\ UNCHANGED <<latestJobId, work, offered, expireMark>>

(* The job tryGetWork makes a work from.                                   *)
NewestJob == Head(jobQueue)

tryGetWork(g) ==
    /\ Unlocked
    /\ work' = [work EXCEPT ![g] = IF jobQueue = <<>> THEN NoWork ELSE NewestJob]
    /\ UNCHANGED <<jobQueue, latestJobId, pushing, offered, expireMark>>

clear ==
    /\ Unlocked
    /\ jobQueue # <<>>
    /\ jobQueue' = <<>>
    /\ UNCHANGED <<latestJobId, pushing, work, offered, expireMark>>

ExpireToPrevious == latestJobId - 1

(* The value fetch_add leaves in latestJobId.                              *)
ExpiredLatest == latestJobId + 1

expireJobs ==
    /\ latestJobId < MaxLatest
    /\ latestJobId' = ExpiredLatest
    /\ expireMark' = ExpiredLatest
    /\ UNCHANGED <<jobQueue, pushing, work, offered>>

Next ==
    \/ \E cleanFlag \in BOOLEAN : DrawId(cleanFlag)
    \/ EmplaceFront
    \/ clear
    \/ expireJobs
    \/ \E g \in Gpus : tryGetWork(g)

Spec == Init /\ [][Next]_vars

-----------------------------------------------------------------------------
TypeOK ==
    /\ jobQueue \in Seq(1 .. MaxLatest)
    /\ latestJobId \in 0 .. MaxLatest
    /\ pushing \in 0 .. MaxLatest
    /\ work \in [Gpus -> 0 .. MaxLatest]
    /\ offered \in 0 .. MaxLatest
    /\ expireMark \in 0 .. MaxLatest

(* Newer jobs are in front and no two queued jobs share an id, although    *)
(* ids and expirations draw from the same counter without a common lock.   *)
JobsNewestFirst ==
    \A i, j \in 1 .. Len(jobQueue) : i < j => jobQueue[i] > jobQueue[j]

(* The newest job is unexpired unless expireJobs ran after its id was      *)
(* drawn; an expiration cannot leak into the jobs pushed after it.         *)
NewestJobIsFresh ==
    jobQueue # <<>> /\ Unlocked /\ Head(jobQueue) > expireMark => ~Expired(Head(jobQueue))

(* Unlike in WorkQueue, expireJobs reaches every job pushed before it,     *)
(* the works handed out later from such a job included.                    *)
ExpireJobsExpiresAll ==
    \A g \in Gpus : work[g] # NoWork /\ work[g] < expireMark => Expired(work[g])

(* The counter never falls behind a job, and it is past the last one pushed *)
(* only if that was expired. GPU threads hold only jobs that were pushed.  *)
IdInv ==
    /\ offered <= latestJobId /\ expireMark <= latestJobId
    /\ offered > expireMark => latestJobId = offered
    /\ pushing \in {0, offered}
    /\ pushing # 0 /\ jobQueue # <<>> => Head(jobQueue) < pushing
    /\ pushing = 0 /\ jobQueue # <<>> => Head(jobQueue) = offered
    /\ \A g \in Gpus : work[g] <= offered

IInv ==
    /\ TypeOK
    /\ JobsNewestFirst
    /\ NewestJobIsFresh
    /\ IdInv

(* The queue is a source of works in the sense of WorkSource.              *)
Source == INSTANCE WorkSource WITH fresh <- (latestJobId = offered)
ImplementsWorkSource == Source!Spec
=============================================================================
