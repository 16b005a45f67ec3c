------------------------------ MODULE WorkQueue ------------------------------
(***************************************************************************)
(* WorkQueue (pool/WorkQueue.h): the queue of the pools whose makeWork is  *)
(* slow. The pool's I/O thread pushes jobs, a refill thread turns the      *)
(* newest job into a buffer of works without holding the lock, GPU threads *)
(* pop works, and the pool switcher expires or clears the queue.           *)
(*                                                                         *)
(* One action is one critical section of `mutex`, one notify outside of    *)
(* it, or one access of the atomic latestJobId outside of it. A work is    *)
(* represented by the id of its job. A spurious wakeup only repeats the    *)
(* evaluation of a predicate under the lock and is not modelled.           *)
(***************************************************************************)
EXTENDS Integers, Sequences, SequencesExt

CONSTANTS
    Gpus,             \* threads that pop works
    RefillThreshold,  \* constructor argument, 8 in the pools
    MaxLength,        \* constructor argument maxWorkQueueLength, 16
    KeepJobs,         \* old jobs kept by an unclean push, 7 in the code
    MaxJobs,          \* bound on the number of jobs pushed
    MaxLatest         \* bound on the value of latestJobId

ASSUME WorkQueueAssumption ==
    /\ RefillThreshold \in Nat \ {0}
    /\ MaxLength \in Nat
    /\ RefillThreshold <= MaxLength
    /\ KeepJobs \in Nat
    /\ MaxJobs \in Nat
    /\ MaxLatest \in Nat
    /\ MaxJobs <= MaxLatest

VARIABLES
    jobQueue,     \* ids of the jobs kept alive by the queue, newest first
    currentId,    \* id of the last job pushed
    latestJobId,  \* the atomic that isExpiredJob compares with
    buffer,       \* works ready to be popped, by job id; popped from the end
    shutdown,     \* set by the destructor
    ownerPc,      \* the thread that pushes and destroys: "idle",
                  \* "pushed"/"closing" (notify still to be done), "joining"
    gpuPc,        \* "idle", "popping", "asleep" or "notify", per GPU thread
    work,         \* job id of the work held by each GPU thread, 0 for none
    refillPc,     \* "check" (has the lock), "asleep", "making" or "ended"
    refillId,     \* latestId of the refill thread
    heldJob,      \* latestJob of the refill thread: keeps that job alive
    hasNewJob,    \* hasNewJob of the refill thread
    room          \* number of works the refill thread is making

(* Histories, read by the properties only.                                 *)
VARIABLES
    offered,      \* job of the last refill that was not discarded
    cleanFloor    \* id of the last job pushed with the clean flag

queueVars  == <<jobQueue, currentId, buffer, shutdown>>
refillVars == <<refillId, heldJob, hasNewJob, room>>
ghosts     == <<offered, cleanFloor>>
vars == <<queueVars, latestJobId, ownerPc, gpuPc, work, refillPc, refillVars,
          ghosts>>

NoWork == 0

Init ==
    /\ jobQueue = <<>>
    /\ currentId = 0
    /\ latestJobId = 0
    /\ buffer = <<>>
    /\ shutdown = FALSE
    /\ ownerPc = "idle"
    /\ gpuPc = [g \in Gpus |-> "idle"]
    /\ work = [g \in Gpus |-> NoWork]
    /\ refillPc = "check"
    /\ refillId = -1
    /\ heldJob = NoWork
    /\ hasNewJob = FALSE
    /\ room = 0
    /\ offered = 0
    /\ cleanFloor = 0

-----------------------------------------------------------------------------
(* Expiry, as Work::expired computes it.                                   *)

(* Works hold a weak_ptr; the queue and the refill thread own the job.     *)
Alive(j) == j = heldJob \/ \E i \in 1 .. Len(jobQueue) : jobQueue[i] = j

isExpiredJob(j) == latestJobId # j

Expired(j) == ~Alive(j) \/ isExpiredJob(j)

-----------------------------------------------------------------------------
(* The condition variables.                                                *)

NoRefillNotify == UNCHANGED refillPc

notifyNeedsRefill ==
    refillPc' = IF refillPc = "asleep" THEN "check" ELSE refillPc

NoWorkNotify == UNCHANGED gpuPc

notifyNotEmptyAnymore ==
    gpuPc' = [g \in Gpus |-> IF gpuPc[g] = "asleep" THEN "popping"
                                                    ELSE gpuPc[g]]

-----------------------------------------------------------------------------
(* The owner of the queue.                                                 *)

Trim(q) == SubSeq(q, 1, IF Len(q) < KeepJobs THEN Len(q) ELSE KeepJobs)

(* The queues after a push: a clean push empties both first.               *)
PushInto(cleanFlag) ==
    /\ jobQueue' = <<currentId + 1>> \o (IF cleanFlag THEN <<>> ELSE Trim(jobQueue))
    /\ buffer' = IF cleanFlag THEN <<>> ELSE buffer

pushJob(cleanFlag) ==
    /\ ownerPc = "idle"
    /\ currentId < MaxJobs
    /\ PushInto(cleanFlag)
    /\ currentId' = currentId + 1
    /\ ownerPc' = "pushed"
    /\ cleanFloor' = IF cleanFlag THEN currentId + 1 ELSE cleanFloor
    /\ UNCHANGED <<latestJobId, shutdown, gpuPc, work, refillPc, refillVars,
                   offered>>

(* The destructor; the pool is destroyed when nobody else refers to it.    *)
Destroy ==
    /\ ownerPc = "idle"
    /\ \A g \in Gpus : gpuPc[g] = "idle"
    /\ shutdown' = TRUE
    /\ ownerPc' = "closing"
    /\ UNCHANGED <<jobQueue, currentId, buffer, latestJobId, gpuPc, work,
                   refillPc, refillVars, ghosts>>

(* The notify_one after the critical section of pushJob or ~WorkQueue; the *)
(* destructor of refillTask then waits for the refill thread.              *)
OwnerNotify ==
    /\ ownerPc \in {"pushed", "closing"}
    /\ notifyNeedsRefill
    /\ ownerPc' = IF ownerPc = "pushed" THEN "idle" ELSE "joining"
    /\ UNCHANGED <<queueVars, latestJobId, gpuPc, work, refillVars, ghosts>>

(* clear() drops the jobs and leaves the buffer alone.                     *)
clear ==
    /\ ~shutdown
    /\ jobQueue # <<>>
    /\ jobQueue' = <<>>
    /\ UNCHANGED <<currentId, buffer, shutdown, latestJobId, ownerPc, gpuPc,
                   work, refillPc, refillVars, ghosts>>

(* The value fetch_add leaves in latestJobId.                              *)
ExpiredLatest == latestJobId + 1

expireJobs ==
    /\ ~shutdown
    /\ latestJobId < MaxLatest
    /\ latestJobId' = ExpiredLatest
    /\ UNCHANGED <<queueVars, ownerPc, gpuPc, work, refillPc, refillVars,
                   offered, cleanFloor>>

-----------------------------------------------------------------------------
(* GPU threads: popWithTimeout.                                            *)

Call(g) ==
    /\ ~shutdown
    /\ gpuPc[g] = "idle"
    /\ gpuPc' = [gpuPc EXCEPT ![g] = "popping"]
    /\ work' = [work EXCEPT ![g] = NoWork]
    /\ UNCHANGED <<queueVars, latestJobId, ownerPc, refillPc, refillVars, ghosts>>

Sleep(g) ==
    /\ gpuPc[g] = "popping"
    /\ buffer = <<>>
    /\ gpuPc' = [gpuPc EXCEPT ![g] = "asleep"]
    /\ UNCHANGED <<queueVars, latestJobId, ownerPc, work, refillPc, refillVars, ghosts>>

(* 100 ms without work: popWithTimeout returns nullptr.                    *)
TimeOut(g) ==
    /\ gpuPc[g] = "asleep"
    /\ buffer = <<>>
    /\ gpuPc' = [gpuPc EXCEPT ![g] = "idle"]
    /\ UNCHANGED <<queueVars, latestJobId, ownerPc, work, refillPc, refillVars, ghosts>>

OnlyWhenDrained == Len(buffer) = 0 /\ jobQueue # <<>>

(* Read under the lock after pop_back, acted upon after the unlock.        *)
MustNotify == Len(buffer) - 1 < RefillThreshold /\ jobQueue # <<>>

PopBack(g) ==
    /\ gpuPc[g] = "popping"
    /\ buffer # <<>>
    /\ work' = [work EXCEPT ![g] = Last(buffer)]
    /\ buffer' = Front(buffer)
    /\ gpuPc' = [gpuPc EXCEPT ![g] = IF MustNotify THEN "notify" ELSE "idle"]
    /\ UNCHANGED <<jobQueue, currentId, shutdown, latestJobId, ownerPc,
                   refillPc, refillVars, ghosts>>

PopNotify(g) ==
    /\ gpuPc[g] = "notify"
    /\ notifyNeedsRefill
    /\ gpuPc' = [gpuPc EXCEPT ![g] = "idle"]
    /\ UNCHANGED <<queueVars, latestJobId, ownerPc, work, refillVars, ghosts>>

-----------------------------------------------------------------------------
(* The refill thread.                                                      *)

OnlyWhenLow == jobQueue # <<>> /\ Len(buffer) < RefillThreshold

(* The predicate of the wait, without its shutdown disjunct.               *)
NeedsRefill ==
    /\ jobQueue # <<>>
    /\ \/ Len(buffer) < RefillThreshold
       \/ refillId # Head(jobQueue)

RefillSleep ==
    /\ refillPc = "check"
    /\ ~NeedsRefill /\ ~shutdown
    /\ refillPc' = "asleep"
    /\ UNCHANGED <<queueVars, latestJobId, ownerPc, gpuPc, work, refillVars, ghosts>>

RefillEnd ==
    /\ refillPc = "check"
    /\ shutdown
    /\ refillPc' = "ended"
    /\ UNCHANGED <<queueVars, latestJobId, ownerPc, gpuPc, work, refillVars, ghosts>>

BatchOneTooMany ==
    IF refillId # Head(jobQueue) THEN MaxLength + 1 ELSE MaxLength + 1 - Len(buffer)

(* How many works the loop around makeWork will make.                      *)
BatchSize ==
    IF refillId # Head(jobQueue) THEN MaxLength ELSE MaxLength - Len(buffer)

(* Take a copy of what the unlocked part needs, and unlock.                *)
RefillBegin ==
    /\ refillPc = "check"
    /\ NeedsRefill /\ ~shutdown
    /\ heldJob' = Head(jobQueue)
    /\ hasNewJob' = (refillId # Head(jobQueue))
    /\ refillId' = Head(jobQueue)
    /\ room' = BatchSize
    /\ refillPc' = "making"
    /\ UNCHANGED <<queueVars, latestJobId, ownerPc, gpuPc, work, ghosts>>

AnyJobQueued == jobQueue # <<>>

(* Whether the job the works were made from is still the newest.           *)
StillLatest == jobQueue # <<>> /\ refillId = Head(jobQueue)

KeepOldWorks == [i \in 1 .. room |-> refillId] \o buffer

(* The buffer after the works made are pushed to its front.                *)
Refilled ==
    [i \in 1 .. room |-> refillId] \o (IF hasNewJob THEN <<>> ELSE buffer)

StoreNewestId == currentId

(* The id latestJobId is set to when works of a new job are stored.        *)
StoredLatest == IF hasNewJob THEN refillId ELSE latestJobId

(* The works have been made; lock again and store or discard them.         *)
RefillStore ==
    /\ refillPc = "making"
    /\ StillLatest
    /\ buffer' = Refilled
    /\ latestJobId' = StoredLatest
    /\ offered' = refillId
    /\ notifyNotEmptyAnymore
    /\ heldJob' = NoWork
    /\ refillPc' = "check"
    /\ UNCHANGED <<jobQueue, currentId, shutdown, ownerPc, work, refillId,
                   hasNewJob, room, cleanFloor>>

RefillDiscard ==
    /\ refillPc = "making"
    /\ ~StillLatest
    /\ heldJob' = NoWork
    /\ refillPc' = "check"
    /\ UNCHANGED <<queueVars, latestJobId, ownerPc, gpuPc, work, refillId,
                   hasNewJob, room, ghosts>>

-----------------------------------------------------------------------------
Owner  == (\E cleanFlag \in BOOLEAN : pushJob(cleanFlag)) \/ Destroy \/ OwnerNotify
Gpu(g) == Call(g) \/ Sleep(g) \/ TimeOut(g) \/ PopBack(g) \/ PopNotify(g)
Refill == RefillSleep \/ RefillEnd \/ RefillBegin \/ RefillStore \/ RefillDiscard

Next == Owner \/ clear \/ expireJobs \/ (\E g \in Gpus : Gpu(g)) \/ Refill

(* Threads that have been notified or hold the lock go on. Nobody has to   *)
(* push, pop, expire, clear, destroy or time out.                          *)
Fairness ==
    /\ WF_vars(Refill)
    /\ WF_vars(OwnerNotify)
    /\ \A g \in Gpus : WF_vars(PopNotify(g))

Spec == Init /\ [][Next]_vars
FairSpec == Spec /\ Fairness

-----------------------------------------------------------------------------
(* Properties.                                                             *)

JobIds == 1 .. MaxJobs

TypeOK ==
    /\ jobQueue \in Seq(JobIds)
    /\ currentId \in 0 .. MaxJobs
    /\ latestJobId \in 0 .. MaxLatest
    /\ buffer \in Seq(JobIds)
    /\ shutdown \in BOOLEAN
    /\ ownerPc \in {"idle", "pushed", "closing", "joining"}
    /\ gpuPc \in [Gpus -> {"idle", "popping", "asleep", "notify"}]
    /\ work \in [Gpus -> JobIds \cup {NoWork}]
    /\ refillPc \in {"check", "asleep", "making", "ended"}
    /\ refillId \in JobIds \cup {-1}
    /\ heldJob \in JobIds \cup {NoWork}
    /\ hasNewJob \in BOOLEAN
    /\ room \in 0 .. MaxLength
    /\ offered \in 0 .. MaxJobs
    /\ cleanFloor \in 0 .. MaxJobs

(* The buffer never exceeds maxWorkQueueLength although the number of works *)
(* to make is computed before the lock is given up and used after.         *)
BufferBounded == Len(buffer) <= MaxLength

(* All works in the buffer belong to the job of the last stored refill:    *)
(* works made without the lock from an older job are never mixed in.       *)
BufferOfOneJob == \A i \in 1 .. Len(buffer) : buffer[i] = offered

(* After a push with the clean flag no GPU can pop a work of an older job  *)
(* (the comment of pushJob), even if the refill thread was making some.    *)
CleanPushDropsOldWork == \A i \in 1 .. Len(buffer) : buffer[i] >= cleanFloor

(* The refill thread never sleeps on a true predicate unless somebody is   *)
(* about to notify it: the notifies outside the lock lose no wakeup.       *)
NoLostRefillWakeup ==
    refillPc = "asleep" /\ (NeedsRefill \/ shutdown) =>
        \/ ownerPc \in {"pushed", "closing"}
        \/ \E g \in Gpus : gpuPc[g] = "notify"

(* No GPU thread sleeps in popWithTimeout while there is work to pop.      *)
NoSleepWithWork == \A g \in Gpus : gpuPc[g] = "asleep" => buffer = <<>>

(* Once the job of a work handed out is expired it stays expired, although *)
(* isExpiredJob tests for inequality with a counter that expireJobs raises *)
(* and the refill thread overwrites.                                       *)
ExpiredStaysExpired ==
    [][\A g \in Gpus : work[g] # NoWork /\ Expired(work[g]) /\ work'[g] = work[g]
            => Expired(work[g])']_vars

(* A job that stays the newest one is eventually offered to the GPUs.      *)
NewestJobIsOffered ==
    \A j \in JobIds :
        (~shutdown /\ jobQueue # <<>> /\ Head(jobQueue) = j) ~>
            (offered = j \/ jobQueue = <<>> \/ Head(jobQueue) # j \/ shutdown)

(* The destructor returns: the refill thread notices the shutdown.         *)
RefillThreadEnds == shutdown ~> (refillPc = "ended")

(* The strengthening that makes the safety properties inductive. The front *)
(* of the queue is always the last job pushed; the counter that decides on *)
(* expiry never falls behind the job offered; and what the refill thread   *)
(* copied under the lock still bounds what it may store.                   *)
QueueInv ==
    /\ jobQueue # <<>> => Head(jobQueue) = currentId
    /\ jobQueue \in Seq(1 .. currentId)

IdInv ==
    /\ offered <= latestJobId
    /\ offered <= currentId
    /\ cleanFloor <= currentId
    /\ refillId <= currentId
    /\ offered = 0 \/ offered <= refillId
    /\ buffer # <<>> => cleanFloor <= offered
    /\ \A g \in Gpus : work[g] <= offered

RefillInv ==
    /\ refillPc # "making" =>
          /\ heldJob = NoWork
          /\ jobQueue # <<>> /\ refillId = currentId => offered = refillId
    /\ refillPc = "making" =>
          /\ heldJob = refillId
          /\ hasNewJob => offered < refillId
          /\ ~hasNewJob => offered = refillId /\ room + Len(buffer) <= MaxLength

IInv ==
    /\ TypeOK
    /\ QueueInv
    /\ IdInv
    /\ RefillInv
    /\ BufferBounded
    /\ BufferOfOneJob
    /\ NoSleepWithWork
    /\ NoLostRefillWakeup

(* The queue is a source of works in the sense of WorkSource.              *)
Source == INSTANCE WorkSource WITH fresh <- (latestJobId = offered)
ImplementsWorkSource == Source!Spec

=============================================================================
