--------------------------- MODULE WorkQueueProofs ---------------------------
(***************************************************************************)
(* Proofs about WorkQueue, for any set of GPU threads, any thresholds and  *)
(* any bounds.                                                             *)
(***************************************************************************)
EXTENDS WorkQueue, SequenceTheorems, TLAPS

-----------------------------------------------------------------------------
(* What the operations do to a sequence: to the job queue, which has the    *)
(* newest in front, and to the buffer, which is popped from the end.       *)

(* Pushing to the front.                                                   *)
LEMMA PushFacts ==
    ASSUME NEW S, NEW q \in Seq(S), NEW e \in S
    PROVE  /\ <<e>> \o q \in Seq(S)
           /\ <<e>> \o q # <<>>
           /\ Head(<<e>> \o q) = e
           /\ Len(<<e>> \o q) = Len(q) + 1
           /\ (<<e>> \o q)[1] = e
           /\ \A i \in 2 .. Len(q) + 1 : (<<e>> \o q)[i] = q[i - 1]
  OBVIOUS

(* Pushing n copies of one element to the front.                           *)
LEMMA BatchFacts ==
    ASSUME NEW S, NEW q \in Seq(S), NEW e \in S, NEW n \in Nat
    PROVE  LET b == [i \in 1 .. n |-> e] \o q
           IN  /\ b \in Seq(S)
               /\ Len(b) = n + Len(q)
               /\ \A i \in 1 .. n : b[i] = e
               /\ \A i \in n + 1 .. n + Len(q) : b[i] = q[i - n]
  <1>1. [i \in 1 .. n |-> e] \in Seq(S) /\ Len([i \in 1 .. n |-> e]) = n
    OBVIOUS
  <1>2. QED
    BY <1>1

(* Keeping the first n elements.                                           *)
LEMMA PrefixFacts ==
    ASSUME NEW S, NEW q \in Seq(S), NEW n \in Nat, n <= Len(q)
    PROVE  /\ SubSeq(q, 1, n) \in Seq(S)
           /\ Len(SubSeq(q, 1, n)) = n
           /\ \A i \in 1 .. n : SubSeq(q, 1, n)[i] = q[i]
  OBVIOUS

(* Popping from the end.                                                   *)
LEMMA PopFacts ==
    ASSUME NEW S, NEW q \in Seq(S), q # <<>>
    PROVE  /\ Front(q) \in Seq(S)
           /\ Len(Front(q)) = Len(q) - 1
           /\ \A i \in 1 .. Len(q) - 1 : Front(q)[i] = q[i]
           /\ Last(q) \in S
           /\ Last(q) = q[Len(q)]
           /\ Len(q) \in 1 .. Len(q)
  <1>1. Len(q) \in Nat /\ Len(q) # 0
    BY EmptySeq
  <1>2. Last(q) \in S /\ Last(q) = q[Len(q)]
    BY <1>1 DEF Last
  <1>3. Len(q) - 1 \in Nat /\ Len(q) - 1 <= Len(q)
    BY <1>1
  <1>4. /\ Front(q) \in Seq(S)
        /\ Len(Front(q)) = Len(q) - 1
        /\ \A i \in 1 .. Len(q) - 1 : Front(q)[i] = q[i]
    BY <1>3, PrefixFacts, Zenon DEF Front
  <1>5. QED
    BY <1>1, <1>2, <1>4

-----------------------------------------------------------------------------
USE WorkQueueAssumption DEF WorkQueueAssumption

LEMMA TrimFacts ==
    ASSUME NEW S, NEW q \in Seq(S)
    PROVE  /\ Trim(q) \in Seq(S)
           /\ Len(Trim(q)) <= Len(q)
           /\ \A i \in 1 .. Len(Trim(q)) : Trim(q)[i] = q[i]
  BY DEF Trim

-----------------------------------------------------------------------------
(* One lemma per group of actions: the strengthened invariant is inductive. *)

LEMMA NoJobs == <<>> \in Seq(JobIds) /\ Len(<<>>) = 0
  BY EmptySeq, Zenon

LEMMA ZeroBounds == 0 \in 0 .. MaxJobs /\ 0 \in 0 .. MaxLatest /\ 0 \in 0 .. MaxLength
  OBVIOUS

LEMMA InitIInv == Init => IInv
  <1> SUFFICES ASSUME Init PROVE IInv
    OBVIOUS
  <1> USE DEF Init, NoWork
  <1>1. Len(buffer) = 0 /\ Len(jobQueue) = 0
    BY EmptySeq
  <1>2. TypeOK
    <2>1. jobQueue \in Seq(JobIds) /\ buffer \in Seq(JobIds)
      BY NoJobs
    <2>2. gpuPc \in [Gpus -> {"idle", "popping", "asleep", "notify"}]
      OBVIOUS
    <2>3. work \in [Gpus -> JobIds \cup {NoWork}]
      OBVIOUS
    <2>4. refillId \in JobIds \cup {-1} /\ heldJob \in JobIds \cup {NoWork}
      OBVIOUS
    <2>5. QED
      BY <2>1, <2>2, <2>3, <2>4, ZeroBounds, Zenon DEF TypeOK
  <1>3. QueueInv /\ IdInv /\ RefillInv
    BY <1>1 DEF QueueInv, IdInv, RefillInv
  <1>4. BufferBounded /\ BufferOfOneJob /\ NoSleepWithWork /\ NoLostRefillWakeup
    BY <1>1 DEF BufferBounded, BufferOfOneJob, NoSleepWithWork, NoLostRefillWakeup
  <1>5. QED
    BY <1>2, <1>3, <1>4 DEF IInv

LEMMA PushIInv ==
    ASSUME IInv, NEW cleanFlag \in BOOLEAN, pushJob(cleanFlag)
    PROVE  IInv'
  <1> DEFINE ids == 1 .. currentId + 1
             old == IF cleanFlag THEN <<>> ELSE Trim(jobQueue)
  <1>1. currentId \in 0 .. MaxJobs /\ currentId + 1 \in 1 .. MaxJobs
    BY DEF IInv, TypeOK, pushJob
  <1>2. /\ currentId' = currentId + 1
        /\ jobQueue' = <<currentId + 1>> \o old
        /\ buffer' = IF cleanFlag THEN <<>> ELSE buffer
        /\ cleanFloor' = IF cleanFlag THEN currentId + 1 ELSE cleanFloor
        /\ ownerPc' = "pushed"
        /\ UNCHANGED <<latestJobId, shutdown, gpuPc, work, refillPc, refillId,
                       heldJob, hasNewJob, room, offered>>
    BY Zenon DEF pushJob, PushInto, refillVars
  <1>3. old \in Seq(ids)
    <2>1. <<>> \in Seq(ids)
      BY EmptySeq, Zenon
    <2>2. Trim(jobQueue) \in Seq(1 .. currentId)
      BY TrimFacts, Zenon DEF IInv, QueueInv
    <2>3. Trim(jobQueue) \in Seq(ids)
      BY <1>1, <2>2, SeqMonotonic, 1 .. currentId \subseteq ids
    <2>4. QED
      BY <2>1, <2>3, Zenon
  <1>4. /\ jobQueue' \in Seq(1 .. currentId')
        /\ jobQueue' # <<>>
        /\ Head(jobQueue') = currentId'
    <2>1. currentId + 1 \in ids
      BY <1>1
    <2>2. /\ <<currentId + 1>> \o old \in Seq(ids)
          /\ <<currentId + 1>> \o old # <<>>
          /\ Head(<<currentId + 1>> \o old) = currentId + 1
      <3> HIDE DEF old, ids
      <3>1. QED
        BY <1>3, <2>1, PushFacts
    <2> HIDE DEF old
    <2>3. QED
      BY <1>2, <2>2, Zenon
  <1>5. jobQueue' \in Seq(JobIds) /\ buffer' \in Seq(JobIds)
    <2>1. 1 .. currentId' \subseteq JobIds
      BY <1>1, <1>2 DEF JobIds
    <2>2. jobQueue' \in Seq(JobIds)
      BY <1>4, <2>1, SeqMonotonic, Zenon
    <2>3. QED
      BY <2>2, <1>2, NoJobs, Zenon DEF IInv, TypeOK
  <1>6. TypeOK'
    <2>1. currentId' \in 0 .. MaxJobs /\ cleanFloor' \in 0 .. MaxJobs
      BY <1>1, <1>2 DEF IInv, TypeOK
    <2>2. QED
      BY <1>2, <1>5, <2>1, Zenon DEF IInv, TypeOK
  <1>7. QueueInv'
    BY <1>4, Zenon DEF QueueInv
  <1>8. IdInv'
    <2>1. /\ offered <= currentId' /\ refillId <= currentId' /\ cleanFloor' <= currentId'
      BY <1>1, <1>2 DEF IInv, TypeOK, IdInv, JobIds
    <2>2. buffer' # <<>> => cleanFloor' <= offered
      BY <1>2, Zenon DEF IInv, IdInv
    <2>3. QED
      BY <1>2, <2>1, <2>2, Zenon DEF IInv, IdInv
  <1>9. RefillInv'
    <2>1. refillId # currentId'
      BY <1>1, <1>2 DEF IInv, TypeOK, IdInv, JobIds
    <2>2. Len(buffer') <= Len(buffer)
      BY <1>2, NoJobs DEF IInv, TypeOK
    <2>3. room + Len(buffer) <= MaxLength => room + Len(buffer') <= MaxLength
      BY <1>5, <2>2 DEF IInv, TypeOK
    <2>4. QED
      BY <1>2, <2>1, <2>3, Zenon DEF IInv, RefillInv
  <1>10. BufferBounded' /\ BufferOfOneJob' /\ NoSleepWithWork'
    <2>1. CASE cleanFlag
      <3>1. buffer' = <<>> /\ Len(buffer') = 0
        BY <1>2, <2>1, NoJobs, Zenon
      <3>2. QED
        BY <3>1 DEF BufferBounded, BufferOfOneJob, NoSleepWithWork
    <2>2. CASE ~cleanFlag
      BY <1>2, <2>2, Zenon DEF IInv, BufferBounded, BufferOfOneJob, NoSleepWithWork
    <2>3. QED
      BY <2>1, <2>2
  <1>11. NoLostRefillWakeup'
    BY <1>2, Zenon DEF NoLostRefillWakeup
  <1>12. QED
    BY <1>6, <1>7, <1>8, <1>9, <1>10, <1>11, Zenon DEF IInv

(* Everything but the program counters of the GPU threads and the owner,   *)
(* and the wakeup of the refill thread, is left alone.                     *)
LEMMA QuietIInv ==
    ASSUME IInv,
           UNCHANGED <<queueVars, latestJobId, refillVars, ghosts>>,
           ownerPc' \in {"idle", "pushed", "closing", "joining"},
           gpuPc' \in [Gpus -> {"idle", "popping", "asleep", "notify"}],
           work' \in [Gpus -> JobIds \cup {NoWork}],
           \A g \in Gpus : work'[g] = work[g] \/ work'[g] = NoWork,
           refillPc' = refillPc \/ (refillPc = "asleep" /\ refillPc' = "check"),
           NoSleepWithWork', NoLostRefillWakeup'
    PROVE  IInv'
  <1>1. TypeOK'
    BY Zenon DEF IInv, TypeOK, queueVars, refillVars, ghosts
  <1>2. QueueInv' /\ RefillInv'
    BY Zenon DEF IInv, QueueInv, RefillInv, queueVars, refillVars, ghosts
  <1>3. IdInv'
    <2>1. \A g \in Gpus : work'[g] <= offered
      BY DEF IInv, TypeOK, IdInv, NoWork
    <2>2. QED
      BY <2>1, Zenon DEF IInv, IdInv, queueVars, refillVars, ghosts
  <1>4. BufferBounded' /\ BufferOfOneJob'
    BY Zenon DEF IInv, BufferBounded, BufferOfOneJob, queueVars, ghosts
  <1>5. QED
    BY <1>1, <1>2, <1>3, <1>4, Zenon DEF IInv

LEMMA WokenRefill ==
    ASSUME notifyNeedsRefill
    PROVE  refillPc' # "asleep" /\ (refillPc' = refillPc \/ (refillPc = "asleep" /\ refillPc' = "check"))
  <1>1. CASE refillPc = "asleep"
    BY <1>1 DEF notifyNeedsRefill
  <1>2. CASE refillPc # "asleep"
    BY <1>2 DEF notifyNeedsRefill
  <1>3. QED
    BY <1>1, <1>2

LEMMA OwnerNotifyIInv == IInv /\ OwnerNotify => IInv'
  <1> SUFFICES ASSUME IInv, OwnerNotify PROVE IInv'
    OBVIOUS
  <1>1. refillPc' # "asleep" /\ (refillPc' = refillPc \/ (refillPc = "asleep" /\ refillPc' = "check"))
    BY WokenRefill, Zenon DEF OwnerNotify
  <1>2. NoLostRefillWakeup' /\ NoSleepWithWork'
    BY <1>1, Zenon DEF IInv, NoLostRefillWakeup, NoSleepWithWork, OwnerNotify, queueVars
  <1>3. QED
    BY <1>1, <1>2, QuietIInv, Zenon DEF OwnerNotify, IInv, TypeOK

LEMMA DestroyIInv == IInv /\ Destroy => IInv'
  <1> SUFFICES ASSUME IInv, Destroy PROVE IInv'
    OBVIOUS
  <1>1. TypeOK'
    BY Zenon DEF IInv, TypeOK, Destroy, refillVars, ghosts
  <1>2. QueueInv' /\ IdInv' /\ RefillInv' /\ BufferBounded' /\ BufferOfOneJob'
    BY Zenon DEF IInv, QueueInv, IdInv, RefillInv, BufferBounded, BufferOfOneJob,
                 Destroy, refillVars, ghosts
  <1>3. NoSleepWithWork' /\ NoLostRefillWakeup'
    BY Zenon DEF IInv, NoSleepWithWork, NoLostRefillWakeup, Destroy
  <1>4. QED
    BY <1>1, <1>2, <1>3, Zenon DEF IInv

LEMMA ClearIInv == IInv /\ clear => IInv'
  <1> SUFFICES ASSUME IInv, clear PROVE IInv'
    OBVIOUS
  <1>1. TypeOK'
    BY NoJobs, Zenon DEF IInv, TypeOK, clear, refillVars, ghosts
  <1>2. QueueInv'
    <2>1. <<>> \in Seq(1 .. currentId)
      BY EmptySeq, Zenon
    <2>2. QED
      BY <2>1, Zenon DEF QueueInv, clear
  <1>3. IdInv' /\ RefillInv' /\ BufferBounded' /\ BufferOfOneJob' /\ NoSleepWithWork'
    BY Zenon DEF IInv, IdInv, RefillInv, BufferBounded, BufferOfOneJob,
                 NoSleepWithWork, clear, refillVars, ghosts
  <1>4. NoLostRefillWakeup'
    BY Zenon DEF NoLostRefillWakeup, NeedsRefill, clear
  <1>5. QED
    BY <1>1, <1>2, <1>3, <1>4, Zenon DEF IInv

LEMMA ExpireIInv == IInv /\ expireJobs => IInv'
  <1> SUFFICES ASSUME IInv, expireJobs PROVE IInv'
    OBVIOUS
  <1>1. latestJobId' \in 0 .. MaxLatest /\ offered <= latestJobId'
    BY DEF IInv, TypeOK, IdInv, expireJobs, ExpiredLatest
  <1>2. TypeOK'
    BY <1>1, Zenon DEF IInv, TypeOK, expireJobs, queueVars, refillVars
  <1>3. QueueInv' /\ IdInv' /\ RefillInv' /\ BufferBounded' /\ BufferOfOneJob'
    BY <1>1, Zenon DEF IInv, QueueInv, IdInv, RefillInv, BufferBounded, BufferOfOneJob,
                       expireJobs, queueVars, refillVars
  <1>4. NoSleepWithWork' /\ NoLostRefillWakeup'
    BY Zenon DEF IInv, NoSleepWithWork, NoLostRefillWakeup, NeedsRefill, expireJobs,
                 queueVars, refillVars
  <1>5. QED
    BY <1>2, <1>3, <1>4, Zenon DEF IInv

-----------------------------------------------------------------------------
(* The GPU threads.                                                        *)

LEMMA GpuWaitsIInv ==
    ASSUME IInv, NEW g \in Gpus, Call(g) \/ Sleep(g) \/ TimeOut(g)
    PROVE  IInv'
  <1>1. gpuPc[g] # "notify" /\ gpuPc'[g] # "notify" /\ (gpuPc'[g] = "asleep" => buffer = <<>>)
    BY DEF IInv, TypeOK, Call, Sleep, TimeOut
  <1>2. /\ gpuPc' \in [Gpus -> {"idle", "popping", "asleep", "notify"}]
        /\ \A h \in Gpus : h # g => gpuPc'[h] = gpuPc[h]
        /\ work' \in [Gpus -> JobIds \cup {NoWork}]
        /\ \A h \in Gpus : work'[h] = work[h] \/ work'[h] = NoWork
    BY DEF IInv, TypeOK, Call, Sleep, TimeOut
  <1>3. UNCHANGED <<queueVars, latestJobId, ownerPc, refillPc, refillVars, ghosts>>
    BY Zenon DEF Call, Sleep, TimeOut
  <1>4. NoSleepWithWork'
    BY <1>1, <1>2, <1>3, Zenon DEF IInv, NoSleepWithWork, queueVars
  <1>5. NoLostRefillWakeup'
    BY <1>1, <1>2, <1>3, Zenon DEF IInv, NoLostRefillWakeup, NeedsRefill, queueVars, refillVars
  <1>6. QED
    BY <1>2, <1>3, <1>4, <1>5, QuietIInv, Zenon DEF IInv, TypeOK

LEMMA PopNotifyIInv ==
    ASSUME IInv, NEW g \in Gpus, PopNotify(g)
    PROVE  IInv'
  <1>1. refillPc' # "asleep" /\ (refillPc' = refillPc \/ (refillPc = "asleep" /\ refillPc' = "check"))
    BY WokenRefill, Zenon DEF PopNotify
  <1>2. /\ gpuPc' \in [Gpus -> {"idle", "popping", "asleep", "notify"}]
        /\ \A h \in Gpus : gpuPc'[h] = "asleep" => gpuPc[h] = "asleep"
    BY DEF IInv, TypeOK, PopNotify
  <1>3. NoSleepWithWork' /\ NoLostRefillWakeup'
    BY <1>1, <1>2, Zenon DEF IInv, NoSleepWithWork, NoLostRefillWakeup, PopNotify, queueVars
  <1>4. QED
    BY <1>1, <1>2, <1>3, QuietIInv, Zenon DEF IInv, TypeOK, PopNotify

LEMMA PopBackIInv ==
    ASSUME IInv, NEW g \in Gpus, PopBack(g)
    PROVE  IInv'
  <1>1. buffer \in Seq(JobIds) /\ buffer # <<>>
    BY Zenon DEF IInv, TypeOK, PopBack
  <1>2. /\ buffer' \in Seq(JobIds)
        /\ Len(buffer') = Len(buffer) - 1
        /\ \A i \in 1 .. Len(buffer) - 1 : buffer'[i] = buffer[i]
        /\ Last(buffer) \in JobIds
        /\ Last(buffer) = buffer[Len(buffer)]
        /\ Len(buffer) \in 1 .. Len(buffer)
    BY <1>1, PopFacts, Zenon DEF PopBack
  <1>3. Len(buffer) \in Nat /\ Len(buffer') \in Nat
    BY <1>1, <1>2
  <1>4. /\ gpuPc' \in [Gpus -> {"idle", "popping", "asleep", "notify"}]
        /\ gpuPc'[g] = IF MustNotify THEN "notify" ELSE "idle"
        /\ \A h \in Gpus : h # g => gpuPc'[h] = gpuPc[h]
        /\ gpuPc[g] = "popping"
    BY DEF IInv, TypeOK, PopBack
  <1>5. /\ work' \in [Gpus -> JobIds \cup {NoWork}]
        /\ work'[g] = Last(buffer)
        /\ \A h \in Gpus : h # g => work'[h] = work[h]
    BY <1>2, Zenon DEF IInv, TypeOK, PopBack
  <1>6. UNCHANGED <<jobQueue, currentId, shutdown, latestJobId, ownerPc, refillPc,
                    refillVars, ghosts>>
    BY Zenon DEF PopBack
  <1>7. TypeOK'
    BY <1>2, <1>4, <1>5, <1>6, Zenon DEF IInv, TypeOK, refillVars, ghosts
  <1>8. QueueInv'
    BY <1>6, Zenon DEF IInv, QueueInv
  <1>9. Last(buffer) = offered
    BY <1>2, Zenon DEF IInv, BufferOfOneJob
  <1>10. IdInv'
    <2>1. offered <= offered
      BY DEF IInv, TypeOK
    <2>2. \A h \in Gpus : work'[h] <= offered
      BY <1>5, <1>9, <2>1, Zenon DEF IInv, IdInv
    <2>3. QED
      BY <1>1, <1>6, <2>2, Zenon DEF IInv, IdInv, refillVars, ghosts
  <1>11. RefillInv'
    <2>1. room + Len(buffer) <= MaxLength => room + Len(buffer') <= MaxLength
      BY <1>2, <1>3 DEF IInv, TypeOK
    <2>2. QED
      BY <1>6, <2>1, Zenon DEF IInv, RefillInv, refillVars, ghosts
  <1>12. BufferBounded'
    BY <1>2, <1>3 DEF IInv, BufferBounded
  <1>13. BufferOfOneJob'
    <2>1. \A i \in 1 .. Len(buffer') : i \in 1 .. Len(buffer) /\ i \in 1 .. Len(buffer) - 1
      BY <1>2, <1>3
    <2>2. QED
      BY <1>2, <1>6, <2>1, Zenon DEF IInv, BufferOfOneJob, ghosts
  <1>14. NoSleepWithWork'
    <2>1. gpuPc'[g] # "asleep"
      BY <1>4
    <2>2. QED
      BY <1>1, <1>4, <2>1, Zenon DEF IInv, NoSleepWithWork
  <1>15. NoLostRefillWakeup'
    <2>1. CASE MustNotify
      BY <1>4, <2>1, Zenon DEF NoLostRefillWakeup
    <2>2. CASE ~MustNotify
      <3>1. NeedsRefill' => NeedsRefill
        BY <1>2, <1>6, <2>2, Zenon DEF MustNotify, NeedsRefill, refillVars
      <3>2. QED
        BY <1>4, <1>6, <3>1, Zenon DEF IInv, NoLostRefillWakeup
    <2>3. QED
      BY <2>1, <2>2
  <1>16. QED
    BY <1>7, <1>8, <1>10, <1>11, <1>12, <1>13, <1>14, <1>15, Zenon DEF IInv

-----------------------------------------------------------------------------
(* The refill thread.                                                      *)

LEMMA RefillStopsIInv ==
    ASSUME IInv, RefillSleep \/ RefillEnd
    PROVE  IInv'
  <1>1. UNCHANGED <<queueVars, latestJobId, ownerPc, gpuPc, work, refillVars, ghosts>>
    BY Zenon DEF RefillSleep, RefillEnd
  <1>2. /\ refillPc = "check" /\ refillPc' \in {"asleep", "ended"}
        /\ refillPc' = "asleep" => ~NeedsRefill /\ ~shutdown
    BY DEF RefillSleep, RefillEnd
  <1>3. TypeOK'
    BY <1>1, <1>2, Zenon DEF IInv, TypeOK, queueVars, refillVars, ghosts
  <1>4. RefillInv'
    <2>1. refillPc # "making" /\ refillPc' # "making"
      BY <1>2
    <2>2. QED
      BY <1>1, <2>1, Zenon DEF IInv, RefillInv, queueVars, refillVars, ghosts
  <1>5. QueueInv' /\ IdInv' /\ BufferBounded' /\ BufferOfOneJob' /\ NoSleepWithWork'
    BY <1>1, Zenon DEF IInv, QueueInv, IdInv, BufferBounded, BufferOfOneJob,
                       NoSleepWithWork, queueVars, refillVars, ghosts
  <1>6. NoLostRefillWakeup'
    BY <1>1, <1>2, Zenon DEF NoLostRefillWakeup, NeedsRefill, queueVars, refillVars
  <1>7. QED
    BY <1>3, <1>4, <1>5, <1>6, Zenon DEF IInv

(* The front of a nonempty queue is the last job pushed.                   *)
LEMMA FrontIsNewest ==
    ASSUME IInv, jobQueue # <<>>
    PROVE  /\ Head(jobQueue) = currentId
           /\ currentId \in JobIds
  <1>1. Head(jobQueue) \in 1 .. currentId
    BY HeadTailProperties, Zenon DEF IInv, QueueInv
  <1>2. QED
    BY <1>1 DEF IInv, TypeOK, QueueInv, JobIds

LEMMA RefillBeginIInv ==
    ASSUME IInv, RefillBegin
    PROVE  IInv'
  <1>1. /\ jobQueue # <<>>
        /\ refillPc = "check" /\ refillPc' = "making"
        /\ UNCHANGED <<jobQueue, currentId, buffer, shutdown, latestJobId, ownerPc,
                       gpuPc, work, offered, cleanFloor>>
    BY Zenon DEF RefillBegin, NeedsRefill, queueVars, ghosts
  <1>2. /\ currentId \in JobIds
        /\ refillId' = currentId /\ heldJob' = currentId
        /\ hasNewJob' = (refillId # currentId)
        /\ room' = IF refillId # currentId THEN MaxLength ELSE MaxLength - Len(buffer)
    BY <1>1, FrontIsNewest, Zenon DEF RefillBegin, BatchSize
  <1>3. Len(buffer) \in Nat /\ Len(buffer) <= MaxLength
    BY DEF IInv, TypeOK, BufferBounded
  <1>4. room' \in 0 .. MaxLength
    BY <1>2, <1>3
  <1>5. TypeOK'
    <2>1. refillPc' \in {"check", "asleep", "making", "ended"}
      BY <1>1
    <2>2. refillId' \in JobIds \cup {-1} /\ heldJob' \in JobIds \cup {NoWork} /\ hasNewJob' \in BOOLEAN
      BY <1>2, Zenon
    <2>3. QED
      BY <1>1, <1>4, <2>1, <2>2, Zenon DEF IInv, TypeOK
  <1>6. QueueInv' /\ BufferBounded' /\ BufferOfOneJob' /\ NoSleepWithWork'
    BY <1>1, Zenon DEF IInv, QueueInv, BufferBounded, BufferOfOneJob, NoSleepWithWork
  <1>7. IdInv'
    <2>1. refillId' <= currentId /\ offered <= refillId'
      BY <1>2 DEF IInv, TypeOK, IdInv, JobIds
    <2>2. QED
      BY <1>1, <2>1, Zenon DEF IInv, IdInv
  <1>8. RefillInv'
    <2> DEFINE fits(n) == n + Len(buffer) <= MaxLength
    <2>1. refillId # currentId => offered < currentId
      BY <1>2 DEF IInv, TypeOK, IdInv, JobIds
    <2>2. refillPc # "making" /\ refillPc' # "check"
      BY <1>1
    <2>3. ~hasNewJob' => offered = refillId'
      BY <1>1, <1>2, <2>2, Zenon DEF IInv, RefillInv
    <2>4. fits(MaxLength - Len(buffer))
      BY <1>3
    <2>5. hasNewJob' => offered < refillId'
      BY <1>2, <2>1, Zenon
    <2>6. ~hasNewJob' => fits(room')
      <3> HIDE DEF fits
      <3>1. QED
        BY <1>2, <2>4, Zenon
    <2>7. QED
      BY <1>1, <1>2, <2>3, <2>5, <2>6, Zenon DEF RefillInv
  <1>9. NoLostRefillWakeup'
    BY <1>1 DEF NoLostRefillWakeup
  <1>10. QED
    BY <1>5, <1>6, <1>7, <1>8, <1>9, Zenon DEF IInv

LEMMA RefillDiscardIInv ==
    ASSUME IInv, RefillDiscard
    PROVE  IInv'
  <1>1. /\ refillPc = "making" /\ refillPc' = "check" /\ heldJob' = NoWork
        /\ ~StillLatest
        /\ UNCHANGED <<jobQueue, currentId, buffer, shutdown, latestJobId, ownerPc,
                       gpuPc, work, refillId, hasNewJob, room, offered, cleanFloor>>
    BY Zenon DEF RefillDiscard, queueVars, ghosts
  <1>2. TypeOK'
    <2>1. refillPc' \in {"check", "asleep", "making", "ended"}
      BY <1>1
    <2>2. QED
      BY <1>1, <2>1, Zenon DEF IInv, TypeOK
  <1>3. QueueInv' /\ IdInv' /\ BufferBounded' /\ BufferOfOneJob' /\ NoSleepWithWork'
    BY <1>1, Zenon DEF IInv, QueueInv, IdInv, BufferBounded, BufferOfOneJob, NoSleepWithWork
  <1>4. RefillInv'
    <2>1. refillPc' # "making"
      BY <1>1
    <2>2. jobQueue # <<>> => refillId # currentId
      BY <1>1, FrontIsNewest, Zenon DEF StillLatest
    <2>3. QED
      BY <1>1, <2>1, <2>2, Zenon DEF RefillInv
  <1>5. NoLostRefillWakeup'
    BY <1>1 DEF NoLostRefillWakeup
  <1>6. QED
    BY <1>2, <1>3, <1>4, <1>5, Zenon DEF IInv

LEMMA RefillStoreIInv ==
    ASSUME IInv, RefillStore
    PROVE  IInv'
  <1> DEFINE kept == IF hasNewJob THEN <<>> ELSE buffer
  <1>1. /\ refillPc = "making" /\ refillPc' = "check" /\ heldJob' = NoWork
        /\ buffer' = [i \in 1 .. room |-> refillId] \o kept
        /\ latestJobId' = IF hasNewJob THEN refillId ELSE latestJobId
        /\ offered' = refillId
        /\ UNCHANGED <<jobQueue, currentId, shutdown, ownerPc, work, refillId, hasNewJob,
                       room, cleanFloor>>
    BY Zenon DEF RefillStore, Refilled, StoredLatest
  <1>2. jobQueue # <<>> /\ refillId = currentId /\ currentId \in JobIds
    BY FrontIsNewest, Zenon DEF RefillStore, StillLatest
  <1>3. kept \in Seq(JobIds) /\ (~hasNewJob => kept = buffer) /\ (hasNewJob => kept = <<>>)
    BY NoJobs, Zenon DEF IInv, TypeOK
  <1>4. Len(kept) \in Nat /\ room \in Nat /\ room + Len(kept) <= MaxLength
    <2>1. CASE hasNewJob
      BY <1>3, <2>1, NoJobs DEF IInv, TypeOK
    <2>2. CASE ~hasNewJob
      BY <1>1, <1>3, <2>2 DEF IInv, TypeOK, RefillInv
    <2>3. QED
      BY <2>1, <2>2
  <1>5. /\ buffer' \in Seq(JobIds)
        /\ Len(buffer') = room + Len(kept)
        /\ \A i \in 1 .. room : buffer'[i] = refillId
        /\ \A i \in room + 1 .. room + Len(kept) : buffer'[i] = kept[i - room]
    <2> HIDE DEF kept
    <2>1. QED
      BY <1>1, <1>2, <1>3, <1>4, BatchFacts
  <1>6. /\ offered <= refillId /\ refillId <= latestJobId'
        /\ latestJobId' \in 0 .. MaxLatest /\ refillId \in 0 .. MaxJobs
    BY <1>1, <1>2 DEF IInv, TypeOK, IdInv, RefillInv, JobIds
  <1>7. /\ gpuPc' \in [Gpus -> {"idle", "popping", "asleep", "notify"}]
        /\ \A g \in Gpus : gpuPc'[g] # "asleep"
    BY DEF IInv, TypeOK, RefillStore, notifyNotEmptyAnymore
  <1>8. TypeOK'
    <2>1. refillPc' \in {"check", "asleep", "making", "ended"}
      BY <1>1
    <2>2. QED
      BY <1>1, <1>5, <1>6, <1>7, <2>1, Zenon DEF IInv, TypeOK
  <1>9. QueueInv'
    BY <1>1, Zenon DEF IInv, QueueInv
  <1>10. IdInv'
    <2>1. \A g \in Gpus : work'[g] <= refillId
      BY <1>1, <1>2, <1>6 DEF IInv, TypeOK, IdInv, JobIds, NoWork
    <2>2. refillId <= currentId /\ cleanFloor <= refillId /\ refillId <= refillId
      BY <1>2 DEF IInv, TypeOK, IdInv, JobIds
    <2>3. QED
      BY <1>1, <1>6, <2>1, <2>2, Zenon DEF IInv, IdInv
  <1>11. RefillInv'
    <2>1. refillPc' # "making"
      BY <1>1
    <2>2. QED
      BY <1>1, <2>1, Zenon DEF RefillInv
  <1>12. BufferBounded'
    BY <1>4, <1>5, Zenon DEF BufferBounded
  <1>13. BufferOfOneJob'
    <2>1. ASSUME NEW i \in 1 .. Len(buffer')
          PROVE  buffer'[i] = refillId
      <3>1. CASE i <= room
        BY <1>4, <1>5, <3>1
      <3>2. CASE i > room
        <4>1. i \in room + 1 .. room + Len(kept) /\ i - room \in 1 .. Len(kept)
          BY <1>4, <1>5, <3>2
        <4>2. ~hasNewJob
          BY <1>3, <4>1, NoJobs
        <4>3. kept = buffer /\ offered = refillId
          BY <1>1, <1>3, <4>2, Zenon DEF IInv, RefillInv
        <4>4. QED
          BY <1>5, <4>1, <4>3, Zenon DEF IInv, BufferOfOneJob
      <3>3. QED
        BY <1>4, <3>1, <3>2
    <2>2. QED
      BY <1>1, <2>1, Zenon DEF BufferOfOneJob
  <1>14. NoSleepWithWork'
    BY <1>7, Zenon DEF NoSleepWithWork
  <1>15. NoLostRefillWakeup'
    BY <1>1 DEF NoLostRefillWakeup
  <1>16. QED
    BY <1>8, <1>9, <1>10, <1>11, <1>12, <1>13, <1>14, <1>15, Zenon DEF IInv

-----------------------------------------------------------------------------
(* The theorems.                                                           *)

LEMMA NextIInv == IInv /\ [Next]_vars => IInv'
  <1> SUFFICES ASSUME IInv, [Next]_vars PROVE IInv'
    OBVIOUS
  <1>1. ASSUME NEW cleanFlag \in BOOLEAN, pushJob(cleanFlag) PROVE IInv'
    BY <1>1, PushIInv, Zenon
  <1>2. CASE Destroy \/ OwnerNotify
    BY <1>2, DestroyIInv, OwnerNotifyIInv, Zenon
  <1>3. CASE clear \/ expireJobs
    BY <1>3, ClearIInv, ExpireIInv, Zenon
  <1>4. ASSUME NEW g \in Gpus, Gpu(g) PROVE IInv'
    BY <1>4, GpuWaitsIInv, PopBackIInv, PopNotifyIInv, Zenon DEF Gpu
  <1>5. CASE Refill
    BY <1>5, RefillStopsIInv, RefillBeginIInv, RefillStoreIInv, RefillDiscardIInv, Zenon
       DEF Refill
  <1>6. CASE UNCHANGED vars
    <2>1. UNCHANGED <<queueVars, latestJobId, ownerPc, gpuPc, work, refillPc, refillVars, ghosts>>
      BY <1>6, Zenon DEF vars
    <2>2. NoSleepWithWork' /\ NoLostRefillWakeup'
      BY <2>1, Zenon DEF IInv, NoSleepWithWork, NoLostRefillWakeup, NeedsRefill,
                         queueVars, refillVars
    <2>3. QED
      BY <2>1, <2>2, QuietIInv, Zenon DEF IInv, TypeOK
  <1>7. QED
    BY <1>1, <1>2, <1>3, <1>4, <1>5, <1>6, Zenon DEF Next, Owner

(* Every behaviour of the queue satisfies the strengthened invariant.      *)
THEOREM InductiveInvariant == Spec => []IInv
  <1>1. Init => IInv
    BY InitIInv
  <1>2. IInv /\ [Next]_vars => IInv'
    BY NextIInv
  <1>3. QED
    BY <1>1, <1>2, PTL DEF Spec

(* The works of the buffer all belong to the job of the last stored refill *)
(* and fit into it, whatever happened while the lock was given up.         *)
THEOREM BufferIsConsistent == Spec => [](BufferOfOneJob /\ BufferBounded)
  <1>1. IInv => BufferOfOneJob /\ BufferBounded
    BY Zenon DEF IInv
  <1>2. QED
    BY <1>1, InductiveInvariant, PTL

(* A clean push keeps older works from being popped, for any interleaving  *)
(* with the refill thread.                                                 *)
THEOREM CleanPush == Spec => []CleanPushDropsOldWork
  <1>1. IInv => CleanPushDropsOldWork
    <2> SUFFICES ASSUME IInv, NEW i \in 1 .. Len(buffer)
                 PROVE  buffer[i] >= cleanFloor
      BY DEF CleanPushDropsOldWork
    <2>1. buffer # <<>>
      BY NoJobs
    <2>2. buffer[i] = offered /\ cleanFloor <= offered
      BY <2>1, Zenon DEF IInv, IdInv, BufferOfOneJob
    <2>3. QED
      BY <2>2 DEF IInv, TypeOK
  <1>2. QED
    BY <1>1, InductiveInvariant, PTL

(* Notifying outside of the lock loses no wakeup of the refill thread, and *)
(* no GPU thread sleeps while there is work.                               *)
THEOREM NoLostWakeup == Spec => [](NoLostRefillWakeup /\ NoSleepWithWork)
  <1>1. IInv => NoLostRefillWakeup /\ NoSleepWithWork
    BY Zenon DEF IInv
  <1>2. QED
    BY <1>1, InductiveInvariant, PTL

-----------------------------------------------------------------------------
(* Expiry is final.                                                        *)

LEMMA ExpiryIsStable ==
    ASSUME IInv, [Next]_vars, NEW j \in 1 .. offered, Expired(j)
    PROVE  Expired(j)'
  <1>1. offered \in Nat /\ currentId \in Nat /\ latestJobId \in Nat /\ offered <= latestJobId /\ offered <= currentId
    BY DEF IInv, TypeOK, IdInv
  <1>2. j # NoWork /\ j # latestJobId + 1 /\ j # currentId + 1
    BY <1>1 DEF NoWork
  <1>3. CASE UNCHANGED <<jobQueue, heldJob, latestJobId>>
    BY <1>3, Zenon DEF Expired, Alive, isExpiredJob
  <1>4. ASSUME NEW cleanFlag \in BOOLEAN, pushJob(cleanFlag)
        PROVE  Expired(j)'
    <2>1. CASE isExpiredJob(j)
      BY <1>4, <2>1, Zenon DEF pushJob, Expired, isExpiredJob
    <2>2. CASE ~Alive(j)
      <3> DEFINE old == IF cleanFlag THEN <<>> ELSE Trim(jobQueue)
      <3>1. old \in Seq(JobIds) /\ \A i \in 1 .. Len(old) : old[i] # j
        <4>1. CASE cleanFlag
          BY <4>1, NoJobs
        <4>2. CASE ~cleanFlag
          <5>1. /\ Trim(jobQueue) \in Seq(JobIds)
                /\ Len(Trim(jobQueue)) <= Len(jobQueue)
                /\ \A i \in 1 .. Len(Trim(jobQueue)) : Trim(jobQueue)[i] = jobQueue[i]
            BY TrimFacts, Zenon DEF IInv, TypeOK
          <5>2. Len(Trim(jobQueue)) \in Nat /\ Len(jobQueue) \in Nat
            BY <5>1 DEF IInv, TypeOK
          <5>3. \A i \in 1 .. Len(Trim(jobQueue)) : i \in 1 .. Len(jobQueue)
            BY <5>1, <5>2
          <5>4. QED
            BY <2>2, <4>2, <5>1, <5>3, Zenon DEF Alive
        <4>3. QED
          BY <4>1, <4>2
      <3>2. currentId + 1 \in JobIds
        BY <1>1, <1>4 DEF pushJob, JobIds
      <3> HIDE DEF old
      <3>3. /\ Len(<<currentId + 1>> \o old) = Len(old) + 1
            /\ (<<currentId + 1>> \o old)[1] = currentId + 1
            /\ \A i \in 2 .. Len(old) + 1 : (<<currentId + 1>> \o old)[i] = old[i - 1]
        BY <3>1, <3>2, PushFacts
      <3>4. jobQueue' = <<currentId + 1>> \o old /\ heldJob' = heldJob
        BY <1>4, Zenon DEF pushJob, PushInto, refillVars, old
      <3>5. ASSUME NEW i \in 1 .. Len(old) + 1
            PROVE  (<<currentId + 1>> \o old)[i] # j
        <4>1. Len(old) \in Nat
          BY <3>1
        <4>2. CASE i = 1
          BY <1>2, <3>3, <4>2
        <4>3. CASE i # 1
          <5>1. i \in 2 .. Len(old) + 1 /\ i - 1 \in 1 .. Len(old)
            BY <4>1, <4>3
          <5>2. QED
            BY <3>1, <3>3, <5>1, Zenon
        <4>4. QED
          BY <4>2, <4>3
      <3>6. QED
        BY <2>2, <3>3, <3>4, <3>5, Zenon DEF Expired, Alive
    <2>3. QED
      BY <2>1, <2>2, Zenon DEF Expired
  <1>5. CASE expireJobs
    BY <1>2, <1>5, Zenon DEF expireJobs, ExpiredLatest, Expired, isExpiredJob
  <1>6. CASE clear
    <2>1. Len(jobQueue') = 0 /\ heldJob' = heldJob /\ latestJobId' = latestJobId
      BY <1>6, NoJobs, Zenon DEF clear, refillVars
    <2>2. Alive(j)' => Alive(j)
      BY <2>1 DEF Alive
    <2>3. QED
      BY <2>1, <2>2, Zenon DEF Expired, isExpiredJob
  <1>7. CASE RefillBegin
    <2>1. jobQueue # <<>> /\ heldJob' = Head(jobQueue) /\ UNCHANGED <<jobQueue, latestJobId>>
      BY <1>7, Zenon DEF RefillBegin, NeedsRefill, queueVars
    <2>2. 1 \in 1 .. Len(jobQueue) /\ Head(jobQueue) = jobQueue[1]
      BY <2>1, EmptySeq DEF IInv, TypeOK
    <2>3. QED
      BY <2>1, <2>2, Zenon DEF Expired, Alive, isExpiredJob
  <1>8. CASE RefillStore \/ RefillDiscard
    <2>1. heldJob' = NoWork /\ jobQueue' = jobQueue
      BY <1>8, Zenon DEF RefillStore, RefillDiscard, queueVars
    <2>2. latestJobId' = latestJobId \/ latestJobId' # j
      <3>1. CASE RefillDiscard
        BY <3>1, Zenon DEF RefillDiscard
      <3>2. CASE RefillStore /\ hasNewJob
        <4>1. refillId > offered
          BY <3>2 DEF IInv, TypeOK, RefillInv, RefillStore, JobIds
        <4>2. refillId # j
          BY <1>1, <4>1 DEF IInv, TypeOK, JobIds
        <4>3. QED
          BY <3>2, <4>2, Zenon DEF RefillStore, StoredLatest
      <3>3. CASE RefillStore /\ ~hasNewJob
        BY <3>3, Zenon DEF RefillStore, StoredLatest
      <3>4. QED
        BY <1>8, <3>1, <3>2, <3>3
    <2>3. QED
      BY <1>2, <2>1, <2>2, Zenon DEF Expired, Alive, isExpiredJob
  <1>9. ASSUME NEW g \in Gpus, Gpu(g) PROVE Expired(j)'
    <2>1. UNCHANGED <<jobQueue, heldJob, latestJobId>>
      BY <1>9, Zenon DEF Gpu, Call, Sleep, TimeOut, PopBack, PopNotify, queueVars, refillVars
    <2>2. QED
      BY <1>3, <2>1
  <1>10. CASE Destroy \/ OwnerNotify \/ RefillSleep \/ RefillEnd \/ UNCHANGED vars
    <2>1. UNCHANGED <<jobQueue, heldJob, latestJobId>>
      BY <1>10, Zenon DEF Destroy, OwnerNotify, RefillSleep, RefillEnd, vars, queueVars, refillVars
    <2>2. QED
      BY <1>3, <2>1
  <1>11. QED
    BY <1>4, <1>5, <1>6, <1>7, <1>8, <1>9, <1>10, Zenon DEF Next, Owner, Refill

(* A work that has expired in the hands of a GPU thread stays expired.     *)
THEOREM ExpiryIsFinal == Spec => ExpiredStaysExpired
  <1> DEFINE A == \A g \in Gpus : work[g] # NoWork /\ Expired(work[g]) /\ work'[g] = work[g]
                        => Expired(work[g])'
  <1>1. IInv /\ [Next]_vars => A
    <2> SUFFICES ASSUME IInv, [Next]_vars, NEW g \in Gpus,
                        work[g] # NoWork, Expired(work[g]), work'[g] = work[g]
                 PROVE  Expired(work[g])'
      BY Zenon
    <2>1. work[g] \in 1 .. offered
      BY DEF IInv, TypeOK, IdInv, JobIds, NoWork
    <2> DEFINE j == work[g]
    <2>2. j \in 1 .. offered /\ Expired(j) /\ j' = j
      BY <2>1
    <2>3. QED
      BY <2>2, ExpiryIsStable, Zenon DEF Expired, Alive, isExpiredJob
  <1>2. IInv /\ [Next]_vars => [A]_vars
    BY <1>1
  <1>3. QED
    BY <1>2, InductiveInvariant, PTL DEF Spec, ExpiredStaysExpired, A

-----------------------------------------------------------------------------
(* Refinement: the queue implements WorkSource.                            *)

(* A step of the queue offers a newer job, expires the offered one, gives  *)
(* a GPU thread a work, takes its old one away, or changes nothing that    *)
(* WorkSource speaks of.                                                   *)
LEMMA StepImplementsSource ==
    ASSUME IInv, [Next]_vars
    PROVE  [Source!Next]_Source!vars
  <1> USE DEF Source!vars
  <1>1. offered \in Nat /\ latestJobId \in Nat /\ offered <= latestJobId
    BY DEF IInv, TypeOK, IdInv
  <1>2. CASE UNCHANGED <<offered, latestJobId, work>>
    BY <1>2, Zenon
  <1>3. CASE expireJobs
    <2>1. (latestJobId = offered)' = FALSE
      BY <1>1, <1>3 DEF expireJobs, ExpiredLatest
    <2>2. Source!Expire
      BY <1>3, <2>1, Zenon DEF Source!Expire, expireJobs
    <2>3. QED
      BY <2>2, Zenon DEF Source!Next
  <1>4. CASE RefillStore
    <2>1. CASE hasNewJob
      <3>1. offered' \in Nat /\ offered' > offered /\ UNCHANGED work
        BY <1>4, <2>1 DEF IInv, TypeOK, RefillInv, RefillStore, JobIds
      <3>2. (latestJobId = offered)' \in BOOLEAN
        OBVIOUS
      <3>3. Source!Offer
        BY <3>1, <3>2, Zenon DEF Source!Offer
      <3>4. QED
        BY <3>3, Zenon DEF Source!Next
    <2>2. CASE ~hasNewJob
      <3>1. UNCHANGED <<offered, latestJobId, work>>
        BY <1>4, <2>2, Zenon DEF IInv, RefillInv, RefillStore, StoredLatest
      <3>2. QED
        BY <1>2, <3>1
    <2>3. QED
      BY <2>1, <2>2
  <1>5. ASSUME NEW g \in Gpus, PopBack(g)
        PROVE  [Source!Next]_Source!vars
    <2>1. Last(buffer) \in JobIds /\ Last(buffer) = buffer[Len(buffer)] /\ Len(buffer) \in 1 .. Len(buffer)
      BY <1>5, PopFacts, Zenon DEF IInv, TypeOK, PopBack
    <2>2. Last(buffer) = offered /\ offered > 0
      <3>1. Last(buffer) = offered
        BY <2>1, Zenon DEF IInv, BufferOfOneJob
      <3>2. QED
        BY <2>1, <3>1 DEF JobIds
    <2>3. UNCHANGED <<offered, latestJobId>>
      BY <1>5, Zenon DEF PopBack, ghosts
    <2>4. Source!Take(g)
      BY <1>5, <2>2, <2>3, Zenon DEF Source!Take, PopBack
    <2>5. QED
      BY <2>4, Zenon DEF Source!Next
  <1>6. ASSUME NEW g \in Gpus, Call(g)
        PROVE  [Source!Next]_Source!vars
    <2>1. Source!Drop(g)
      BY <1>6, Zenon DEF Source!Drop, Call, ghosts, NoWork
    <2>2. QED
      BY <2>1, Zenon DEF Source!Next
  <1>7. ASSUME NEW g \in Gpus, Sleep(g) \/ TimeOut(g) \/ PopNotify(g)
        PROVE  [Source!Next]_Source!vars
    BY <1>2, <1>7, Zenon DEF Sleep, TimeOut, PopNotify, ghosts
  <1>8. CASE \/ \E cleanFlag \in BOOLEAN : pushJob(cleanFlag)
             \/ Destroy \/ OwnerNotify \/ clear
             \/ RefillSleep \/ RefillEnd \/ RefillBegin \/ RefillDiscard
             \/ UNCHANGED vars
    <2>1. UNCHANGED <<offered, latestJobId, work>>
      BY <1>8, Zenon DEF pushJob, Destroy, OwnerNotify, clear, RefillSleep, RefillEnd,
                         RefillBegin, RefillDiscard, vars, ghosts
    <2>2. QED
      BY <1>2, <2>1
  <1>9. QED
    BY <1>3, <1>4, <1>5, <1>6, <1>7, <1>8, Zenon DEF Next, Owner, Gpu, Refill

(* The detailed queue implements the abstract source of works.             *)
THEOREM QueueImplementsSource == Spec => ImplementsWorkSource
  <1>1. Init => Source!Init
    <2> SUFFICES ASSUME Init PROVE Source!Init
      OBVIOUS
    <2>1. (latestJobId = offered) \in BOOLEAN
      OBVIOUS
    <2>2. QED
      BY <2>1, Zenon DEF Init, Source!Init, NoWork
  <1>2. IInv /\ [Next]_vars => [Source!Next]_Source!vars
    BY StepImplementsSource
  <1>3. QED
    BY <1>1, <1>2, InductiveInvariant, PTL DEF Spec, ImplementsWorkSource, Source!Spec
=============================================================================
