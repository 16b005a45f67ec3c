-------------------------- MODULE TaskExecutorPool --------------------------
(***************************************************************************)
(* TaskExecutorPool (util/TaskExecutorPool.h): worker threads that run the *)
(* tasks of a queue in their order. One operator is one critical section   *)
(* of queueMutex or one notify outside of it. A task that throws, which    *)
(* would end its worker, and setThreadCount, which nothing calls, are left *)
(* out.                                                                    *)
(***************************************************************************)
EXTENDS Sequences

CONSTANT Workers

VARIABLES
    jobQueue,   \* tasks nobody has begun
    executor,   \* "check" (has the lock), "asleep", "busy" or "ended", per worker
    task,       \* the task each busy worker runs
    stopping    \* the shutdown flag

executorVars == <<jobQueue, executor, task, stopping>>

NoTask == 0

ExecutorInit ==
    /\ jobQueue = <<>>
    /\ executor = [w \in Workers |-> "check"]
    /\ task = [w \in Workers |-> NoTask]
    /\ stopping = FALSE

(* addTask up to the end of its critical section.                          *)
addTask(t) ==
    /\ jobQueue' = Append(jobQueue, t)
    /\ UNCHANGED <<executor, task, stopping>>

Asleep == {w \in Workers : executor[w] = "asleep"}

(* cv.notify_one()                                                         *)
NobodyWoken == UNCHANGED executor

NotifyOne ==
    \/ \E w \in Asleep : executor' = [executor EXCEPT ![w] = "check"]
    \/ Asleep = {} /\ UNCHANGED executor

(* cv.notify_all()                                                         *)
NotifyAll == executor' = [w \in Workers |-> IF w \in Asleep THEN "check" ELSE executor[w]]

(* The loop of a worker.                                                   *)
Sleep(w) ==
    /\ executor[w] = "check"
    /\ jobQueue = <<>> /\ ~stopping
    /\ executor' = [executor EXCEPT ![w] = "asleep"]
    /\ UNCHANGED <<jobQueue, task, stopping>>

EndWorker(w) ==
    /\ executor[w] = "check"
    /\ stopping
    /\ executor' = [executor EXCEPT ![w] = "ended"]
    /\ UNCHANGED <<jobQueue, task, stopping>>

TakeTask(w) ==
    /\ executor[w] = "check"
    /\ jobQueue # <<>> /\ ~stopping
    /\ task' = [task EXCEPT ![w] = Head(jobQueue)]
    /\ jobQueue' = Tail(jobQueue)
    /\ executor' = [executor EXCEPT ![w] = "busy"]
    /\ UNCHANGED stopping

TaskDone(w) ==
    /\ executor' = [executor EXCEPT ![w] = "check"]
    /\ task' = [task EXCEPT ![w] = NoTask]
    /\ UNCHANGED <<jobQueue, stopping>>

(* The destructor; it notifies and then joins the workers.                 *)
SetStopping ==
    /\ stopping' = TRUE
    /\ UNCHANGED <<jobQueue, executor, task>>

-----------------------------------------------------------------------------
ExecutorTypeOK(Tasks) ==
    /\ jobQueue \in Seq(Tasks)
    /\ executor \in [Workers -> {"check", "asleep", "busy", "ended"}]
    /\ task \in [Workers -> Tasks \cup {NoTask}]
    /\ stopping \in BOOLEAN
=============================================================================
