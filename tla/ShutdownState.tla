--------------------------- MODULE ShutdownState ---------------------------
(***************************************************************************)
(* ShutdownState (application/ShutdownState.cpp): what a signal does. The  *)
(* handler starts a task on a thread of its own, which asks main to close  *)
(* and ends the process if main has not done so in time.                   *)
(*                                                                         *)
(* The future of a task waits for it when it is destroyed, and the handler *)
(* of a second signal destroys the first: it blocks the thread that the    *)
(* signal came to. Two threads that are inside of a handler at the same    *)
(* instant, and a signal that comes to the thread of a task, are left out. *)
(***************************************************************************)
EXTENDS Naturals

CONSTANT MaxSignals

VARIABLES
    shutdownRequested,  \* the flags of ShutdownState, ...
    applicationClosed,
    mut,                \* ... its mutex: "free" or "main", ...
    tasks,              \* ... where the task of each signal is, ...
    shutdownTask,       \* ... and the one the future is of, 0 before the first
    awaits,             \* the tasks a thread waits for, in signal handlers
    outcome             \* "running", "exited", "killed" or "crashed"

shutdownVars == <<shutdownRequested, applicationClosed, mut, tasks,
                  shutdownTask, awaits, outcome>>

Signals == 1 .. MaxSignals
Threads == {"main", "api", "algorithm", "driver"}

(* A task is over in one step once it has the mutex: it never waits with   *)
(* it. Only main can be interrupted while it has the mutex.                *)
ShutdownTypeOK ==
    /\ {shutdownRequested, applicationClosed} \subseteq BOOLEAN
    /\ mut \in {"free", "main"}
    /\ tasks \in [Signals -> {"none", "starting", "waiting", "relocking", "done"}]
    /\ shutdownTask \in 0 .. MaxSignals
    /\ awaits \in [Threads -> SUBSET Signals]
    /\ outcome \in {"running", "exited", "killed", "crashed"}

ShutdownInit ==
    /\ shutdownRequested = FALSE /\ applicationClosed = FALSE
    /\ mut = "free"
    /\ tasks = [n \in Signals |-> "none"]
    /\ shutdownTask = 0
    /\ awaits = [t \in Threads |-> {}]
    /\ outcome = "running"

Free(t) == awaits[t] = {}
Over(n) == tasks[n] = "done"

-----------------------------------------------------------------------------
(* launchShutdownTask, on the thread t: the task is started and stored,    *)
(* and then the task that was stored before is waited for.                 *)
launchShutdownTask(t) ==
    /\ shutdownTask < MaxSignals
    /\ shutdownTask' = shutdownTask + 1
    /\ tasks' = [tasks EXCEPT ![shutdownTask + 1] = "starting"]
    /\ awaits' = [awaits EXCEPT ![t] = @ \cup ({shutdownTask} \ {0})]
    /\ UNCHANGED <<shutdownRequested, applicationClosed, mut, outcome>>

HandlerReturns(t) ==
    /\ \E n \in awaits[t] : Over(n) /\ awaits' = [awaits EXCEPT ![t] = @ \ {n}]
    /\ UNCHANGED <<shutdownRequested, applicationClosed, mut, tasks,
                   shutdownTask, outcome>>

(* shutdownWithTimeoutFunc up to its wait, which a task that finds the     *)
(* application closed already does not enter. Whether main sleeps, and so  *)
(* is woken, is with the caller.                                           *)
RequestShutdown(n) ==
    /\ tasks[n] = "starting" /\ mut = "free"
    /\ shutdownRequested' = TRUE
    /\ tasks' = [tasks EXCEPT ![n] = IF applicationClosed THEN "done" ELSE "waiting"]
    /\ UNCHANGED <<applicationClosed, mut, shutdownTask, awaits, outcome>>

(* Mutant: wait() in place of wait_for().                                  *)
NoTimeOut(n) ==
    /\ tasks[n] = "waiting" /\ applicationClosed
    /\ tasks' = [tasks EXCEPT ![n] = "relocking"]
    /\ UNCHANGED <<shutdownRequested, applicationClosed, mut, shutdownTask,
                   awaits, outcome>>

(* The ten seconds are over.                                               *)
TimeOut(n) ==
    /\ tasks[n] = "waiting"
    /\ tasks' = [tasks EXCEPT ![n] = "relocking"]
    /\ UNCHANGED <<shutdownRequested, applicationClosed, mut, shutdownTask,
                   awaits, outcome>>

(* The end of the wait and of the task. A task is woken after the          *)
(* application has closed only; another wake-up would find it waiting on.  *)
TaskEnds(n) ==
    /\ tasks[n] = "relocking" /\ mut = "free"
    /\ IF applicationClosed
       THEN tasks' = [tasks EXCEPT ![n] = "done"] /\ UNCHANGED outcome
       ELSE outcome' = "killed" /\ UNCHANGED tasks
    /\ UNCHANGED <<shutdownRequested, applicationClosed, mut, shutdownTask, awaits>>

-----------------------------------------------------------------------------
(* What main does with it.                                                 *)

TakeMut ==
    /\ mut = "free"
    /\ mut' = "main"
    /\ UNCHANGED <<shutdownRequested, applicationClosed, tasks, shutdownTask,
                   awaits, outcome>>

ReleaseMut ==
    /\ mut' = "free"
    /\ UNCHANGED <<shutdownRequested, applicationClosed, tasks, shutdownTask,
                   awaits, outcome>>

SetApplicationClosed ==
    /\ applicationClosed' = TRUE
    /\ mut' = "free"
    /\ UNCHANGED <<shutdownRequested, tasks, shutdownTask, awaits, outcome>>

(* notify_one of notifyOnAppHasClosed: one of the tasks that wait, if any. *)
NotifyOneTask ==
    /\ LET waiting == {n \in Signals : tasks[n] = "waiting"}
       IN  IF waiting = {} THEN UNCHANGED tasks
           ELSE \E n \in waiting : tasks' = [tasks EXCEPT ![n] = "relocking"]
    /\ UNCHANGED <<shutdownRequested, applicationClosed, mut, shutdownTask,
                   awaits, outcome>>

(* The destructor waits for the task that is stored, not for the others.   *)
StoredTaskIsOver == shutdownTask \in Signals => Over(shutdownTask)

(* A task that is not over then uses a ShutdownState that is no more.      *)
ProcessEnds ==
    /\ outcome' \in {"exited"} \cup
           (IF \E n \in Signals : tasks[n] \notin {"none", "done"}
            THEN {"crashed"} ELSE {})
    /\ UNCHANGED <<shutdownRequested, applicationClosed, mut, tasks,
                   shutdownTask, awaits>>

(* A signal that comes when the pointer to the ShutdownState is null.      *)
NullIsDereferenced ==
    /\ outcome' = "crashed"
    /\ UNCHANGED <<shutdownRequested, applicationClosed, mut, tasks,
                   shutdownTask, awaits>>

(* An assertion that fails.                                                *)
Terminate ==
    /\ outcome' = "crashed"
    /\ UNCHANGED <<shutdownRequested, applicationClosed, mut, tasks,
                   shutdownTask, awaits>>

(* A signal that comes before there is a handler.                          *)
DefaultAction ==
    /\ outcome' = "killed"
    /\ UNCHANGED <<shutdownRequested, applicationClosed, mut, tasks,
                   shutdownTask, awaits>>

(* The handler that runs on main waits for a task that waits for main.     *)
HandlerBlocksTask ==
    /\ mut = "main"
    /\ \E n \in awaits["main"] : ~Over(n)
=============================================================================
