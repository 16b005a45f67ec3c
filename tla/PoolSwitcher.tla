---------------------------- MODULE PoolSwitcher ----------------------------
(***************************************************************************)
(* PoolSwitcher (pool/PoolSwitcher.cpp) with the pools it switches between *)
(* (pool/Pool.cpp): the thread that checks the pools and chooses the       *)
(* active one, the I/O thread of each pool, the GPU threads that ask for   *)
(* work, and the application that adds the pools and shuts everything down.*)
(*                                                                         *)
(* The flags of a pool are atomics and `onStateChange` is notified without *)
(* the mutex its waiters use, so every access and every notify is a step   *)
(* of its own unless nobody else could tell. The pools of one switcher all *)
(* have the same kind of queue, LazyWorkQueue or WorkQueue with its refill *)
(* thread. Of either the model keeps whether it holds its newest job and   *)
(* which job's works it hands out. It does not count the works in the      *)
(* buffer of a WorkQueue, and a work expires by the id of its job only:    *)
(* the job may also have been destroyed, which expires more works, never   *)
(* fewer. Time passes in ticks of checkInterval; checks are assumed to     *)
(* take less than a tick.                                                  *)
(***************************************************************************)
EXTENDS Integers, FiniteSets

CONSTANTS
    NumPools,   \* pools of the configuration, in the order of priority
    Gpus,       \* GPU threads
    DeadAfter,  \* durUntilDeclaredDead in ticks: 3 in the code
    MaxJobs,    \* bound on the number of jobs each pool sends
    Queues,     \* the kinds of queue the pools may have
    Rejecting,  \* pools whose server refuses the login
    Breaking,   \* pools whose connection may break: all of them but for a bound
    Closes      \* whether the user may close the application: TRUE but for a bound

Pools == 1 .. NumPools

ASSUME PoolSwitcherAssumption ==
    /\ NumPools \in Nat
    /\ DeadAfter \in Nat
    /\ MaxJobs \in [Pools -> Nat]
    /\ Queues \subseteq {"lazy", "buffered"}
    /\ Rejecting \subseteq Pools
    /\ Breaking \subseteq Pools
    /\ Closes \in BOOLEAN

VARIABLES
    (* The pools. *)
    stage,      \* "absent", "made" (by the registry), "cv" (can notify), "listed"
    link,       \* whether there is a TCP connection, per pool
    trying,     \* whether the client reconnects by itself, per pool
    connected,  \* _connected
    disabled,   \* _disabled
    isDead,     \* _isDead
    age,        \* ticks since onStillAlive, up to DeadAfter + 1
    ioPc,       \* the I/O thread of the pool
    (* Their queues. A job is known by its number.                         *)
    queue,      \* "lazy" or "buffered": LazyWorkQueue or WorkQueue
    newest,     \* number of jobs pushed to the pool's queue
    hasJob,     \* whether jobQueue is not empty; its front is the newest job
    offered,    \* the job whose works are handed out, 0 before the first
    fresh,      \* whether latestJobId is the id of that job
    filled,     \* whether the buffer was filled and has not been cleaned since
    making,     \* new job the refill thread makes works of, 0 if none
    (* The switcher. *)
    active,        \* active_pool, NoPool if there is none
    pools_changed,
    shutdown,
    alivePc,       \* the alive-check thread
    info,          \* poolInfos: what the check has read of each pool
    idx,           \* the pool a loop of the check is at
    prev_pool,     \* the active pool at the beginning of the iteration
    was_active,
    kills,         \* calls of onDeclaredDead still to be made for pool idx
    elapsed,       \* whether a tick has passed since the wait began
    (* The threads that use the switcher. *)
    gpuPc,
    target,     \* the copy of the active pool a GPU thread uses
    work,       \* the work a GPU thread has
    appPc

(* History, read by the properties only.                                   *)
VARIABLES
    floor       \* job the pool's queue offered when the pool was last given up

linkVars   == <<link, trying>>
flagVars   == <<connected, disabled>>
queueVars  == <<queue, newest, hasJob, offered, fresh, filled, making>>
poolVars   == <<stage, linkVars, flagVars, isDead, age, queueVars, ioPc>>
checkVars  == <<info, idx, prev_pool, was_active, kills>>
aliveVars  == <<active, alivePc, checkVars, elapsed, floor>>
gpuVars    == <<gpuPc, target, work>>
appVars    == <<pools_changed, shutdown, appPc>>
vars       == <<poolVars, aliveVars, gpuVars, appVars>>

NoPool == 0
NoWork == [pool |-> NoPool, id |-> 0]
Unread == [dead |-> TRUE, disabled |-> FALSE, connected |-> FALSE]

Init ==
    /\ stage = [p \in Pools |-> "absent"]
    /\ link = [p \in Pools |-> FALSE]
    /\ trying = [p \in Pools |-> FALSE]
    /\ connected = [p \in Pools |-> FALSE]
    /\ disabled = [p \in Pools |-> FALSE]
    /\ isDead = [p \in Pools |-> TRUE]
    /\ age = [p \in Pools |-> DeadAfter + 1]
    /\ queue \in Queues
    /\ newest = [p \in Pools |-> 0]
    /\ hasJob = [p \in Pools |-> FALSE]
    /\ offered = [p \in Pools |-> 0]
    /\ fresh = [p \in Pools |-> FALSE]
    /\ filled = [p \in Pools |-> FALSE]
    /\ making = [p \in Pools |-> 0]
    /\ ioPc = [p \in Pools |-> "idle"]
    /\ active = NoPool
    /\ pools_changed = FALSE
    /\ shutdown = FALSE
    /\ alivePc = "top"
    /\ info = [p \in Pools |-> Unread]
    /\ idx = 1
    /\ prev_pool = NoPool
    /\ was_active = FALSE
    /\ kills = 0
    /\ elapsed = FALSE
    /\ gpuPc = [g \in Gpus |-> "idle"]
    /\ target = [g \in Gpus |-> NoPool]
    /\ work = [g \in Gpus |-> NoWork]
    /\ appPc = "add"
    /\ floor = [p \in Pools |-> 0]

Listed == {p \in Pools : stage[p] = "listed"}
Usable(p) == connected[p] /\ ~disabled[p]
SilentTooLate(p) == age[p] > DeadAfter + 1
Silent(p) == age[p] > DeadAfter

(* A thread is inside a critical section of `mut`.                         *)
MutexFree ==
    /\ alivePc \notin {"entering", "reset"}
    /\ \A g \in Gpus : gpuPc[g] # "entering"

(* onStateChange->notify_all()                                             *)
NotifyAll ==
    /\ gpuPc' = [g \in Gpus |-> IF gpuPc[g] = "asleep" THEN "nopool" ELSE gpuPc[g]]
    /\ alivePc' = IF alivePc = "asleep" THEN "woken" ELSE alivePc

(* A pool notifies only after setOnStateChangeCv.                          *)
CanNotify(p) == stage[p] \in {"cv", "listed"}

-----------------------------------------------------------------------------
(* Network and I/O thread of a pool.                                       *)

(* The client connects; launchClientAutoReconnect does not look at the     *)
(* disabled flag.                                                          *)
Connect(p) ==
    /\ trying[p] /\ ~link[p]
    /\ ioPc[p] = "idle"
    /\ link' = [link EXCEPT ![p] = TRUE]
    /\ UNCHANGED <<stage, trying, flagVars, isDead, age, queueVars, ioPc,
                   aliveVars, gpuVars, appVars>>

(* A message that is not a job: onStillAlive.                              *)
onStillAlive(p) ==
    /\ link[p]
    /\ ioPc[p] = "idle"
    /\ age' = [age EXCEPT ![p] = 0]
    /\ UNCHANGED <<stage, linkVars, flagVars, isDead, queueVars, ioPc,
                   aliveVars, gpuVars, appVars>>

(* The server refuses the login: setDisabled(true).                        *)
LoginRejected(p) ==
    /\ p \in Rejecting
    /\ link[p] /\ ~disabled[p]
    /\ ioPc[p] = "idle"
    /\ age' = [age EXCEPT ![p] = 0]
    /\ disabled' = [disabled EXCEPT ![p] = TRUE]
    /\ ioPc' = [ioPc EXCEPT ![p] = IF CanNotify(p) THEN "notify" ELSE "idle"]
    /\ UNCHANGED <<stage, linkVars, connected, isDead, queueVars,
                   aliveVars, gpuVars, appVars>>

(* A job arrives. setConnected(true) does nothing if the pool is connected *)
(* already or has no onStateChange; else it first clears the old jobs.     *)
SetsConnected(p) == ~connected[p] /\ CanNotify(p)

KeepsJobs(p) == ~SetsConnected(p)

JobArrives(p) ==
    /\ link[p]
    /\ ioPc[p] = "idle"
    /\ newest[p] < MaxJobs[p]
    /\ age' = [age EXCEPT ![p] = 0]
    /\ hasJob' = [hasJob EXCEPT ![p] = hasJob[p] /\ KeepsJobs(p)]
    /\ ioPc' = [ioPc EXCEPT ![p] = IF SetsConnected(p) THEN "connect" ELSE "push"]
    /\ UNCHANGED <<stage, linkVars, flagVars, isDead, queue, newest, offered, fresh,
                   filled, making, aliveVars, gpuVars, appVars>>

SetConnected(p) ==
    /\ ioPc[p] = "connect"
    /\ connected' = [connected EXCEPT ![p] = TRUE]
    /\ ioPc' = [ioPc EXCEPT ![p] = "announce"]
    /\ UNCHANGED <<stage, linkVars, disabled, isDead, age, queueVars,
                   aliveVars, gpuVars, appVars>>

(* A LazyWorkQueue hands out works of the new job at once, a WorkQueue     *)
(* goes on with what its buffer has, unless the push cleans it.            *)
LazyPush(p) ==
    /\ offered' = [offered EXCEPT ![p] = newest[p] + 1]
    /\ fresh' = [fresh EXCEPT ![p] = TRUE]
    /\ UNCHANGED filled

BufferedPush(p) ==
    /\ \E cleanFlag \in BOOLEAN :
          filled' = [filled EXCEPT ![p] = filled[p] /\ ~cleanFlag]
    /\ UNCHANGED <<offered, fresh>>

(* The notify at the end of setConnected, then pushJob. Only GPU threads    *)
(* could tell the two apart, as a pool that has no work yet.               *)
PushJob(p) ==
    /\ ioPc[p] \in {"announce", "push"}
    /\ IF ioPc[p] = "announce" THEN NotifyAll ELSE UNCHANGED <<gpuPc, alivePc>>
    /\ newest' = [newest EXCEPT ![p] = newest[p] + 1]
    /\ hasJob' = [hasJob EXCEPT ![p] = TRUE]
    /\ IF queue = "lazy" THEN LazyPush(p) ELSE BufferedPush(p)
    /\ ioPc' = [ioPc EXCEPT ![p] = "idle"]
    /\ UNCHANGED <<stage, linkVars, flagVars, isDead, age, queue, making, active,
                   checkVars, elapsed, floor, target, work, appVars>>

(* The refill thread of a WorkQueue copies the newest job and unlocks the  *)
(* queue while it makes works. That it also does so when the job is not    *)
(* new and the buffer has become short changes nothing that is modelled.   *)
RefillBegin(p) ==
    /\ queue = "buffered"
    /\ making[p] = 0
    /\ hasJob[p] /\ newest[p] # offered[p]
    /\ making' = [making EXCEPT ![p] = newest[p]]
    /\ UNCHANGED <<stage, linkVars, flagVars, isDead, age, ioPc, queue, newest, hasJob,
                   offered, fresh, filled, aliveVars, gpuVars, appVars>>

(* It keeps the works if the job is the newest one still, and makes it the *)
(* latest one, whatever expireJobs did meanwhile.                          *)
StillLatest(p) == hasJob[p] /\ making[p] = newest[p]

RefillStore(p) ==
    /\ making[p] # 0
    /\ IF StillLatest(p)
       THEN /\ offered' = [offered EXCEPT ![p] = making[p]]
            /\ fresh' = [fresh EXCEPT ![p] = TRUE]
            /\ filled' = [filled EXCEPT ![p] = TRUE]
       ELSE UNCHANGED <<offered, fresh, filled>>
    /\ making' = [making EXCEPT ![p] = 0]
    /\ UNCHANGED <<stage, linkVars, flagVars, isDead, age, ioPc, queue, newest, hasJob,
                   aliveVars, gpuVars, appVars>>

(* The connection breaks: setConnected(false) and, later, a new attempt.   *)
Disconnect(p) ==
    /\ p \in Breaking
    /\ link[p]
    /\ ioPc[p] = "idle"
    /\ link' = [link EXCEPT ![p] = FALSE]
    /\ connected' = [connected EXCEPT ![p] = connected[p] /\ ~CanNotify(p)]
    /\ ioPc' = [ioPc EXCEPT ![p] = IF connected[p] /\ CanNotify(p) THEN "notify"
                                                                  ELSE "idle"]
    /\ UNCHANGED <<stage, trying, disabled, isDead, age, queueVars,
                   aliveVars, gpuVars, appVars>>

(* The notify at the end of setConnected(false) and setDisabled.           *)
NotifyChange(p) ==
    /\ ioPc[p] = "notify"
    /\ NotifyAll
    /\ ioPc' = [ioPc EXCEPT ![p] = "idle"]
    /\ UNCHANGED <<stage, linkVars, flagVars, isDead, age, queueVars,
                   active, checkVars, elapsed, floor, target, work, appVars>>

-----------------------------------------------------------------------------
(* The alive-check thread: one iteration of periodicAliveCheck.            *)

Top ==
    /\ alivePc = "top"
    /\ alivePc' = IF shutdown THEN "ended" ELSE "read"
    /\ was_active' = (active # NoPool /\ Usable(active))
    /\ prev_pool' = active
    /\ UNCHANGED <<poolVars, active, info, idx, kills, elapsed, floor, gpuVars,
                   appVars>>

(* The readLock on _pools is held from the first read to the last kill.    *)
ReadLocked ==
    \/ alivePc = "read" /\ idx > 1
    \/ alivePc \in {"readDisabled", "readConnected", "decide", "expire", "bury", "kill"}

(* The last sign of life, _disabled and _connected of pool idx are read    *)
(* one after the other.                                                    *)
ReadAlive ==
    /\ alivePc = "read"
    /\ idx \in Listed
    /\ info' = [info EXCEPT ![idx].dead = Silent(idx)]
    /\ alivePc' = "readDisabled"
    /\ UNCHANGED <<poolVars, active, idx, prev_pool, was_active, kills,
                   elapsed, floor, gpuVars, appVars>>

ReadDisabled ==
    /\ alivePc = "readDisabled"
    /\ info' = [info EXCEPT ![idx].disabled = disabled[idx]]
    /\ alivePc' = "readConnected"
    /\ UNCHANGED <<poolVars, active, idx, prev_pool, was_active, kills,
                   elapsed, floor, gpuVars, appVars>>

ReadConnected ==
    /\ alivePc = "readConnected"
    /\ info' = [info EXCEPT ![idx].connected = connected[idx]]
    /\ IF idx + 1 \in Listed THEN idx' = idx + 1 /\ alivePc' = "read"
                             ELSE idx' = 1 /\ alivePc' = "decide"
    /\ UNCHANGED <<poolVars, active, prev_pool, was_active, kills,
                   elapsed, floor, gpuVars, appVars>>

NoPools ==
    /\ alivePc = "read"
    /\ Listed = {}
    /\ alivePc' = "notify"
    /\ UNCHANGED <<poolVars, active, checkVars, elapsed, floor, gpuVars, appVars>>

(* The first pool of the list that qualifies, else the old one.            *)
Qualifies(p) == info[p].connected /\ ~info[p].dead /\ ~info[p].disabled

IsFirst(p) == p \in Listed /\ Qualifies(p) /\ \A q \in Listed : q < p => ~Qualifies(q)

StaysIfUsable(p) ==
    IF prev_pool # NoPool /\ Qualifies(prev_pool) THEN p = prev_pool
    ELSE IF \E q \in Listed : Qualifies(q) THEN IsFirst(p)
    ELSE p = prev_pool

Chooses(p) == IF \E q \in Listed : Qualifies(q) THEN IsFirst(p) ELSE p = prev_pool

Decide ==
    /\ alivePc = "decide"
    /\ \E p \in Pools \cup {NoPool} :
          /\ Chooses(p)
          /\ active' = p
          /\ IF prev_pool \in {NoPool, p}
             THEN alivePc' = "bury" /\ UNCHANGED floor
             ELSE /\ alivePc' = "expire"
                  /\ floor' = [floor EXCEPT ![prev_pool] = offered[prev_pool]]
    /\ UNCHANGED <<poolVars, checkVars, elapsed, gpuVars, appVars>>

NothingExpires(p) == fresh[p]
FreshAfterExpiry(p) == FALSE

(* prev_pool->expireJobs() makes latestJobId the id of no job handed out.  *)
ExpirePrevious ==
    /\ alivePc = "expire"
    /\ fresh' = [fresh EXCEPT ![prev_pool] = FreshAfterExpiry(prev_pool)]
    /\ alivePc' = "bury"
    /\ UNCHANGED <<stage, linkVars, flagVars, isDead, age, ioPc, queue, newest, hasJob,
                   offered, filled, making, active, checkVars, elapsed, floor, gpuVars,
                   appVars>>

(* setDead(now_dead) for pool idx, and how often it makes the switcher     *)
(* call onDeclaredDead: once if the pool just died, once if it is disabled.*)
(* What was read of the pool is not needed after that.                     *)
StaysDead(p) == isDead[p] \/ info[p].dead
NowDead(p) == info[p].dead

KillsIfDead(p) == IF info[p].dead /\ ~isDead[p] THEN 1 ELSE 0

KillsFor(p) ==
    (IF info[p].dead /\ ~isDead[p] THEN 1 ELSE 0) +
    (IF info[p].disabled /\ info[p].connected THEN 1 ELSE 0)

NextPool ==
    IF idx + 1 \in Listed THEN idx' = idx + 1 /\ alivePc' = "bury"
                          ELSE idx' = 1 /\ alivePc' = "notify"

Bury ==
    /\ alivePc = "bury"
    /\ isDead' = [isDead EXCEPT ![idx] = NowDead(idx)]
    /\ kills' = KillsFor(idx)
    /\ info' = [info EXCEPT ![idx] = Unread]
    /\ IF KillsFor(idx) > 0 THEN alivePc' = "kill" /\ UNCHANGED idx ELSE NextPool
    /\ UNCHANGED <<stage, linkVars, flagVars, age, queueVars, ioPc, active,
                   prev_pool, was_active, elapsed, floor, gpuVars, appVars>>

(* onDeclaredDead of the pool: disconnectAll joins the I/O thread, then    *)
(* tryConnect clears the connected flag and connects again if it may.      *)
onDeclaredDead ==
    /\ alivePc = "kill"
    /\ ioPc[idx] = "idle"
    /\ link' = [link EXCEPT ![idx] = FALSE]
    /\ trying' = [trying EXCEPT ![idx] = ~disabled[idx]]
    /\ connected' = [connected EXCEPT ![idx] = FALSE]
    /\ gpuPc' = [g \in Gpus |-> IF gpuPc[g] = "asleep" /\ connected[idx]
                                THEN "nopool" ELSE gpuPc[g]]
    /\ kills' = kills - 1
    /\ IF kills > 1 THEN UNCHANGED <<alivePc, idx>> ELSE NextPool
    /\ UNCHANGED <<stage, disabled, isDead, age, queueVars, ioPc, active,
                   info, prev_pool, was_active, elapsed, floor, target,
                   work, appVars>>

NotifyNobody == UNCHANGED gpuPc

NotifyWaiting ==
    gpuPc' = [g \in Gpus |-> IF gpuPc[g] = "asleep" THEN "nopool" ELSE gpuPc[g]]

CheckDone ==
    /\ alivePc = "notify"
    /\ was_active' = (was_active \/ prev_pool # active)
    /\ NotifyWaiting
    /\ alivePc' = "wait"
    /\ prev_pool' = NoPool
    /\ UNCHANGED <<poolVars, active, info, idx, kills, elapsed, floor, target, work,
                   appVars>>

(* The predicate of the wait.                                              *)
WakesUp ==
    \/ shutdown
    \/ IF was_active /\ active # NoPool /\ ~pools_changed
       THEN ~Usable(active)
       ELSE \E p \in Listed : Usable(p)

(* Evaluated under the lock, before sleeping and after every notify.       *)
Evaluate ==
    /\ alivePc \in {"wait", "woken"}
    /\ MutexFree
    /\ alivePc' = IF WakesUp THEN "reset" ELSE "entering"
    /\ UNCHANGED <<poolVars, active, checkVars, elapsed, floor, gpuVars, appVars>>

FallAsleep ==
    /\ alivePc = "entering"
    /\ alivePc' = "asleep"
    /\ UNCHANGED <<poolVars, active, checkVars, elapsed, floor, gpuVars, appVars>>

TimeOut ==
    /\ alivePc = "asleep"
    /\ elapsed
    /\ MutexFree
    /\ alivePc' = "reset"
    /\ UNCHANGED <<poolVars, active, checkVars, elapsed, floor, gpuVars, appVars>>

ChangesSeen == FALSE

ResetPoolsChanged ==
    /\ alivePc = "reset"
    /\ pools_changed' = ChangesSeen
    /\ was_active' = FALSE
    /\ elapsed' = FALSE
    /\ alivePc' = "top"
    /\ UNCHANGED <<poolVars, active, info, idx, prev_pool, kills, floor, gpuVars,
                   shutdown, appPc>>

(* A checkInterval passes. Handlers and tryAddPool take much less.         *)
Tick ==
    /\ alivePc = "asleep"
    /\ ~elapsed
    /\ \A p \in Pools : ioPc[p] = "idle"
    /\ appPc \notin {"add", "notify"}
    /\ elapsed' = TRUE
    /\ age' = [p \in Pools |-> IF Silent(p) THEN age[p] ELSE age[p] + 1]
    /\ UNCHANGED <<stage, linkVars, flagVars, isDead, queueVars, ioPc, active,
                   alivePc, checkVars, floor, gpuVars, appVars>>

-----------------------------------------------------------------------------
(* GPU threads: tryGetWorkImpl.                                            *)

CopyActive(g) ==
    /\ gpuPc[g] = "idle"
    /\ appPc = "running"
    /\ target' = [target EXCEPT ![g] = active]
    /\ work' = [work EXCEPT ![g] = NoWork]
    /\ gpuPc' = [gpuPc EXCEPT ![g] = IF active = NoPool THEN "nopool" ELSE "fetch"]
    /\ UNCHANGED <<poolVars, aliveVars, appVars>>

(* pool->tryGetWorkImpl() of the copy: a LazyWorkQueue makes a work of the *)
(* newest job if it has one, a WorkQueue takes one from its buffer or      *)
(* returns nullptr after 100 ms.                                           *)
MayHandOut(p) == IF queue = "lazy" THEN hasJob[p] ELSE filled[p]
MayHaveNone(p) == queue = "lazy" => ~hasJob[p]

Fetch(g) ==
    /\ gpuPc[g] = "fetch"
    /\ \E w \in {NoWork, [pool |-> target[g], id |-> offered[target[g]]]} :
          /\ IF w = NoWork THEN MayHaveNone(target[g]) ELSE MayHandOut(target[g])
          /\ work' = [work EXCEPT ![g] = w]
    /\ target' = [target EXCEPT ![g] = NoPool]
    /\ gpuPc' = [gpuPc EXCEPT ![g] = "idle"]
    /\ UNCHANGED <<poolVars, aliveVars, appVars>>

(* The predicate of the wait without a timeout.                            *)
ReturnsAtShutdown == shutdown
MayReturn == shutdown \/ active # NoPool

CheckPredicate(g) ==
    /\ gpuPc[g] = "nopool"
    /\ MutexFree
    /\ gpuPc' = [gpuPc EXCEPT ![g] = IF MayReturn THEN "idle" ELSE "entering"]
    /\ UNCHANGED <<poolVars, aliveVars, target, work, appVars>>

Wait(g) ==
    /\ gpuPc[g] = "entering"
    /\ gpuPc' = [gpuPc EXCEPT ![g] = "asleep"]
    /\ UNCHANGED <<poolVars, aliveVars, target, work, appVars>>

(* The algorithm's loop sees that it has to end.                           *)
EndGpu(g) ==
    /\ gpuPc[g] = "idle"
    /\ appPc = "joining"
    /\ gpuPc' = [gpuPc EXCEPT ![g] = "ended"]
    /\ work' = [work EXCEPT ![g] = NoWork]
    /\ UNCHANGED <<poolVars, aliveVars, target, appVars>>

-----------------------------------------------------------------------------
(* The application: tryAddPool for each pool, then the destructors.        *)

NextToAdd == {p \in Pools : stage[p] # "listed" /\ \A q \in 1 .. p - 1 : stage[q] = "listed"}

(* registry.makePool: the pool's constructor starts to connect.            *)
MakePool(p) ==
    /\ appPc = "add"
    /\ p \in NextToAdd /\ stage[p] = "absent"
    /\ stage' = [stage EXCEPT ![p] = "made"]
    /\ trying' = [trying EXCEPT ![p] = TRUE]
    /\ UNCHANGED <<link, flagVars, isDead, age, queueVars, ioPc,
                   aliveVars, gpuVars, appVars>>

setOnStateChangeCv(p) ==
    /\ appPc = "add"
    /\ p \in NextToAdd /\ stage[p] = "made"
    /\ stage' = [stage EXCEPT ![p] = "cv"]
    /\ UNCHANGED <<linkVars, flagVars, isDead, age, queueVars, ioPc,
                   aliveVars, gpuVars, appVars>>

(* _pools.lock()->emplace_back, then notifyOnPoolsChange.                  *)
ListPool(p) ==
    /\ appPc = "add"
    /\ p \in NextToAdd /\ stage[p] = "cv"
    /\ ~ReadLocked
    /\ stage' = [stage EXCEPT ![p] = "listed"]
    /\ pools_changed' = TRUE
    /\ appPc' = "notify"
    /\ UNCHANGED <<linkVars, flagVars, isDead, age, queueVars, ioPc,
                   aliveVars, gpuVars, shutdown>>

NotifyPoolsChange ==
    /\ appPc = "notify"
    /\ NotifyAll
    /\ appPc' = IF Listed = Pools THEN "running" ELSE "add"
    /\ UNCHANGED <<poolVars, active, checkVars, elapsed, floor, target, work,
                   pools_changed, shutdown>>

(* The application is destroyed: the algorithms are told to end ...        *)
Close ==
    /\ Closes
    /\ appPc = "running"
    /\ appPc' = "joining"
    /\ UNCHANGED <<poolVars, aliveVars, gpuVars, pools_changed, shutdown>>

(* ... and once their threads have been joined, ~PoolSwitcher runs.        *)
Destroy ==
    /\ appPc = "joining"
    /\ \A g \in Gpus : gpuPc[g] = "ended"
    /\ MutexFree
    /\ shutdown' = TRUE
    /\ appPc' = "closing"
    /\ UNCHANGED <<poolVars, aliveVars, gpuVars, pools_changed>>

NotifyShutdown ==
    /\ appPc = "closing"
    /\ NotifyAll
    /\ appPc' = "waiting"
    /\ UNCHANGED <<poolVars, active, checkVars, elapsed, floor, target, work,
                   pools_changed, shutdown>>

Closed ==
    /\ appPc = "waiting"
    /\ alivePc = "ended"
    /\ appPc' = "closed"
    /\ UNCHANGED <<poolVars, aliveVars, gpuVars, pools_changed, shutdown>>

-----------------------------------------------------------------------------
Network(p) == Connect(p) \/ onStillAlive(p) \/ LoginRejected(p) \/ JobArrives(p) \/ Disconnect(p)
Io(p) == SetConnected(p) \/ PushJob(p) \/ NotifyChange(p)
Refill(p) == RefillBegin(p) \/ RefillStore(p)
Check == Top \/ ReadAlive \/ ReadDisabled \/ ReadConnected \/ NoPools \/ Decide \/ ExpirePrevious \/ Bury
            \/ onDeclaredDead \/ CheckDone \/ FallAsleep \/ ResetPoolsChanged
Lock == Evaluate \/ TimeOut
Gpu(g) == Fetch(g) \/ CheckPredicate(g) \/ Wait(g) \/ EndGpu(g)
AddPool(p) == MakePool(p) \/ setOnStateChangeCv(p) \/ ListPool(p)
App == NotifyPoolsChange \/ Destroy \/ NotifyShutdown \/ Closed

Next ==
    \/ \E p \in Pools : Network(p) \/ Io(p) \/ Refill(p) \/ AddPool(p)
    \/ Check \/ Lock \/ Tick
    \/ \E g \in Gpus : CopyActive(g) \/ Gpu(g)
    \/ App \/ Close

(* Threads run, a mutex is not kept from a thread for ever, and time       *)
(* passes. Nothing is assumed of the network, of the refill threads, of    *)
(* the GPU threads' demand for work or of the user closing the application.*)
Fairness ==
    /\ \A p \in Pools : WF_vars(Io(p)) /\ SF_vars(AddPool(p))
    /\ WF_vars(Check) /\ SF_vars(Lock) /\ WF_vars(Tick)
    /\ \A g \in Gpus : SF_vars(Gpu(g))
    /\ SF_vars(App)

Spec == Init /\ [][Next]_vars
FairSpec == Spec /\ Fairness

-----------------------------------------------------------------------------
(* Properties.                                                             *)

TypeOK ==
    /\ stage \in [Pools -> {"absent", "made", "cv", "listed"}]
    /\ link \in [Pools -> BOOLEAN]
    /\ trying \in [Pools -> BOOLEAN]
    /\ connected \in [Pools -> BOOLEAN]
    /\ disabled \in [Pools -> BOOLEAN]
    /\ isDead \in [Pools -> BOOLEAN]
    /\ age \in [Pools -> 0 .. DeadAfter + 1]
    /\ newest \in [Pools -> Nat] /\ \A p \in Pools : newest[p] <= MaxJobs[p]
    /\ queue \in {"lazy", "buffered"}
    /\ hasJob \in [Pools -> BOOLEAN]
    /\ offered \in [Pools -> Nat]
    /\ fresh \in [Pools -> BOOLEAN]
    /\ filled \in [Pools -> BOOLEAN]
    /\ making \in [Pools -> Nat]
    /\ ioPc \in [Pools -> {"idle", "connect", "announce", "push", "notify"}]
    /\ active \in Pools \cup {NoPool}
    /\ pools_changed \in BOOLEAN
    /\ shutdown \in BOOLEAN
    /\ alivePc \in {"top", "read", "readDisabled", "readConnected", "decide",
                    "expire", "bury", "kill", "notify", "wait", "woken", "entering",
                    "asleep", "reset", "ended"}
    /\ info \in [Pools -> [dead : BOOLEAN, disabled : BOOLEAN, connected : BOOLEAN]]
    /\ idx \in 1 .. NumPools + 1
    /\ prev_pool \in Pools \cup {NoPool}
    /\ was_active \in BOOLEAN
    /\ kills \in 0 .. 2
    /\ elapsed \in BOOLEAN
    /\ gpuPc \in [Gpus -> {"idle", "fetch", "nopool", "entering", "asleep", "ended"}]
    /\ target \in [Gpus -> Pools \cup {NoPool}]
    /\ work \in [Gpus -> [pool : Pools \cup {NoPool}, id : Nat]]
    /\ appPc \in {"add", "notify", "running", "joining", "closing",
                  "waiting", "closed"}
    /\ floor \in [Pools -> Nat]

Expired(w) == w.id # offered[w.pool] \/ ~fresh[w.pool]

(* Once a switch is complete, every work a GPU holds of the pool that was  *)
(* given up has expired, unless it is of a job the pool's queue came to    *)
(* hand out after that, also if the work was fetched through a copy of the *)
(* active pool made earlier, and also if the pool is the active one again. *)
GpusLeaveOldPool ==
    alivePc # "expire" =>
        \A g \in Gpus : work[g] # NoWork =>
            Expired(work[g]) \/ work[g].id > floor[work[g].pool]

(* The strengthening that makes GpusLeaveOldPool inductive: but for the    *)
(* pool about to be expired, a pool that was ever given up has a latest    *)
(* job only if its queue has offered another one since. That rests on      *)
(* offered jobs never becoming older, in either kind of queue.             *)
ThreadInv ==
    /\ alivePc \in {"read", "readDisabled", "readConnected", "decide"} => prev_pool = active
    /\ alivePc \in {"readDisabled", "readConnected"} => idx \in Pools
    /\ alivePc = "expire" => prev_pool \in Pools /\ prev_pool # active
    /\ alivePc = "kill" => kills > 0
    /\ \A p \in Pools : ioPc[p] \in {"connect", "announce", "push"} => newest[p] < MaxJobs[p]
    /\ \A g \in Gpus : gpuPc[g] = "fetch" => target[g] \in Pools
    /\ \A g \in Gpus : work[g] # NoWork => work[g].pool \in Pools

QueueInv ==
    \A p \in Pools :
        /\ offered[p] <= newest[p]
        /\ making[p] # 0 => offered[p] < making[p] /\ making[p] <= newest[p]
        /\ hasJob[p] => newest[p] > 0
        /\ filled[p] => offered[p] > 0
        /\ queue = "lazy" => offered[p] = newest[p] /\ making[p] = 0

AboutToExpire(p) == alivePc = "expire" /\ p = prev_pool

FloorInv ==
    \A p \in Pools :
        /\ floor[p] <= offered[p]
        /\ fresh[p] /\ ~AboutToExpire(p) => floor[p] < offered[p]

IInv == TypeOK /\ ThreadInv /\ QueueInv /\ FloorInv

(* Each pool is a source of works in the sense of WorkSource, whichever    *)
(* pools the switcher gives up and returns to: to the GPU threads it is    *)
(* what both queues of WorkQueue.h are to those who use them directly.     *)
WorkOf(g, p) == IF work[g].pool = p THEN work[g].id ELSE 0

Source(p) == INSTANCE WorkSource WITH
    offered <- offered[p], fresh <- fresh[p],
    work <- [g \in Gpus |-> WorkOf(g, p)]
PoolsAreSources ==
    /\ \A p \in Pools : Source(p)!Init
    /\ [][\A p \in Pools : [Source(p)!Next]_(Source(p)!vars)]_vars

(* The most important pool that stays usable becomes the active one.       *)
Good(p) == p \in Listed /\ Usable(p) /\ ~Silent(p)
BestPoolBecomesActive ==
    \A p \in Pools :
        <>[](Good(p) /\ \A q \in 1 .. p - 1 : ~Good(q)) => <>[](active = p \/ shutdown)

(* A GPU thread that waits for a pool is released once there is one, in    *)
(* spite of the notify that can be lost.                                   *)
GpuIsReleased ==
    \A g \in Gpus : (active # NoPool /\ gpuPc[g] = "asleep") ~> (gpuPc[g] # "asleep")

(* A silent pool does not keep its connection.                             *)
SilentPoolIsDisconnected ==
    \A p \in Pools :
        (p \in Listed /\ connected[p] /\ Silent(p)) ~> (~connected[p] \/ ~Silent(p) \/ shutdown)

(* A pool that refuses the login does not keep its connection.             *)
DisabledPoolIsDisconnected ==
    \A p \in Pools : (p \in Listed /\ connected[p] /\ disabled[p]) ~> (~connected[p] \/ shutdown)

(* The destructors end if there has ever been an active pool.              *)
CloseCompletes == (appPc = "joining" /\ active # NoPool) ~> (appPc = "closed")

-----------------------------------------------------------------------------
(* What comments of the repository say and the code does not do.           *)

(* Pool.h, tryGetWorkImpl: "After a short timeout period with still no     *)
(* work available, nullptr is returned".                                   *)
TryGetWorkReturns ==
    \A g \in Gpus : gpuPc[g] \in {"nopool", "fetch"} ~> gpuPc[g] = "idle"

=============================================================================
