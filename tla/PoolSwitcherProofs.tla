------------------------- MODULE PoolSwitcherProofs -------------------------
(***************************************************************************)
(* Proofs about PoolSwitcher, for any number of pools, GPU threads and     *)
(* jobs: the types, and that after a switch no GPU thread keeps a work of  *)
(* the pool that was given up.                                             *)
(***************************************************************************)
EXTENDS PoolSwitcher, TLAPS

USE PoolSwitcherAssumption DEF PoolSwitcherAssumption

AlivePcs == {"top", "read", "readDisabled", "readConnected", "decide",
             "expire", "bury", "kill", "notify", "wait", "woken", "entering",
             "asleep", "reset", "ended"}
USE DEF AlivePcs

Info == [dead : BOOLEAN, disabled : BOOLEAN, connected : BOOLEAN]

(* The groups of variables, for the leaves that only need what a step      *)
(* leaves alone.                                                           *)
USE DEF vars, poolVars, linkVars, flagVars, queueVars, checkVars, aliveVars,
        gpuVars, appVars

(* What a push does to either kind of queue.                               *)
USE DEF LazyPush, BufferedPush

LEMMA TypesInitially == Init => TypeOK
<1> SUFFICES ASSUME Init PROVE TypeOK
  OBVIOUS
<1>1. info \in [Pools -> [dead : BOOLEAN, disabled : BOOLEAN, connected : BOOLEAN]]
  BY DEF Init, Unread
<1>2. work \in [Gpus -> [pool : Pools \cup {NoPool}, id : Nat]]
  BY DEF Init, NoWork
<1>3. age \in [Pools -> 0 .. DeadAfter + 1]
  BY DEF Init
<1>4. newest \in [Pools -> Nat] /\ \A p \in Pools : newest[p] <= MaxJobs[p]
  BY DEF Init
<1>5. idx \in 1 .. NumPools + 1 /\ kills \in 0 .. 2
  BY DEF Init
<1> QED
  BY <1>1, <1>2, <1>3, <1>4, <1>5 DEF Init, TypeOK

LEMMA TypesNetwork ==
    ASSUME TypeOK, NEW p \in Pools, Network(p) PROVE TypeOK'
<1>1. CASE Connect(p)
  <2>1. link' \in [Pools -> BOOLEAN]
    BY <1>1 DEF TypeOK, Connect
  <2> QED
    BY <1>1, <2>1 DEF TypeOK, Connect
<1>2. CASE onStillAlive(p)
  <2>1. age' \in [Pools -> 0 .. DeadAfter + 1]
    BY <1>2, PoolSwitcherAssumption DEF TypeOK, onStillAlive
  <2> QED
    BY <1>2, <2>1 DEF TypeOK, onStillAlive
<1>3. CASE LoginRejected(p)
  <2>1. age' \in [Pools -> 0 .. DeadAfter + 1]
    BY <1>3, PoolSwitcherAssumption DEF TypeOK, LoginRejected
  <2>2. disabled' \in [Pools -> BOOLEAN]
    BY <1>3 DEF TypeOK, LoginRejected
  <2>3. ioPc' \in [Pools -> {"idle", "connect", "announce", "push", "notify"}]
    BY <1>3 DEF TypeOK, LoginRejected
  <2> QED
    BY <1>3, <2>1, <2>2, <2>3 DEF TypeOK, LoginRejected
<1>4. CASE JobArrives(p)
  <2>1. age' \in [Pools -> 0 .. DeadAfter + 1]
    BY <1>4 DEF TypeOK, JobArrives, Pools
  <2>2. hasJob' \in [Pools -> BOOLEAN]
    BY <1>4 DEF TypeOK, JobArrives, KeepsJobs, SetsConnected
  <2>3. ioPc' \in [Pools -> {"idle", "connect", "announce", "push", "notify"}]
    BY <1>4 DEF TypeOK, JobArrives
  <2> QED
    BY <1>4, <2>1, <2>2, <2>3 DEF TypeOK, JobArrives
<1>5. CASE Disconnect(p)
  <2>1. link' \in [Pools -> BOOLEAN]
    BY <1>5 DEF TypeOK, Disconnect
  <2>2. connected' \in [Pools -> BOOLEAN]
    BY <1>5 DEF TypeOK, Disconnect
  <2>3. ioPc' \in [Pools -> {"idle", "connect", "announce", "push", "notify"}]
    BY <1>5 DEF TypeOK, Disconnect
  <2> QED
    BY <1>5, <2>1, <2>2, <2>3 DEF TypeOK, Disconnect
<1> QED
  BY <1>1, <1>2, <1>3, <1>4, <1>5 DEF Network

LEMMA TypesIo ==
    ASSUME TypeOK, ThreadInv, NEW p \in Pools, Io(p) PROVE TypeOK'
<1>1. CASE SetConnected(p)
  <2>1. connected' \in [Pools -> BOOLEAN]
    BY <1>1 DEF TypeOK, SetConnected
  <2>2. ioPc' \in [Pools -> {"idle", "connect", "announce", "push", "notify"}]
    BY <1>1 DEF TypeOK, SetConnected
  <2> QED
    BY <1>1, <2>1, <2>2 DEF TypeOK, SetConnected
<1>2. CASE PushJob(p)
  <2>1. newest' \in [Pools -> Nat] /\ \A q \in Pools : newest'[q] <= MaxJobs[q]
    <3>1. newest[p] < MaxJobs[p]
      BY <1>2 DEF PushJob, ThreadInv
    <3>2. /\ newest \in [Pools -> Nat] /\ \A q \in Pools : newest[q] <= MaxJobs[q]
          /\ newest' = [newest EXCEPT ![p] = newest[p] + 1]
      BY <1>2 DEF TypeOK, PushJob
    <3>3. newest[p] + 1 \in Nat /\ newest[p] + 1 <= MaxJobs[p] /\ MaxJobs[p] \in Nat
      BY <3>1, <3>2
    <3> QED
      BY <3>2, <3>3
  <2>2. /\ hasJob' \in [Pools -> BOOLEAN] /\ filled' \in [Pools -> BOOLEAN]
        /\ offered' \in [Pools -> Nat] /\ fresh' \in [Pools -> BOOLEAN]
    <3>1. hasJob' \in [Pools -> BOOLEAN]
      BY <1>2 DEF TypeOK, PushJob
    <3>2. filled' \in [Pools -> BOOLEAN]
      BY <1>2 DEF TypeOK, PushJob
    <3>3. offered' \in [Pools -> Nat]
      <4>1. offered \in [Pools -> Nat] /\ newest[p] + 1 \in Nat
        BY DEF TypeOK
      <4> QED
        BY <1>2, <4>1 DEF PushJob
    <3>4. fresh' \in [Pools -> BOOLEAN]
      BY <1>2 DEF TypeOK, PushJob
    <3> QED
      BY <3>1, <3>2, <3>3, <3>4
  <2>3. ioPc' \in [Pools -> {"idle", "connect", "announce", "push", "notify"}]
    BY <1>2 DEF TypeOK, PushJob
  <2>4. gpuPc' \in [Gpus -> {"idle", "fetch", "nopool", "entering", "asleep", "ended"}]
    BY <1>2 DEF TypeOK, PushJob, NotifyAll
  <2>5. alivePc' \in AlivePcs
    BY <1>2 DEF TypeOK, PushJob, NotifyAll
  <2> QED
    BY <1>2, <2>1, <2>2, <2>3, <2>4, <2>5 DEF TypeOK, PushJob
<1>3. CASE NotifyChange(p)
  <2>1. /\ ioPc' \in [Pools -> {"idle", "connect", "announce", "push", "notify"}]
        /\ gpuPc' \in [Gpus -> {"idle", "fetch", "nopool", "entering", "asleep", "ended"}]
    BY <1>3 DEF TypeOK, NotifyChange, NotifyAll
  <2>2. alivePc' \in AlivePcs
    BY <1>3 DEF TypeOK, NotifyChange, NotifyAll
  <2> QED
    BY <1>3, <2>1, <2>2 DEF TypeOK, NotifyChange
<1> QED
  BY <1>1, <1>2, <1>3 DEF Io

LEMMA TypesRefill ==
    ASSUME TypeOK, NEW p \in Pools, Refill(p) PROVE TypeOK'
<1>1. CASE RefillBegin(p)
  <2>1. making' \in [Pools -> Nat]
    BY <1>1 DEF TypeOK, RefillBegin
  <2> QED
    BY <1>1, <2>1 DEF TypeOK, RefillBegin
<1>2. CASE RefillStore(p)
  <2>1. making' \in [Pools -> Nat]
    BY <1>2 DEF TypeOK, RefillStore
  <2>2. offered' \in [Pools -> Nat]
    <3>1. offered \in [Pools -> Nat] /\ making[p] \in Nat
      BY DEF TypeOK
    <3> QED
      BY <1>2, <3>1 DEF RefillStore
  <2>3. fresh' \in [Pools -> BOOLEAN] /\ filled' \in [Pools -> BOOLEAN]
    BY <1>2 DEF TypeOK, RefillStore
  <2> QED
    BY <1>2, <2>1, <2>2, <2>3 DEF TypeOK, RefillStore
<1> QED
  BY <1>1, <1>2 DEF Refill

(* What the check remembers of a pool, when one field of it is read.       *)
LEMMA InfoRead ==
    ASSUME info \in [Pools -> Info], NEW i, NEW b \in BOOLEAN
    PROVE  /\ [info EXCEPT ![i].dead = b] \in [Pools -> Info]
           /\ [info EXCEPT ![i].disabled = b] \in [Pools -> Info]
           /\ [info EXCEPT ![i].connected = b] \in [Pools -> Info]
<1>1. \A r \in Info : /\ [r EXCEPT !.dead = b] \in Info
                      /\ [r EXCEPT !.disabled = b] \in Info
                      /\ [r EXCEPT !.connected = b] \in Info
  BY DEF Info
<1>2. CASE i \in Pools
  <2>1. info[i] \in Info
    BY <1>2
  <2> QED
    BY <1>1, <2>1
<1>3. CASE i \notin Pools
  BY <1>3
<1> QED
  BY <1>2, <1>3

LEMMA TypesCheck ==
    ASSUME TypeOK, ThreadInv, Check PROVE TypeOK'
<1>1. CASE Top
  BY <1>1 DEF TypeOK, Top, Usable, Pools, NoPool
<1>2. CASE ReadAlive
  <2>1. info' \in [Pools -> [dead : BOOLEAN, disabled : BOOLEAN, connected : BOOLEAN]]
    <3>1. info \in [Pools -> Info] /\ Silent(idx) \in BOOLEAN
      BY DEF TypeOK, Silent, Info
    <3> QED
      BY <1>2, <3>1, InfoRead DEF ReadAlive, Info
  <2> QED
    BY <1>2, <2>1 DEF TypeOK, ReadAlive
<1>11. CASE ReadDisabled
  <2>1. info' \in [Pools -> [dead : BOOLEAN, disabled : BOOLEAN, connected : BOOLEAN]]
    <3>1. info \in [Pools -> Info] /\ disabled[idx] \in BOOLEAN
      BY <1>11 DEF TypeOK, ThreadInv, ReadDisabled, Info
    <3> QED
      BY <1>11, <3>1, InfoRead DEF ReadDisabled, Info
  <2> QED
    BY <1>11, <2>1 DEF TypeOK, ReadDisabled
<1>12. CASE ReadConnected
  <2>1. info' \in [Pools -> [dead : BOOLEAN, disabled : BOOLEAN, connected : BOOLEAN]]
    <3>1. info \in [Pools -> Info] /\ connected[idx] \in BOOLEAN
      BY <1>12 DEF TypeOK, ThreadInv, ReadConnected, Info
    <3> QED
      BY <1>12, <3>1, InfoRead DEF ReadConnected, Info
  <2>2. idx' \in 1 .. NumPools + 1
    <3>1. idx' \in Pools \/ idx' = 1
      BY <1>12 DEF ReadConnected, Listed
    <3> QED
      BY <3>1 DEF Pools
  <2>3. alivePc' \in AlivePcs
    BY <1>12 DEF TypeOK, ReadConnected
  <2> QED
    BY <1>12, <2>1, <2>2, <2>3 DEF TypeOK, ReadConnected
<1>3. CASE NoPools
  BY <1>3 DEF TypeOK, NoPools
<1>4. CASE Decide
  <2>1. floor' \in [Pools -> Nat]
    <3>1. prev_pool \in Pools => offered[prev_pool] \in Nat
      BY DEF TypeOK
    <3> QED
      BY <1>4, <3>1 DEF TypeOK, Decide
  <2>2. active' \in Pools \cup {NoPool} /\ alivePc' \in AlivePcs
    BY <1>4 DEF TypeOK, Decide
  <2> QED
    BY <1>4, <2>1, <2>2 DEF TypeOK, Decide
<1>5. CASE ExpirePrevious
  BY <1>5 DEF TypeOK, ExpirePrevious, FreshAfterExpiry, ThreadInv, Pools
<1>6. CASE Bury
  <2>1. isDead' \in [Pools -> BOOLEAN]
    BY <1>6 DEF TypeOK, Bury, NowDead
  <2>5. info' \in [Pools -> [dead : BOOLEAN, disabled : BOOLEAN, connected : BOOLEAN]]
    BY <1>6 DEF TypeOK, Bury, Unread
  <2>2. kills' \in 0 .. 2
    BY <1>6 DEF TypeOK, Bury, KillsFor
  <2>3. idx' \in 1 .. NumPools + 1
    <3>1. idx' = idx \/ idx' \in Pools \/ idx' = 1
      BY <1>6 DEF Bury, NextPool, Listed
    <3>2. idx \in 1 .. NumPools + 1
      BY DEF TypeOK
    <3> QED
      BY <3>1, <3>2 DEF Pools
  <2>4. alivePc' \in AlivePcs
    BY <1>6 DEF TypeOK, Bury, NextPool
  <2> QED
    BY <1>6, <2>1, <2>2, <2>3, <2>4, <2>5 DEF TypeOK, Bury
<1>7. CASE onDeclaredDead
  <2>1. link' \in [Pools -> BOOLEAN]
    BY <1>7 DEF TypeOK, onDeclaredDead
  <2>2. trying' \in [Pools -> BOOLEAN]
    BY <1>7 DEF TypeOK, onDeclaredDead
  <2>3. connected' \in [Pools -> BOOLEAN]
    BY <1>7 DEF TypeOK, onDeclaredDead
  <2>4. gpuPc' \in [Gpus -> {"idle", "fetch", "nopool", "entering", "asleep", "ended"}]
    BY <1>7 DEF TypeOK, onDeclaredDead
  <2>5. kills' \in 0 .. 2
    BY <1>7 DEF TypeOK, onDeclaredDead, ThreadInv
  <2>6. idx' \in 1 .. NumPools + 1
    <3>1. idx' = idx \/ idx' \in Pools \/ idx' = 1
      BY <1>7 DEF onDeclaredDead, NextPool, Listed
    <3>2. idx \in 1 .. NumPools + 1
      BY DEF TypeOK
    <3> QED
      BY <3>1, <3>2 DEF Pools
  <2>7. alivePc' \in AlivePcs
    BY <1>7 DEF TypeOK, onDeclaredDead, NextPool
  <2> QED
    BY <1>7, <2>1, <2>2, <2>3, <2>4, <2>5, <2>6, <2>7 DEF TypeOK, onDeclaredDead
<1>8. CASE CheckDone
  BY <1>8 DEF TypeOK, CheckDone, NotifyWaiting, Unread, Pools, NoPool
<1>9. CASE FallAsleep
  BY <1>9 DEF TypeOK, FallAsleep
<1>10. CASE ResetPoolsChanged
  BY <1>10 DEF TypeOK, ResetPoolsChanged, ChangesSeen
<1> QED
  BY <1>1, <1>2, <1>3, <1>4, <1>5, <1>6, <1>7, <1>8, <1>9, <1>10, <1>11, <1>12 DEF Check

LEMMA TypesWait ==
    ASSUME TypeOK, Lock \/ Tick PROVE TypeOK'
<1>1. CASE Evaluate
  BY <1>1 DEF TypeOK, Evaluate
<1>2. CASE TimeOut
  BY <1>2 DEF TypeOK, TimeOut
<1>3. CASE Tick
  <2>1. age' \in [Pools -> 0 .. DeadAfter + 1]
    <3>1. \A p \in Pools : age[p] \in 0 .. DeadAfter + 1
      BY DEF TypeOK
    <3>2. \A p \in Pools :
             (IF Silent(p) THEN age[p] ELSE age[p] + 1) \in 0 .. DeadAfter + 1
      BY <3>1, PoolSwitcherAssumption DEF Silent
    <3>3. age' = [p \in Pools |-> IF Silent(p) THEN age[p] ELSE age[p] + 1]
      BY <1>3 DEF Tick
    <3> QED
      BY <3>2, <3>3
  <2> QED
    BY <1>3, <2>1 DEF TypeOK, Tick
<1> QED
  BY <1>1, <1>2, <1>3 DEF Lock

LEMMA TypesGpu ==
    ASSUME TypeOK, ThreadInv, NEW g \in Gpus, CopyActive(g) \/ Gpu(g) PROVE TypeOK'
<1>1. CASE CopyActive(g)
  <2>1. work' \in [Gpus -> [pool : Pools \cup {NoPool}, id : Nat]]
    BY <1>1 DEF TypeOK, CopyActive, NoWork, NoPool
  <2>2. target' \in [Gpus -> Pools \cup {NoPool}]
    BY <1>1 DEF TypeOK, CopyActive
  <2>3. gpuPc' \in [Gpus -> {"idle", "fetch", "nopool", "entering", "asleep", "ended"}]
    BY <1>1 DEF TypeOK, CopyActive
  <2> QED
    BY <1>1, <2>1, <2>2, <2>3 DEF TypeOK, CopyActive
<1>2. CASE Fetch(g)
  <2>1. work' \in [Gpus -> [pool : Pools \cup {NoPool}, id : Nat]]
    BY <1>2 DEF TypeOK, Fetch, ThreadInv, NoWork, NoPool
  <2>2. target' \in [Gpus -> Pools \cup {NoPool}]
    BY <1>2 DEF TypeOK, Fetch, NoPool
  <2>3. gpuPc' \in [Gpus -> {"idle", "fetch", "nopool", "entering", "asleep", "ended"}]
    BY <1>2 DEF TypeOK, Fetch
  <2> QED
    BY <1>2, <2>1, <2>2, <2>3 DEF TypeOK, Fetch
<1>3. CASE CheckPredicate(g)
  BY <1>3 DEF TypeOK, CheckPredicate
<1>4. CASE Wait(g)
  BY <1>4 DEF TypeOK, Wait
<1>5. CASE EndGpu(g)
  <2>1. work' \in [Gpus -> [pool : Pools \cup {NoPool}, id : Nat]]
    BY <1>5 DEF TypeOK, EndGpu, NoWork, NoPool
  <2>2. gpuPc' \in [Gpus -> {"idle", "fetch", "nopool", "entering", "asleep", "ended"}]
    BY <1>5 DEF TypeOK, EndGpu
  <2> QED
    BY <1>5, <2>1, <2>2 DEF TypeOK, EndGpu
<1> QED
  BY <1>1, <1>2, <1>3, <1>4, <1>5 DEF Gpu

LEMMA TypesApp ==
    ASSUME TypeOK, (\E p \in Pools : AddPool(p)) \/ App \/ Close PROVE TypeOK'
<1>1. ASSUME NEW p \in Pools, AddPool(p) PROVE TypeOK'
  <2>1. CASE MakePool(p)
    BY <1>1, <2>1 DEF TypeOK, MakePool
  <2>2. CASE setOnStateChangeCv(p)
    BY <1>1, <2>2 DEF TypeOK, setOnStateChangeCv
  <2>3. CASE ListPool(p)
    BY <1>1, <2>3 DEF TypeOK, ListPool
  <2> QED
    BY <1>1, <2>1, <2>2, <2>3 DEF AddPool
<1>2. CASE NotifyPoolsChange
  BY <1>2 DEF TypeOK, NotifyPoolsChange, NotifyAll
<1>3. CASE Destroy
  BY <1>3 DEF TypeOK, Destroy
<1>4. CASE NotifyShutdown
  BY <1>4 DEF TypeOK, NotifyShutdown, NotifyAll
<1>5. CASE Closed
  BY <1>5 DEF TypeOK, Closed
<1>6. CASE Close
  BY <1>6 DEF TypeOK, Close
<1> QED
  BY <1>1, <1>2, <1>3, <1>4, <1>5, <1>6 DEF App

-----------------------------------------------------------------------------
(* What the threads know.                                                  *)

LEMMA ThreadsNetwork ==
    ASSUME TypeOK, ThreadInv, NEW p \in Pools, Network(p) \/ Io(p) PROVE ThreadInv'
<1>1. /\ UNCHANGED <<prev_pool, active, idx, kills, target, work>>
      /\ alivePc' = alivePc \/ alivePc' = "woken"
      /\ \A g \in Gpus : gpuPc'[g] = gpuPc[g] \/ gpuPc'[g] = "nopool"
  BY DEF TypeOK, Network, Io, Connect, onStillAlive, LoginRejected, JobArrives,
         Disconnect, SetConnected, PushJob, NotifyChange, NotifyAll
<1>2. ASSUME NEW q \in Pools, ioPc'[q] \in {"connect", "announce", "push"}
      PROVE  newest'[q] < MaxJobs[q]
  <2>1. CASE q # p
    BY <1>2, <2>1 DEF TypeOK, ThreadInv, Network, Io, Connect, onStillAlive, LoginRejected,
           JobArrives, Disconnect, SetConnected, PushJob, NotifyChange
  <2>2. CASE q = p
    BY <1>2, <2>2 DEF TypeOK, ThreadInv, Network, Io, Connect, onStillAlive, LoginRejected,
           JobArrives, Disconnect, SetConnected, PushJob, NotifyChange
  <2> QED
    BY <2>1, <2>2
<1> QED
  BY <1>1, <1>2 DEF ThreadInv

LEMMA ThreadsRefill ==
    ASSUME ThreadInv, NEW p \in Pools, Refill(p) PROVE ThreadInv'
BY DEF ThreadInv, Refill, RefillBegin, RefillStore

LEMMA ThreadsCheck ==
    ASSUME TypeOK, ThreadInv, Check \/ Lock \/ Tick PROVE ThreadInv'
<1>1. UNCHANGED <<ioPc, newest, target, work>>
  BY DEF Check, Lock, Tick, Top, ReadAlive, ReadDisabled, ReadConnected,
         NoPools, Decide, ExpirePrevious, Bury,
         onDeclaredDead, CheckDone, FallAsleep, ResetPoolsChanged, Evaluate, TimeOut
<1>2. \A g \in Gpus : gpuPc'[g] = gpuPc[g] \/ gpuPc'[g] = "nopool"
  BY DEF TypeOK, Check, Lock, Tick, Top, ReadAlive, ReadDisabled, ReadConnected,
         NoPools, Decide, ExpirePrevious, Bury,
         onDeclaredDead, CheckDone, FallAsleep, ResetPoolsChanged, Evaluate, TimeOut,
         NotifyWaiting
<1>3. alivePc' \in {"read", "readDisabled", "readConnected", "decide"} => prev_pool' = active'
  BY DEF ThreadInv, Check, Lock, Tick, Top, ReadAlive, ReadDisabled, ReadConnected,
         NoPools, Decide, ExpirePrevious, Bury,
         onDeclaredDead, CheckDone, FallAsleep, ResetPoolsChanged, Evaluate, TimeOut, NextPool
<1>6. alivePc' \in {"readDisabled", "readConnected"} => idx' \in Pools
  BY DEF ThreadInv, Check, Lock, Tick, Top, ReadAlive, ReadDisabled, ReadConnected,
         NoPools, Decide, ExpirePrevious, Bury, onDeclaredDead, CheckDone, FallAsleep,
         ResetPoolsChanged, Evaluate, TimeOut, NextPool, Listed
<1>4. alivePc' = "expire" => prev_pool' \in Pools /\ prev_pool' # active'
  BY DEF TypeOK, ThreadInv, Check, Lock, Tick, Top, ReadAlive, ReadDisabled, ReadConnected,
         NoPools, Decide, ExpirePrevious,
         Bury, onDeclaredDead, CheckDone, FallAsleep, ResetPoolsChanged, Evaluate, TimeOut,
         NextPool
<1>5. alivePc' = "kill" => kills' > 0
  BY DEF TypeOK, ThreadInv, Check, Lock, Tick, Top, ReadAlive, ReadDisabled, ReadConnected,
         NoPools, Decide, ExpirePrevious,
         Bury, onDeclaredDead, CheckDone, FallAsleep, ResetPoolsChanged, Evaluate, TimeOut,
         NextPool
<1> QED
  BY <1>1, <1>2, <1>3, <1>4, <1>5, <1>6 DEF ThreadInv

LEMMA ThreadsOthers ==
    ASSUME TypeOK, ThreadInv,
           \/ \E g \in Gpus : CopyActive(g) \/ Gpu(g)
           \/ (\E p \in Pools : AddPool(p)) \/ App \/ Close
    PROVE  ThreadInv'
<1>1. /\ UNCHANGED <<ioPc, newest, prev_pool, active, idx, kills>>
      /\ alivePc' = alivePc \/ alivePc' = "woken"
  BY DEF Gpu, CopyActive, Fetch, CheckPredicate, Wait, EndGpu, AddPool, MakePool,
         setOnStateChangeCv, ListPool, App, NotifyPoolsChange, Destroy, NotifyShutdown,
         Closed, Close, NotifyAll
<1>2. ASSUME NEW g \in Gpus
      PROVE  /\ gpuPc'[g] = "fetch" => target'[g] \in Pools
             /\ work'[g] # NoWork => work'[g].pool \in Pools
  <2>1. ASSUME NEW h \in Gpus, CopyActive(h) \/ Gpu(h) PROVE <1>2!2
    <3>1. CASE h # g
      <4>1. gpuPc'[g] = gpuPc[g] /\ target'[g] = target[g] /\ work'[g] = work[g]
        BY <1>2, <2>1, <3>1 DEF TypeOK, Gpu, CopyActive, Fetch, CheckPredicate, Wait, EndGpu
      <4> QED
        BY <1>2, <4>1 DEF ThreadInv
    <3>2. CASE h = g /\ CopyActive(g)
      BY <1>2, <3>2 DEF TypeOK, CopyActive
    <3>3. CASE h = g /\ Fetch(g)
      <4>1. target[g] \in Pools /\ gpuPc'[g] = "idle"
        BY <1>2, <3>3 DEF TypeOK, ThreadInv, Fetch
      <4>2. work'[g] = NoWork \/ work'[g] = [pool |-> target[g], id |-> offered[target[g]]]
        BY <1>2, <3>3 DEF TypeOK, Fetch
      <4> QED
        BY <4>1, <4>2
    <3>4. CASE h = g /\ (CheckPredicate(g) \/ Wait(g) \/ EndGpu(g))
      <4>1. gpuPc'[g] # "fetch" /\ (work'[g] = work[g] \/ work'[g] = NoWork)
        BY <1>2, <3>4 DEF TypeOK, CheckPredicate, Wait, EndGpu
      <4> QED
        BY <1>2, <4>1 DEF ThreadInv
    <3> QED
      BY <2>1, <3>1, <3>2, <3>3, <3>4 DEF Gpu
  <2>2. CASE (\E p \in Pools : AddPool(p)) \/ App \/ Close
    <3>1. UNCHANGED <<target, work>>
      BY <2>2 DEF AddPool, MakePool, setOnStateChangeCv, ListPool, App,
         NotifyPoolsChange, Destroy, NotifyShutdown, Closed, Close
    <3>2. gpuPc'[g] = gpuPc[g] \/ gpuPc'[g] = "nopool"
      BY <1>2, <2>2 DEF AddPool, MakePool, setOnStateChangeCv, ListPool, App,
         NotifyPoolsChange, Destroy, NotifyShutdown, Closed, Close, NotifyAll
    <3> QED
      BY <1>2, <3>1, <3>2 DEF ThreadInv
  <2> QED
    BY <2>1, <2>2
<1> QED
  BY <1>1, <1>2 DEF ThreadInv

-----------------------------------------------------------------------------
(* The queues: what is offered, what is made and what was pushed.          *)

LEMMA QueuesUnaffected ==
    ASSUME QueueInv, UNCHANGED queueVars PROVE QueueInv'
BY DEF QueueInv

LEMMA QueuesNetwork ==
    ASSUME TypeOK, QueueInv, NEW p \in Pools, Network(p) \/ Io(p) PROVE QueueInv'
<1>1. CASE JobArrives(p)
  <2>1. UNCHANGED <<queue, newest, offered, filled, making>>
        /\ \A q \in Pools : hasJob'[q] => hasJob[q]
    BY <1>1 DEF TypeOK, JobArrives
  <2> QED
    BY <2>1 DEF QueueInv
<1>2. CASE PushJob(p)
  <2>1. /\ newest \in [Pools -> Nat] /\ offered \in [Pools -> Nat] /\ making \in [Pools -> Nat]
        /\ newest' = [newest EXCEPT ![p] = newest[p] + 1]
        /\ UNCHANGED <<queue, making>>
    BY <1>2 DEF TypeOK, PushJob
  <2>2. \A q \in Pools : filled'[q] => filled[q]
    BY <1>2 DEF TypeOK, PushJob
  <2>3. \A q \in Pools : q # p => hasJob'[q] = hasJob[q] /\ offered'[q] = offered[q]
    BY <1>2 DEF TypeOK, PushJob
  <2>4. offered'[p] = IF queue = "lazy" THEN newest[p] + 1 ELSE offered[p]
    BY <1>2 DEF TypeOK, PushJob
  <2>5. ASSUME NEW q \in Pools
        PROVE  /\ offered'[q] <= newest'[q]
               /\ making'[q] # 0 => offered'[q] < making'[q] /\ making'[q] <= newest'[q]
               /\ hasJob'[q] => newest'[q] > 0
               /\ filled'[q] => offered'[q] > 0
               /\ queue' = "lazy" => offered'[q] = newest'[q] /\ making'[q] = 0
    <3>1. CASE q = p
      BY <2>1, <2>2, <2>4, <3>1 DEF QueueInv
    <3>2. CASE q # p
      BY <2>1, <2>2, <2>3, <3>2 DEF QueueInv
    <3> QED
      BY <3>1, <3>2
  <2> QED
    BY <2>5 DEF QueueInv
<1>3. CASE ~JobArrives(p) /\ ~PushJob(p)
  <2>1. UNCHANGED queueVars
    BY <1>3 DEF Network, Io, Connect, onStillAlive, LoginRejected, Disconnect, SetConnected,
           NotifyChange
  <2> QED
    BY <2>1, QueuesUnaffected
<1> QED
  BY <1>1, <1>2, <1>3

LEMMA QueuesRefill ==
    ASSUME TypeOK, QueueInv, NEW p \in Pools, Refill(p) PROVE QueueInv'
<1>1. newest \in [Pools -> Nat] /\ offered \in [Pools -> Nat] /\ making \in [Pools -> Nat]
  BY DEF TypeOK
<1>2. UNCHANGED <<queue, newest, hasJob>>
  BY DEF Refill, RefillBegin, RefillStore
<1>3. CASE RefillBegin(p)
  <2>1. /\ queue = "buffered" /\ newest[p] # offered[p] /\ hasJob[p]
        /\ making' = [making EXCEPT ![p] = newest[p]] /\ UNCHANGED <<offered, filled>>
    BY <1>3 DEF RefillBegin
  <2> QED
    BY <1>1, <1>2, <2>1 DEF QueueInv
<1>4. CASE RefillStore(p) /\ StillLatest(p)
  <2>1. /\ making[p] # 0 /\ making' = [making EXCEPT ![p] = 0]
        /\ offered' = [offered EXCEPT ![p] = making[p]]
        /\ filled' = [filled EXCEPT ![p] = TRUE] /\ filled \in [Pools -> BOOLEAN]
    BY <1>4 DEF RefillStore, TypeOK
  <2>2. making[p] > 0 /\ making[p] <= newest[p]
    BY <1>1, <2>1 DEF QueueInv
  <2>3. queue # "lazy"
    BY <2>1 DEF QueueInv
  <2>4. ASSUME NEW q \in Pools
        PROVE  /\ offered'[q] <= newest'[q]
               /\ making'[q] # 0 => offered'[q] < making'[q] /\ making'[q] <= newest'[q]
               /\ hasJob'[q] => newest'[q] > 0
               /\ filled'[q] => offered'[q] > 0
               /\ queue' = "lazy" => offered'[q] = newest'[q] /\ making'[q] = 0
    <3>1. CASE q = p
      BY <1>1, <1>2, <2>1, <2>2, <2>3, <3>1 DEF QueueInv
    <3>2. CASE q # p
      BY <1>1, <1>2, <2>1, <3>2 DEF QueueInv
    <3> QED
      BY <3>1, <3>2
  <2> QED
    BY <2>4 DEF QueueInv
<1>5. CASE RefillStore(p) /\ ~StillLatest(p)
  <2>1. making' = [making EXCEPT ![p] = 0] /\ UNCHANGED <<offered, filled>>
    BY <1>5 DEF RefillStore
  <2> QED
    BY <1>1, <1>2, <2>1 DEF QueueInv
<1> QED
  BY <1>3, <1>4, <1>5 DEF Refill

LEMMA QueuesOthers ==
    ASSUME QueueInv,
           \/ Check \/ Lock \/ Tick
           \/ \E g \in Gpus : CopyActive(g) \/ Gpu(g)
           \/ (\E p \in Pools : AddPool(p)) \/ App \/ Close
    PROVE  QueueInv'
<1>1. UNCHANGED <<queue, newest, hasJob, offered, filled, making>>
  BY DEF Check, Lock, Tick, Top, ReadAlive, ReadDisabled, ReadConnected, NoPools, Decide,
         ExpirePrevious, Bury, onDeclaredDead, CheckDone, FallAsleep, ResetPoolsChanged,
         Evaluate, TimeOut, Gpu, CopyActive, Fetch, CheckPredicate, Wait, EndGpu, AddPool,
         MakePool, setOnStateChangeCv, ListPool, App, NotifyPoolsChange, Destroy,
         NotifyShutdown, Closed, Close
<1> QED
  BY <1>1 DEF QueueInv

-----------------------------------------------------------------------------
(* Only a job that comes to be offered, an expiry and a switch concern     *)
(* FloorInv.                                                               *)

LEMMA FloorUnaffected ==
    ASSUME FloorInv, UNCHANGED <<offered, fresh, floor>>,
           alivePc # "expire" \/ (alivePc' = "expire" /\ UNCHANGED prev_pool)
    PROVE  FloorInv'
BY DEF FloorInv, AboutToExpire

(* A queue goes over to a newer job: its works are the latest ones, and    *)
(* they are of a job not offered when the pool was last given up.          *)
LEMMA FloorOffer ==
    ASSUME TypeOK, FloorInv, NEW p \in Pools, NEW j \in Nat, j > offered[p],
           offered' = [offered EXCEPT ![p] = j], fresh' = [fresh EXCEPT ![p] = TRUE],
           UNCHANGED <<floor, prev_pool>>, alivePc = "expire" => alivePc' = "expire"
    PROVE  FloorInv'
<1>1. offered \in [Pools -> Nat] /\ fresh \in [Pools -> BOOLEAN] /\ floor \in [Pools -> Nat]
  BY DEF TypeOK
<1>2. ASSUME NEW q \in Pools
      PROVE  /\ floor'[q] <= offered'[q]
             /\ fresh'[q] /\ ~AboutToExpire(q)' => floor'[q] < offered'[q]
  <2>1. CASE q = p
    <3>1. floor[p] <= offered[p]
      BY DEF FloorInv
    <3> QED
      BY <1>1, <2>1, <3>1
  <2>2. CASE q # p
    <3>1. AboutToExpire(q) => AboutToExpire(q)'
      BY DEF AboutToExpire
    <3>2. offered'[q] = offered[q] /\ fresh'[q] = fresh[q] /\ floor'[q] = floor[q]
      BY <1>1, <2>2
    <3> QED
      BY <3>1, <3>2 DEF FloorInv
  <2> QED
    BY <2>1, <2>2
<1> QED
  BY <1>2 DEF FloorInv

LEMMA FloorNetwork ==
    ASSUME TypeOK, QueueInv, FloorInv, NEW p \in Pools, Network(p) \/ Io(p) PROVE FloorInv'
<1>1. UNCHANGED <<floor, prev_pool>> /\ (alivePc = "expire" => alivePc' = "expire")
  BY DEF Network, Io, Connect, onStillAlive, LoginRejected, JobArrives, Disconnect,
         SetConnected, PushJob, NotifyChange, NotifyAll
<1>2. CASE PushJob(p) /\ queue = "lazy"
  <2>1. /\ offered' = [offered EXCEPT ![p] = newest[p] + 1]
        /\ fresh' = [fresh EXCEPT ![p] = TRUE]
    BY <1>2 DEF PushJob
  <2>2. newest[p] + 1 \in Nat /\ newest[p] + 1 > offered[p]
    BY DEF TypeOK, QueueInv
  <2> QED
    BY <1>1, <2>1, <2>2, FloorOffer
<1>3. CASE UNCHANGED <<offered, fresh>>
  BY <1>1, <1>3, FloorUnaffected
<1>4. (PushJob(p) /\ queue = "lazy") \/ UNCHANGED <<offered, fresh>>
  BY DEF Network, Io, Connect, onStillAlive, LoginRejected, JobArrives, Disconnect,
         SetConnected, PushJob, NotifyChange
<1> QED
  BY <1>2, <1>3, <1>4

LEMMA FloorRefill ==
    ASSUME TypeOK, QueueInv, FloorInv, NEW p \in Pools, Refill(p) PROVE FloorInv'
<1>1. UNCHANGED <<floor, prev_pool, alivePc>>
  BY DEF Refill, RefillBegin, RefillStore
<1>2. CASE RefillStore(p) /\ StillLatest(p)
  <2>1. /\ offered' = [offered EXCEPT ![p] = making[p]]
        /\ fresh' = [fresh EXCEPT ![p] = TRUE]
    BY <1>2 DEF RefillStore
  <2>2. making[p] \in Nat /\ making[p] > offered[p]
    BY <1>2 DEF RefillStore, TypeOK, QueueInv
  <2> QED
    BY <1>1, <2>1, <2>2, FloorOffer
<1>3. CASE UNCHANGED <<offered, fresh>>
  BY <1>1, <1>3, FloorUnaffected
<1>4. (RefillStore(p) /\ StillLatest(p)) \/ UNCHANGED <<offered, fresh>>
  BY DEF Refill, RefillBegin, RefillStore
<1> QED
  BY <1>2, <1>3, <1>4

LEMMA FloorCheck ==
    ASSUME TypeOK, ThreadInv, FloorInv, Check \/ Lock \/ Tick PROVE FloorInv'
<1>1. CASE Decide /\ alivePc' = "expire"
  <2>1. /\ UNCHANGED <<offered, fresh, prev_pool>> /\ alivePc # "expire"
        /\ floor' = [floor EXCEPT ![prev_pool] = offered[prev_pool]]
    BY <1>1 DEF Decide
  <2>2. offered \in [Pools -> Nat] /\ floor \in [Pools -> Nat]
    BY DEF TypeOK
  <2>3. ASSUME NEW q \in Pools
        PROVE  /\ floor'[q] <= offered'[q]
               /\ fresh'[q] /\ ~AboutToExpire(q)' => floor'[q] < offered'[q]
    <3>1. CASE q = prev_pool
      BY <1>1, <2>1, <2>2, <3>1 DEF AboutToExpire
    <3>2. CASE q # prev_pool
      BY <2>1, <2>2, <3>2 DEF FloorInv, AboutToExpire
    <3> QED
      BY <3>1, <3>2
  <2> QED
    BY <2>3 DEF FloorInv
<1>2. CASE Decide /\ alivePc' # "expire"
  <2>1. UNCHANGED <<offered, fresh, floor>> /\ alivePc # "expire"
    BY <1>2 DEF Decide
  <2> QED
    BY <2>1, FloorUnaffected
<1>3. CASE ExpirePrevious
  <2>1. prev_pool \in Pools /\ alivePc' # "expire" /\ UNCHANGED <<offered, floor>>
    BY <1>3 DEF ExpirePrevious, ThreadInv
  <2>2. fresh' = [fresh EXCEPT ![prev_pool] = FALSE] /\ fresh \in [Pools -> BOOLEAN]
    BY <1>3 DEF ExpirePrevious, FreshAfterExpiry, TypeOK
  <2>3. ASSUME NEW q \in Pools
        PROVE  /\ floor'[q] <= offered'[q]
               /\ fresh'[q] /\ ~AboutToExpire(q)' => floor'[q] < offered'[q]
    <3>1. CASE q = prev_pool
      BY <2>1, <2>2, <3>1 DEF FloorInv
    <3>2. CASE q # prev_pool
      BY <2>1, <2>2, <3>2 DEF FloorInv, AboutToExpire
    <3> QED
      BY <3>1, <3>2
  <2> QED
    BY <2>3 DEF FloorInv
<1>4. CASE ~Decide /\ ~ExpirePrevious
  <2>1. UNCHANGED <<offered, fresh, floor>> /\ alivePc # "expire"
    BY <1>4 DEF Check, Lock, Tick, Top, ReadAlive, ReadDisabled, ReadConnected, NoPools,
           Bury, onDeclaredDead, CheckDone, FallAsleep, ResetPoolsChanged, Evaluate, TimeOut
  <2> QED
    BY <2>1, FloorUnaffected
<1> QED
  BY <1>1, <1>2, <1>3, <1>4

LEMMA FloorOthers ==
    ASSUME FloorInv,
           \/ \E g \in Gpus : CopyActive(g) \/ Gpu(g)
           \/ (\E p \in Pools : AddPool(p)) \/ App \/ Close
    PROVE  FloorInv'
<1>1. /\ UNCHANGED <<offered, fresh, floor, prev_pool>>
      /\ alivePc = "expire" => alivePc' = "expire"
  BY DEF Gpu, CopyActive, Fetch, CheckPredicate, Wait, EndGpu, AddPool, MakePool,
         setOnStateChangeCv, ListPool, App, NotifyPoolsChange, Destroy, NotifyShutdown,
         Closed, Close, NotifyAll
<1> QED
  BY <1>1, FloorUnaffected

-----------------------------------------------------------------------------
(* The types and the strengthened invariant hold whatever the number of    *)
(* pools, GPU threads and jobs.                                            *)
THEOREM InductiveInvariant == Spec => []IInv
<1>1. Init => IInv
  <2> SUFFICES ASSUME Init PROVE IInv
    OBVIOUS
  <2>1. ThreadInv
    BY DEF Init, ThreadInv
  <2>2. QueueInv /\ FloorInv
    BY DEF Init, QueueInv, FloorInv
  <2> QED
    BY <2>1, <2>2, TypesInitially DEF IInv
<1>2. IInv /\ [Next]_vars => IInv'
  <2> SUFFICES ASSUME IInv, [Next]_vars PROVE IInv'
    OBVIOUS
  <2>1. TypeOK /\ ThreadInv /\ QueueInv /\ FloorInv
    BY DEF IInv
  <2>2. ASSUME NEW p \in Pools, Network(p) \/ Io(p) PROVE IInv'
    BY <2>1, <2>2, TypesNetwork, TypesIo, ThreadsNetwork, QueuesNetwork, FloorNetwork DEF IInv
  <2>3. ASSUME NEW p \in Pools, Refill(p) PROVE IInv'
    BY <2>1, <2>3, TypesRefill, ThreadsRefill, QueuesRefill, FloorRefill DEF IInv
  <2>4. CASE Check \/ Lock \/ Tick
    BY <2>1, <2>4, TypesCheck, TypesWait, ThreadsCheck, QueuesOthers, FloorCheck DEF IInv
  <2>5. ASSUME NEW g \in Gpus, CopyActive(g) \/ Gpu(g) PROVE IInv'
    BY <2>1, <2>5, TypesGpu, ThreadsOthers, QueuesOthers, FloorOthers DEF IInv
  <2>6. CASE (\E p \in Pools : AddPool(p)) \/ App \/ Close
    BY <2>1, <2>6, TypesApp, ThreadsOthers, QueuesOthers, FloorOthers DEF IInv
  <2>7. CASE UNCHANGED vars
    <3>1. TypeOK'
      BY <2>1, <2>7 DEF TypeOK
    <3>2. ThreadInv'
      BY <2>1, <2>7 DEF ThreadInv
    <3>3. QueueInv' /\ FloorInv'
      BY <2>1, <2>7 DEF QueueInv, FloorInv, AboutToExpire
    <3> QED
      BY <3>1, <3>2, <3>3 DEF IInv
  <2> QED
    BY <2>2, <2>3, <2>4, <2>5, <2>6, <2>7 DEF Next
<1> QED
  BY <1>1, <1>2, PTL DEF Spec

(* Once a switch is complete no GPU thread has an unexpired work of the    *)
(* pool that was given up, unless its queue came to hand out the work's    *)
(* job afterwards (pool/PoolSwitcher.cpp:128-141, both queues).            *)
THEOREM NobodyKeepsOldPool == Spec => []GpusLeaveOldPool
<1>1. IInv => GpusLeaveOldPool
  <2> SUFFICES ASSUME IInv, alivePc # "expire", NEW g \in Gpus, work[g] # NoWork,
                      ~Expired(work[g])
               PROVE  work[g].id > floor[work[g].pool]
    BY DEF GpusLeaveOldPool
  <2>1. work[g].pool \in Pools
    BY DEF IInv, ThreadInv
  <2>2. fresh[work[g].pool] /\ work[g].id = offered[work[g].pool]
    BY DEF Expired
  <2>3. floor[work[g].pool] < offered[work[g].pool]
    BY <2>1, <2>2 DEF IInv, FloorInv, AboutToExpire
  <2>4. floor[work[g].pool] \in Nat /\ offered[work[g].pool] \in Nat
    BY <2>1 DEF IInv, TypeOK
  <2> QED
    BY <2>2, <2>3, <2>4
<1> QED
  BY <1>1, InductiveInvariant, PTL

-----------------------------------------------------------------------------
(* Refinement: to the GPU threads each pool is a WorkSource.               *)

WorksOf(p) == [g \in Gpus |-> WorkOf(g, p)]

LEMMA NothingOffered ==
    ASSUME NEW p \in Pools,
           offered'[p] = offered[p], fresh'[p] = fresh[p], WorksOf(p)' = WorksOf(p)
    PROVE  [Source(p)!Next]_(Source(p)!vars)
BY Zenon DEF Source!vars, WorksOf

(* A queue goes over to a job newer than all it has offered, when the job  *)
(* is pushed or when its first works have been made; works in the hands of *)
(* the GPU threads stay.                                                   *)
LEMMA OfferOfSource ==
    ASSUME NEW p \in Pools,
           offered'[p] \in Nat, offered'[p] > offered[p], fresh'[p] \in BOOLEAN,
           WorksOf(p)' = WorksOf(p)
    PROVE  [Source(p)!Next]_(Source(p)!vars)
<1>1. Source(p)!Offer
  BY Zenon DEF Source!Offer, WorksOf
<1> QED
  BY <1>1, Zenon DEF Source!Next

LEMMA JobStepOfSource ==
    ASSUME IInv, NEW p \in Pools, NEW q \in Pools, Network(q) \/ Io(q) \/ Refill(q)
    PROVE  [Source(p)!Next]_(Source(p)!vars)
<1>1. WorksOf(p)' = WorksOf(p)
  BY DEF Network, Io, Connect, onStillAlive, LoginRejected, JobArrives, Disconnect,
         SetConnected, PushJob, NotifyChange, Refill, RefillBegin, RefillStore, WorksOf, WorkOf
<1>2. /\ offered \in [Pools -> Nat] /\ fresh \in [Pools -> BOOLEAN]
      /\ newest[p] \in Nat /\ making[p] \in Nat
  BY DEF IInv, TypeOK
<1>3. CASE offered'[p] = offered[p] /\ fresh'[p] = fresh[p]
  BY <1>1, <1>3, NothingOffered
<1>4. CASE PushJob(q) /\ p = q /\ queue = "lazy"
  <2>1. offered'[p] = newest[p] + 1 /\ fresh'[p] = TRUE
    BY <1>2, <1>4 DEF PushJob
  <2>2. newest[p] + 1 \in Nat /\ newest[p] + 1 > offered[p]
    BY <1>2 DEF IInv, QueueInv
  <2> QED
    BY <1>1, <2>1, <2>2, OfferOfSource
<1>5. CASE RefillStore(q) /\ p = q /\ StillLatest(q)
  <2>1. offered'[p] = making[p] /\ fresh'[p] = TRUE
    BY <1>2, <1>5 DEF RefillStore
  <2>2. making[p] > offered[p]
    BY <1>2, <1>5 DEF RefillStore, IInv, QueueInv
  <2> QED
    BY <1>1, <1>2, <2>1, <2>2, OfferOfSource
<1>6. \/ offered'[p] = offered[p] /\ fresh'[p] = fresh[p]
      \/ PushJob(q) /\ p = q /\ queue = "lazy"
      \/ RefillStore(q) /\ p = q /\ StillLatest(q)
  BY <1>2 DEF Network, Io, Connect, onStillAlive, LoginRejected, JobArrives,
         Disconnect, SetConnected, PushJob, NotifyChange, Refill, RefillBegin, RefillStore
<1> QED
  BY <1>3, <1>4, <1>5, <1>6

(* The switcher only ever expires the jobs of a pool.                      *)
LEMMA CheckStepOfSource ==
    ASSUME IInv, NEW p \in Pools, Check \/ Lock \/ Tick
    PROVE  [Source(p)!Next]_(Source(p)!vars)
<1>1. WorksOf(p)' = WorksOf(p) /\ offered' = offered
  BY DEF Check, Lock, Tick, Top, ReadAlive, ReadDisabled, ReadConnected, NoPools, Decide,
         ExpirePrevious, Bury, onDeclaredDead, CheckDone, FallAsleep, ResetPoolsChanged,
         Evaluate, TimeOut, WorksOf, WorkOf
<1>2. CASE fresh' = fresh
  BY <1>1, <1>2, NothingOffered
<1>3. CASE ExpirePrevious /\ p = prev_pool
  <2>1. fresh'[p] = FALSE
    BY <1>3 DEF IInv, TypeOK, ExpirePrevious, FreshAfterExpiry
  <2>2. Source(p)!Expire
    BY <1>1, <2>1, Zenon DEF Source!Expire, WorksOf
  <2> QED
    BY <2>2, Zenon DEF Source!Next
<1>4. CASE ExpirePrevious /\ p # prev_pool
  <2>1. fresh'[p] = fresh[p]
    BY <1>4 DEF IInv, TypeOK, ExpirePrevious
  <2> QED
    BY <1>1, <2>1, NothingOffered
<1>5. fresh' = fresh \/ ExpirePrevious
  BY DEF Check, Lock, Tick, Top, ReadAlive, ReadDisabled, ReadConnected, NoPools, Decide,
         Bury, onDeclaredDead, CheckDone, FallAsleep, ResetPoolsChanged, Evaluate, TimeOut
<1> QED
  BY <1>2, <1>3, <1>4, <1>5

(* What a GPU thread does to the work it has is, for the pool of its new   *)
(* work, taking one of the offered job, and for all others, dropping theirs. *)
LEMMA GpuStepOfSource ==
    ASSUME IInv, NEW p \in Pools, NEW g \in Gpus, CopyActive(g) \/ Gpu(g)
    PROVE  [Source(p)!Next]_(Source(p)!vars)
<1>1. offered' = offered /\ fresh' = fresh
  BY DEF CopyActive, Gpu, Fetch, CheckPredicate, Wait, EndGpu
<1>2. NoPool \notin Pools
  BY DEF NoPool, Pools
<1>3. CASE work' = work
  <2>1. WorksOf(p)' = WorksOf(p)
    BY <1>3 DEF WorksOf, WorkOf
  <2> QED
    BY <1>1, <2>1, NothingOffered
<1>4. CASE work' = [work EXCEPT ![g] = NoWork]
  <2>1. WorksOf(p)' = [WorksOf(p) EXCEPT ![g] = 0]
    BY <1>2, <1>4 DEF IInv, TypeOK, NoWork, WorksOf, WorkOf
  <2>2. Source(p)!Drop(g)
    BY <1>1, <2>1, Zenon DEF Source!Drop, WorksOf
  <2> QED
    BY <2>2, Zenon DEF Source!Next
<1>5. CASE /\ Fetch(g) /\ MayHandOut(target[g])
           /\ work' = [work EXCEPT ![g] = [pool |-> target[g], id |-> offered[target[g]]]]
  <2>1. target[g] \in Pools
    BY <1>5 DEF IInv, ThreadInv, Fetch
  <2>2. CASE target[g] = p
    <3>1. WorksOf(p)' = [WorksOf(p) EXCEPT ![g] = offered[p]]
      BY <1>5, <2>2 DEF IInv, TypeOK, WorksOf, WorkOf
    <3>2. offered[p] > 0
      BY <1>5, <2>2 DEF IInv, QueueInv, MayHandOut
    <3>3. Source(p)!Take(g)
      BY <1>1, <3>1, <3>2, Zenon DEF Source!Take, WorksOf
    <3> QED
      BY <3>3, Zenon DEF Source!Next
  <2>3. CASE target[g] # p
    <3>1. WorksOf(p)' = [WorksOf(p) EXCEPT ![g] = 0]
      BY <1>5, <2>3 DEF IInv, TypeOK, WorksOf, WorkOf
    <3>2. Source(p)!Drop(g)
      BY <1>1, <3>1, Zenon DEF Source!Drop, WorksOf
    <3> QED
      BY <3>2, Zenon DEF Source!Next
  <2> QED
    BY <2>2, <2>3
<1>6. \/ work' = work \/ work' = [work EXCEPT ![g] = NoWork]
      \/ /\ Fetch(g) /\ MayHandOut(target[g])
         /\ work' = [work EXCEPT ![g] = [pool |-> target[g], id |-> offered[target[g]]]]
  BY DEF CopyActive, Gpu, Fetch, CheckPredicate, Wait, EndGpu
<1> QED
  BY <1>3, <1>4, <1>5, <1>6

LEMMA OtherStepOfSource ==
    ASSUME NEW p \in Pools,
           (\E q \in Pools : AddPool(q)) \/ App \/ Close \/ UNCHANGED vars
    PROVE  [Source(p)!Next]_(Source(p)!vars)
<1>1. offered' = offered /\ fresh' = fresh /\ work' = work
  BY DEF AddPool, MakePool, setOnStateChangeCv, ListPool, App, NotifyPoolsChange, Destroy,
         NotifyShutdown, Closed, Close, vars, poolVars, queueVars, gpuVars
<1>2. WorksOf(p)' = WorksOf(p)
  BY <1>1 DEF WorksOf, WorkOf
<1> QED
  BY <1>1, <1>2, NothingOffered

(* Whatever pools the switcher gives up, buries and returns to, a GPU      *)
(* thread is served by each of them as WorkSource says: with works of one  *)
(* job at a time, newer than all jobs before, that expire for good when    *)
(* the queue goes over to a newer one or when the switcher leaves the pool *)
(* (pool/PoolSwitcher.cpp, pool/WorkQueue.h).                              *)
THEOREM EachPoolIsSource == Spec => PoolsAreSources
<1>1. Init => \A p \in Pools : Source(p)!Init
  <2> SUFFICES ASSUME Init, NEW p \in Pools PROVE Source(p)!Init
    OBVIOUS
  <2>1. offered[p] = 0 /\ fresh[p] \in BOOLEAN
    BY DEF Init
  <2>2. WorksOf(p) = [g \in Gpus |-> 0]
    BY DEF Init, NoWork, WorksOf, WorkOf
  <2> QED
    BY <2>1, <2>2, Zenon DEF Source!Init, WorksOf
<1>2. IInv /\ [Next]_vars => [\A p \in Pools : [Source(p)!Next]_(Source(p)!vars)]_vars
  <2> SUFFICES ASSUME IInv, [Next]_vars, NEW p \in Pools
               PROVE  [Source(p)!Next]_(Source(p)!vars)
    OBVIOUS
  <2>1. ASSUME NEW q \in Pools, Network(q) \/ Io(q) \/ Refill(q) PROVE [Source(p)!Next]_(Source(p)!vars)
    BY <2>1, JobStepOfSource
  <2>2. CASE Check \/ Lock \/ Tick
    BY <2>2, CheckStepOfSource
  <2>3. ASSUME NEW g \in Gpus, CopyActive(g) \/ Gpu(g)
        PROVE  [Source(p)!Next]_(Source(p)!vars)
    BY <2>3, GpuStepOfSource
  <2>4. CASE (\E q \in Pools : AddPool(q)) \/ App \/ Close \/ UNCHANGED vars
    BY <2>4, OtherStepOfSource
  <2> QED
    BY <2>1, <2>2, <2>3, <2>4 DEF Next
<1> QED
  BY <1>1, <1>2, InductiveInvariant, PTL DEF Spec, PoolsAreSources
=============================================================================
