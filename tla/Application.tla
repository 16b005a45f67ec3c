---------------------------- MODULE Application ----------------------------
(***************************************************************************)
(* The life of an Application (application/Application.cpp) inside of main *)
(* (application/Main.cpp): main loads a configuration, the API server is   *)
(* started, a profile launched, main waits for a signal and everything is  *)
(* destroyed again, while the API server answers requests on its thread,   *)
(* pools report shares on theirs and signals come to any.                  *)
(*                                                                         *)
(* PoolSwitcher, EthashAlgo, CuckatooMiner and BaseIO say what goes on in  *)
(* the parts. Here an algorithm is known by its devices and by its pools,  *)
(* its destructor may never return (TryGetWorkReturns is violated), and    *)
(* its constructor may throw.                                              *)
(***************************************************************************)
EXTENDS CommandLine, Configuration, ShutdownState, ApiServer

CONSTANTS
    Scenarios,  \* how the program is started, and what happens to it
    MaxPools    \* of a switcher

ASSUME ApplicationAssumption ==
    /\ MaxSignals \in Nat
    /\ MaxPools \in Nat
    /\ IsText(TutorialConfig)
    /\ \A s \in Scenarios :
          /\ s.args \in Seq([letters : Seq(STRING), name : STRING, value : Seq(STRING)])
          /\ s.signals \in 0 .. MaxSignals
          /\ \A path \in DOMAIN s.files : IsText(s.files[path])
          /\ \A c \in Clients : s.script[c] \in Seq(Range(s.script[c]))

VARIABLES
    scenario,       \* of Scenarios
    pc,             \* where main is
    config,         \* the configuration that was loaded, None before
    todo,           \* the names of implementations still to be launched
    poolSwitchers,  \* the number of pools of each switcher, by the powType
    devicesInUse,   \* what each device is initialized with, None if it is not
    algorithms,     \* [implName, powType, devices] in the order of their launch
    total, interval, listeners, report  \* see Statistics

(* The nodes of the records: of a switcher, and of each pool, whose thread *)
(* reports to it.                                                          *)
PowTypes == {AlgoImpls[i].powType : i \in DOMAIN AlgoImpls}
RecordNodes == PowTypes \X (0 .. MaxPools)
PoolNodes == PowTypes \X (1 .. MaxPools)
NodeOfPool == [n \in PoolNodes |-> n]
SwitcherNode(powType) == <<powType, 0>>

Stats == INSTANCE Statistics WITH
    Nodes     <- RecordNodes,
    Reporters <- PoolNodes,
    NodeOf    <- NodeOfPool

NoSwitchers == [p \in {} |-> 0]

memberVars == <<poolSwitchers, devicesInUse, algorithms>>
statVars   == <<total, interval, listeners, report>>
appVars    == <<scenario, pc, config, todo, memberVars>>
vars       == <<appVars, apiVars, statVars, shutdownVars>>

(* A scenario is the arguments, the files that can be read and the paths   *)
(* that can be written, the number of signals and of shares of a pool to   *)
(* come, and the messages that each client sends to the API.               *)
profile == getStartProfile(config)

Init ==
    /\ scenario \in Scenarios
    /\ pc = "start"
    /\ config = None
    /\ todo = {}
    /\ poolSwitchers = NoSwitchers
    /\ devicesInUse = [d \in Devices |-> None]
    /\ algorithms = <<>>
    /\ ApiInit
    /\ Stats!StatInit
    /\ ShutdownInit

(* Main does nothing while a handler of a signal runs on its thread.       *)
MainAt(place) == pc = place /\ Free("main")
MainGoes(place) == pc' = place /\ UNCHANGED <<scenario, config>>
OthersStay == UNCHANGED <<apiVars, statVars, shutdownVars>>

-----------------------------------------------------------------------------
(* The arguments. What only prints something is left out.                  *)

GivenArguments == copyArgsAndExpandSingleDashCombinedArgs(scenario.args)
RunsTutorial == hasArg("--run-tutorial", GivenArguments)

Arguments == IF RunsTutorial THEN commandRunTutorial(GivenArguments) ELSE GivenArguments

FilesToRead ==
    IF RunsTutorial THEN FilesWithTutorial(scenario.files, scenario.writable)
    ELSE scenario.files

LoadedConfig ==
    LET path == argValueAfterEqualsSign("--config", Arguments)
    IN  IF path = None THEN None ELSE loadConfig(FilesToRead, Head(path))

(* exit(1)                                                                 *)
RejectArguments ==
    /\ MainAt("start") /\ reportUnsupportedCommands(GivenArguments)
    /\ ProcessEnds
    /\ UNCHANGED <<appVars, apiVars, statVars>>

(* The state for the shutdown is made, and then the handlers registered.   *)
RegisterHandlers ==
    /\ MainAt("start") /\ ~reportUnsupportedCommands(GivenArguments)
    /\ MainGoes("load")
    /\ UNCHANGED <<todo, memberVars>> /\ OthersStay

LoadConfig ==
    /\ MainAt("load")
    /\ config' = LoadedConfig
    /\ pc' = IF config' = None THEN "confirm" ELSE "construct"
    /\ UNCHANGED <<scenario, todo, memberVars>> /\ OthersStay

-----------------------------------------------------------------------------
(* The constructor. The server may find its port in use.                   *)

Construct ==
    /\ MainAt("construct")
    /\ LaunchServer
    /\ MainGoes(IF profile = None THEN "enterWait" ELSE "launch")
    /\ UNCHANGED <<todo, memberVars, statVars, shutdownVars>>

(* launchProfile keeps the lock on poolSwitchers until it returns.         *)
LockPoolSwitchers ==
    /\ MainAt("launch") /\ api # "pools"
    /\ todo' = getUniqueAlgoImplNamesForProfile(profile)
    /\ MainGoes("next")
    /\ UNCHANGED memberVars /\ OthersStay

HasSwitchersLocked == pc \in {"next", "assign", "make"}

Current == FirstOf(todo)
Skip == todo' = todo \ {Current} /\ MainGoes("next")

SkipUnknown ==
    /\ MainAt("next") /\ todo # {}
    /\ powTypeOfAlgoImpl(Current) = Empty
    /\ Skip
    /\ UNCHANGED memberVars /\ OthersStay

(* As in the constructor of DeviceRecords.                                 *)
ConnectRecordsReversed(powType, added) ==
    listeners' = [n \in DOMAIN listeners |->
        IF n = SwitcherNode(powType) THEN listeners[n] \cup {<<powType, i>> : i \in added}
        ELSE listeners[n]]

(* tryAddPool makes the records of a pool report to those of its switcher. *)
ConnectRecords(powType, added) ==
    listeners' = [n \in DOMAIN listeners |->
        IF n[1] = powType /\ n[2] \in added THEN {SwitcherNode(powType)} ELSE listeners[n]]

(* The pools are added to a switcher that is there already, too.           *)
AddPools ==
    /\ MainAt("next") /\ todo # {}
    /\ LET powType == powTypeOfAlgoImpl(Current)
           before  == IF powType \in DOMAIN poolSwitchers THEN poolSwitchers[powType] ELSE 0
           after   == before + Cardinality(PoolsToAdd(config, powType))
       IN  /\ powType # Empty
           /\ poolSwitchers' = [p \in DOMAIN poolSwitchers \cup {powType} |->
                  IF p = powType THEN after ELSE poolSwitchers[p]]
           /\ ConnectRecords(powType, before + 1 .. after)
           /\ IF after = 0 THEN Skip ELSE MainGoes("assign") /\ UNCHANGED todo
    /\ UNCHANGED <<devicesInUse, algorithms, total, interval, report, apiVars, shutdownVars>>

Assigned == prepareAssignedDevices(config, profile, Current, devicesInUse)

AssignDevices ==
    /\ MainAt("assign") /\ api # "gpus"
    /\ devicesInUse' = [d \in Devices |->
           IF d \in Assigned THEN DeviceWith(config, Current, getTaskForDevice(profile, d))
           ELSE devicesInUse[d]]
    /\ IF Assigned = {} THEN Skip ELSE MainGoes("make") /\ UNCHANGED todo
    /\ UNCHANGED <<poolSwitchers, algorithms>> /\ OthersStay

(* The devices the implementation being made was given.                    *)
GivenDevices ==
    {d \in Devices : devicesInUse[d] # None /\ devicesInUse[d].implName = Current}

MakeAlgo ==
    /\ MainAt("make")
    /\ algorithms' = Append(algorithms,
           [implName |-> Current, powType |-> powTypeOfAlgoImpl(Current),
            devices |-> GivenDevices])
    /\ Skip
    /\ UNCHANGED <<poolSwitchers, devicesInUse>> /\ OthersStay

(* The exception destroys what there is of the application, and is caught. *)
MakeAlgoThrows ==
    /\ MainAt("make")
    /\ todo' = {}
    /\ MainGoes("closeApi")
    /\ UNCHANGED memberVars /\ OthersStay

Launched ==
    /\ MainAt("next") /\ todo = {}
    /\ MainGoes("enterWait")
    /\ UNCHANGED <<todo, memberVars>> /\ OthersStay

-----------------------------------------------------------------------------
(* waitUntilShutdownRequested.                                             *)

WaitOrGoOn ==
    /\ MainAt("test")
    /\ ReleaseMut
    /\ MainGoes(IF shutdownRequested THEN "closeApi" ELSE "asleep")
    /\ UNCHANGED <<todo, memberVars, apiVars, statVars>>

EnterOrReenterWait ==
    /\ MainAt("enterWait") \/ MainAt("woken")
    /\ TakeMut
    /\ MainGoes("test")
    /\ UNCHANGED <<todo, memberVars, apiVars, statVars>>

-----------------------------------------------------------------------------
(* The destructor: the members in the reverse of their order.              *)

CloseApi ==
    /\ MainAt("closeApi") /\ Free("api")
    /\ StopServer
    /\ MainGoes("closeAlgorithms")
    /\ UNCHANGED <<todo, memberVars, statVars, shutdownVars>>

(* An algorithm joins its threads.                                         *)
CloseAlgorithm ==
    /\ MainAt("closeAlgorithms") /\ algorithms # <<>> /\ Free("algorithm")
    /\ algorithms' = Tail(algorithms)
    /\ MainGoes("closeAlgorithms")
    /\ UNCHANGED <<todo, poolSwitchers, devicesInUse>> /\ OthersStay

(* A pool joins the thread that reports.                                   *)
CloseSwitchers ==
    /\ MainAt("closeAlgorithms") /\ algorithms = <<>>
    /\ \A n \in PoolNodes : ~Stats!Reporting(n)
    /\ poolSwitchers' = NoSwitchers
    /\ devicesInUse' = [d \in Devices |-> None]
    /\ MainGoes("confirm")
    /\ UNCHANGED <<todo, algorithms>> /\ OthersStay

(* confirmAppHasClosed.                                                    *)
EnterConfirm ==
    /\ MainAt("confirm")
    /\ TakeMut
    /\ MainGoes("confirming")
    /\ UNCHANGED <<todo, memberVars, apiVars, statVars>>

Confirm ==
    /\ MainAt("confirming")
    /\ SetApplicationClosed
    /\ MainGoes("notify")
    /\ UNCHANGED <<todo, memberVars, apiVars, statVars>>

Notify ==
    /\ MainAt("notify")
    /\ NotifyOneTask
    /\ MainGoes("reset")
    /\ UNCHANGED <<todo, memberVars, apiVars, statVars>>

(* shutdownState.reset() makes the pointer null, and then destroys.        *)
Reset ==
    /\ MainAt("reset")
    /\ MainGoes("join")
    /\ UNCHANGED <<todo, memberVars>> /\ OthersStay

Return ==
    /\ MainAt("join") /\ StoredTaskIsOver
    /\ ProcessEnds
    /\ UNCHANGED <<appVars, apiVars, statVars>>

-----------------------------------------------------------------------------
(* The thread of the API server: getGpuStats and getPoolStats each keep a  *)
(* lock for as long as they read. That on devicesInUse can be had at once, *)
(* as main takes it for a single step.                                     *)

MessageOf(c) == scenario.script[c][cxn[c].taken + 1]
IsReading == api \in {"gpus", "pools"}

ApiStep ==
    /\ Free("api")
    /\ \/ \E c \in Clients :
             \/ Accept(c) \/ ReadEof(c) \/ WriteEnds(c)
             \/ HasNext(c) /\ Receive(c, MessageOf(c))
       \/ ~HasSwitchersLocked /\ BeginPoolStats
       \/ IsReading /\ EndStats(MessageOf(serving))
    /\ UNCHANGED <<appVars, statVars, shutdownVars>>

(* A line with a NUL byte fails an assertion of asyncRead, in a build that *)
(* has assertions. In others it is what JSON makes of the line.            *)
AssertionFails ==
    /\ Free("api") /\ api = "idle"
    /\ \E c \in Clients : HasNext(c) /\ MessageOf(c).nul
    /\ Terminate
    /\ UNCHANGED <<appVars, apiVars, statVars>>

(* The client decides when it reads, and so when the rest of an answer can *)
(* be sent.                                                                *)
ClientStep ==
    /\ \E c \in Clients :
          /\ scenario.script[c] # <<>>
          /\ \/ Connect(c) \/ HangUp(c)
             \/ cxn[c].asked < Len(scenario.script[c]) /\ Ask(c)
             \/ Free("api") /\ SendRest(c)
    /\ UNCHANGED <<appVars, statVars, shutdownVars>>

(* The threads of the pools, and what else resets the interval of one.     *)
PoolExists(n) ==
    n[1] \in DOMAIN poolSwitchers /\ n[2] <= poolSwitchers[n[1]]

PoolStep ==
    /\ \E n \in PoolNodes :
          /\ PoolExists(n)
          /\ \/ total[n] < scenario.shares /\ Stats!reportShare(n)
             \/ Stats!ChangeContent(n)
             \/ Stats!ReadListeners(n)
             \/ interval[n] # 0 /\ Stats!resetInterval(n)
    /\ UNCHANGED <<appVars, apiVars, shutdownVars>>

(* A signal comes to a thread there is.                                    *)
Exists(t) ==
    /\ t = "api" => api # "off"
    /\ t = "algorithm" => algorithms # <<>>
    /\ t = "driver" => config # None

Signal(t) ==
    /\ shutdownTask < scenario.signals /\ Exists(t)
    /\ CASE pc = "start" -> DefaultAction
         [] pc = "join"  -> NullIsDereferenced
         [] OTHER        -> launchShutdownTask(t)
    /\ UNCHANGED <<appVars, apiVars, statVars>>

(* The notification comes to main only while it sleeps.                    *)
TaskRequestsShutdown(n) ==
    /\ RequestShutdown(n)
    /\ pc' = IF pc = "asleep" THEN "woken" ELSE pc
    /\ UNCHANGED <<scenario, config, todo, memberVars, apiVars, statVars>>

OthersGoOn == UNCHANGED <<appVars, apiVars, statVars>>
TaskTimesOut(n) == TimeOut(n) /\ OthersGoOn
TaskFinishes(n) == TaskEnds(n) /\ OthersGoOn
HandlerEnds(t) == HandlerReturns(t) /\ OthersGoOn

-----------------------------------------------------------------------------
Launch ==
    \/ Construct \/ LockPoolSwitchers \/ SkipUnknown \/ AddPools
    \/ AssignDevices \/ MakeAlgo \/ MakeAlgoThrows \/ Launched

MainStep ==
    \/ RejectArguments \/ RegisterHandlers \/ LoadConfig
    \/ EnterOrReenterWait \/ WaitOrGoOn
    \/ CloseApi \/ CloseSwitchers
    \/ EnterConfirm \/ Confirm \/ Notify \/ Reset \/ Return

TaskStep(n) == TaskRequestsShutdown(n) \/ TaskTimesOut(n) \/ TaskFinishes(n)

Next ==
    /\ outcome = "running"
    /\ \/ Launch
       \/ MainStep
       \/ CloseAlgorithm
       \/ ApiStep
       \/ AssertionFails
       \/ ClientStep
       \/ PoolStep
       \/ \E t \in Threads : Signal(t) \/ HandlerEnds(t)
       \/ \E n \in Signals : TaskStep(n)

Spec == Init /\ [][Next]_vars

(* The threads run, and the ten seconds of a task end. Nothing is assumed   *)
(* of the launch, where drivers are called, and of the destructor of an    *)
(* algorithm, which may never return.                                      *)
WhileRunning(A) == outcome = "running" /\ A

Fairness ==
    /\ WF_vars(WhileRunning(MainStep))
    /\ \A t \in Threads : WF_vars(WhileRunning(HandlerEnds(t)))
    /\ \A n \in Signals : WF_vars(WhileRunning(TaskStep(n)))
    /\ WF_vars(WhileRunning(ApiStep))

FairSpec == Spec /\ Fairness
-----------------------------------------------------------------------------
Places ==
    {"start", "load", "construct", "launch", "next", "assign", "make", "enterWait", "test",
     "asleep", "woken", "closeApi", "closeAlgorithms", "confirm", "confirming", "notify",
     "reset", "join"}
TypeOK ==
    /\ ShutdownTypeOK
    /\ scenario \in Scenarios
    /\ pc \in Places
    /\ DOMAIN devicesInUse = Devices
    /\ ApiTypeOK

(* Algorithms do not share a device, and each device that an algorithm has *)
(* is initialized for it.                                                  *)
DevicesAreExclusive ==
    \A i \in DOMAIN algorithms : \A d \in algorithms[i].devices :
        /\ devicesInUse[d] # None
        /\ devicesInUse[d].implName = algorithms[i].implName
        /\ \A j \in DOMAIN algorithms \ {i} : d \notin algorithms[j].devices

(* No field that is absent or 0 gets past the defaults and the checks to a *)
(* GPU, where it would be a loop that does not advance, and the API listens *)
(* at a port there is.                                                     *)
SettingsAreUsable ==
    /\ \A d \in Devices : devicesInUse[d] # None =>
          AlgoSettingsAreValid(devicesInUse[d].settings)
    /\ api # "off" => Between(config.apiPort, 1, 65535)

(* An algorithm calls into its switcher until its destructor has returned, *)
(* and is never made with one that has no pools.                           *)
AlgorithmsHavePools ==
    \A i \in DOMAIN algorithms :
        /\ algorithms[i].powType \in DOMAIN poolSwitchers
        /\ poolSwitchers[algorithms[i].powType] > 0

(* Requests do not read what main is changing or has destroyed.            *)
RequestsAreSafe ==
    /\ api = "pools" => ~HasSwitchersLocked
    /\ api # "off" => pc \notin {"start", "load", "construct", "closeAlgorithms", "confirm",
                                "confirming", "notify", "reset", "join"}

(* Main has the mutex where it changes or tests the flags, and no task     *)
(* ends before the application is closed: it ends the process instead.     *)
TasksOutlastApplication ==
    /\ mut = "main" <=> pc \in {"test", "confirming"}
    /\ applicationClosed => pc \in {"notify", "reset", "join"}
    /\ \A n \in Signals : Over(n) => applicationClosed

(* What keeps these invariant. A configuration is the one that was checked, *)
(* and what is in use belongs to the names that have been taken from todo, *)
(* or to the one being made.                                               *)
BeforeLaunch == pc \in {"start", "load", "construct", "launch"}
LaunchInv ==
    /\ todo \subseteq ImplNames
    /\ algorithms \in Seq([implName : ImplNames, powType : PowTypes, devices : SUBSET Devices])
    /\ poolSwitchers \in [DOMAIN poolSwitchers -> Nat] /\ DOMAIN poolSwitchers \subseteq PowTypes
    /\ config # None => IsConfig(config)
    /\ config = None => pc \in {"start", "load", "confirm", "confirming", "notify", "reset", "join"}
    /\ BeforeLaunch =>
          algorithms = <<>> /\ poolSwitchers = NoSwitchers /\ \A d \in Devices : devicesInUse[d] = None
    /\ pc \in {"assign", "make"} =>
          /\ Current \in todo
          /\ powTypeOfAlgoImpl(Current) \in DOMAIN poolSwitchers
          /\ poolSwitchers[powTypeOfAlgoImpl(Current)] > 0
    /\ \A i \in DOMAIN algorithms : algorithms[i].implName \notin todo
    /\ \A d \in Devices : devicesInUse[d] # None =>
          devicesInUse[d].implName \notin todo \ (IF pc = "make" THEN {Current} ELSE {})

(* Connections, and the request that is being served on one.               *)
AllMessages == UNION {Range(s.script[c]) : s \in Scenarios, c \in Clients}
Answers == {[id |-> m.id, outcome |-> Outcome(m)] : m \in AllMessages}
Connections ==
    [link : {"none", "calling", "open", "closing", "closed"}, reading : BOOLEAN,
     asked : Nat, taken : Nat, writes : Nat, rests : Nat, whole : BOOLEAN,
     got : Seq(Answers)]
IsConnection(c, r) ==
    /\ r \in Connections
    /\ r.link \in {"none", "calling"} => r = [NewCxn EXCEPT !.link = r.link]
    /\ r.taken <= r.asked /\ r.asked <= Len(scenario.script[c])
    /\ r.rests <= r.writes
RequestsInv ==
    /\ DOMAIN cxn = Clients
    /\ cxn \in [Clients -> Connections]
    /\ \A c \in Clients : IsConnection(c, cxn[c])
    /\ serving # NoClient => cxn[serving].taken < cxn[serving].asked

(* The records. A pool reports to its node and then to its switcher's, and *)
(* one whose records are not connected yet has none.                       *)
Stages(n) ==
    {Stats!Idle} \cup
        UNION {{[toCall |-> {m}, toRead |-> {}], [toCall |-> {}, toRead |-> {m}]} :
                   m \in {n, SwitcherNode(n[1])}}
RecordsInv ==
    /\ total \in [RecordNodes -> Nat]
    /\ DOMAIN report = PoolNodes /\ DOMAIN listeners = RecordNodes
    /\ \A p \in PowTypes : listeners[SwitcherNode(p)] = {}
    /\ \A n \in PoolNodes :
          /\ listeners[n] \in {{}, {SwitcherNode(n[1])}}
          /\ PoolExists(n) => listeners[n] # {}
          /\ listeners[n] = {} => total[n] = 0 /\ report[n] = Stats!Idle
          /\ report[n] \in Stages(n)

AppInv ==
    /\ TypeOK
    /\ DevicesAreExclusive
    /\ SettingsAreUsable
    /\ AlgorithmsHavePools
    /\ RequestsAreSafe
    /\ TasksOutlastApplication
    /\ LaunchInv
    /\ RequestsInv
    /\ RecordsInv

(* The tasks a device may have been given according to config.proto: those *)
(* for its index, and otherwise those for all devices that "have no task   *)
(* assigned to them in any other way".                                     *)
DocumentedTasks(d) ==
    LET mine == {t \in Range(profile.tasks) : t.on = "index" /\ t.device = d}
    IN  IF mine # {} THEN mine ELSE {t \in Range(profile.tasks) : t.on = "remaining"}

(* A task can run if its implementation is known, has a pool it can mine   *)
(* on and finds its settings.                                              *)
CanRun(task) ==
    /\ HasSettings(config, task, task.implName)
    /\ \E a \in Range(AlgoImpls), p \in Range(config.pools), i \in Range(PoolImpls) :
          /\ SameName(a.name, task.implName)
          /\ p.powType = a.powType /\ SameName(i.powType, a.powType)
          /\ p.protocol = Empty \/ SameName(p.protocol, i.protocol)

MinesFor(d, task) ==
    \E i \in DOMAIN algorithms :
        /\ d \in algorithms[i].devices
        /\ algorithms[i].implName = task.implName
        /\ devicesInUse[d] = DeviceWith(config, task.implName, task)

(* With --run-tutorial its configuration is used in place of any other     *)
(* (application/CLI.h:52), unless a --config comes without a path.         *)
TutorialIsRun ==
    RunsTutorial /\ Arg("--config", None) \notin Range(GivenArguments) =>
        config = loadConfig(FilesToRead, TutorialPath)

(* Once the profile is launched every device mines for its task, unless    *)
(* this cannot run, and a device without a task is not in use.             *)
LaunchedAsDocumented ==
    /\ pc \in {"construct", "confirm"} => TutorialIsRun
    /\ pc \in {"enterWait", "asleep"} /\ profile # None =>
          \A d \in Devices :
              \/ \E task \in DocumentedTasks(d) : MinesFor(d, task)
              \/ /\ devicesInUse[d] = None
                 /\ DocumentedTasks(d) # {} => \E task \in DocumentedTasks(d) : ~CanRun(task)

(* A signal ends the process, whatever the application hangs in, unless    *)
(* main is interrupted by another one while it has the mutex: its handler  *)
(* waits for the first task, which waits for the mutex.                    *)
SignalEndsProcess ==
    (shutdownTask # 0) ~> (outcome # "running" \/ HandlerBlocksTask)

(* A client receives the answers to the messages of its that were handled, *)
(* in their order, each once and none of another connection, also when a   *)
(* request waits for a lock in between, up to the first answer the socket  *)
(* does not take at once (BaseIO.cpp:57), and none is missing before that. *)
AnswersInOrder ==
    \A c \in Clients :
        LET handled == SubSeq(scenario.script[c], 1, cxn[c].taken)
            answers == FlattenSeq([i \in DOMAIN handled |-> AnswerTo(handled[i])])
        IN  /\ IsPrefix(cxn[c].got, answers)
            /\ cxn[c].link = "open" /\ cxn[c].whole => cxn[c].got = answers

(* What a client has sent is handled: the server gives a connection up     *)
(* only after a line that is no message. A launch that does not end keeps  *)
(* the pools locked, and a request for their statistics with them.         *)
RequestsAreHandled ==
    \A c \in Clients :
        (cxn[c].link = "open" /\ cxn[c].taken < cxn[c].asked) ~>
            \/ cxn[c].taken = cxn[c].asked
            \/ cxn[c].link = "closing" \/ api = "off"
            \/ \E i \in 1 .. cxn[c].taken : KindOf(scenario.script[c][i]) = "none"
            \/ api = "wait" /\ HasSwitchersLocked
            \/ outcome # "running" \/ HandlerBlocksTask

(* The records of a switcher are those of its pools: see Statistics.       *)
RecordsAddUp == Stats!ParentsAddUp
=============================================================================
