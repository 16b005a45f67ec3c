---------------------------- MODULE Configuration ----------------------------
(***************************************************************************)
(* How a configuration is loaded, and what it means: config/Config.cpp and *)
(* util/ConfigUtils.cpp, and the lookups in the registry (application/     *)
(* RegistryImpl.cpp) that launching a profile depends on. They read only.  *)
(*                                                                         *)
(* A name is a string, and ToLower says which names are the same but for   *)
(* their case. An optional field is None or a sequence of its value. The   *)
(* fields are of 32 bits, so no upper bound of 32 bits is checked.         *)
(***************************************************************************)
EXTENDS Naturals, SequencesExt

CONSTANTS
    Devices,    \* the indices of the devices the driver reports
    AlgoImpls,  \* _algoWithName in its order: [name, powType]
    PoolImpls,  \* _poolWithName in its order: [name, powType, protocol]
    ImplOrder,  \* the names that configurations use, in the order of std::set
    ToLower     \* a name in lower case

(* The empty string: no name.                                              *)
Empty == ""
SameName(a, b) == ToLower[a] = ToLower[b]

(* No implementation is registered twice (application/Registry.cpp:20).    *)
ASSUME ConfigurationAssumption ==
    /\ AlgoImpls \in Seq([name : STRING, powType : STRING])
    /\ PoolImpls \in Seq([name : STRING, powType : STRING, protocol : STRING])
    /\ \A i \in DOMAIN AlgoImpls : AlgoImpls[i].powType # Empty
    /\ \A i \in DOMAIN PoolImpls : PoolImpls[i].name # Empty
    /\ \A i, j \in DOMAIN AlgoImpls : SameName(AlgoImpls[i].name, AlgoImpls[j].name) => i = j
    /\ ImplOrder \in Seq(STRING)

(* The first member of s that passes the test, or None.                    *)
None == <<>>
FirstThat(s, Test(_)) ==
    LET i == SelectInSeq(s, Test) IN IF i = 0 THEN None ELSE s[i]

-----------------------------------------------------------------------------
(* The registry. No pool that is registered has an alias for its protocol. *)

powTypeOfAlgoImpl(implName) ==
    LET entry == FirstThat(AlgoImpls, LAMBDA e : SameName(e.name, implName))
    IN  IF entry = None THEN Empty ELSE entry.powType

poolImplForProtocolAndPowType(protocol, powType) ==
    LET Fits(e) == /\ SameName(e.powType, powType)
                   /\ protocol = Empty \/ SameName(e.protocol, protocol)
        entry == FirstThat(PoolImpls, Fits)
    IN  IF entry = None THEN Empty ELSE entry.name

-----------------------------------------------------------------------------
(* Loading. What is read from a file is wellFormed if protobuf can parse   *)
(* it, with all the required fields.                                       *)

DefaultTo(field, value) == IF field = None THEN <<value>> ELSE field

DefaultIntensity == 1048576
AlgoSettingsWithDefaults(settings) ==
    [settings EXCEPT !.numThreads   = DefaultTo(@, 1),
                     !.workSize     = DefaultTo(@, 128),
                     !.rawIntensity = DefaultTo(@, DefaultIntensity)]

fillInDefaultValuesIfNeeded(config) ==
    LET Filled(dp) == [dp EXCEPT !.settings =
                          [n \in DOMAIN dp.settings |-> AlgoSettingsWithDefaults(dp.settings[n])]]
    IN  [config EXCEPT
            !.apiPort = DefaultTo(@, 4028),
            !.deviceProfiles = [i \in DOMAIN config.deviceProfiles |->
                                   Filled(config.deviceProfiles[i])]]

(* A field that is absent reads as 0, except in the limit of the power.    *)
Between(field, low, high) == (IF field = None THEN 0 ELSE Head(field)) \in low .. high
AtLeastOne(field) == field # None /\ Head(field) >= 1

AlgoSettingsAreValid(settings) ==
    /\ settings.powerLimitPercent # None => Between(settings.powerLimitPercent, 0, 200)
    /\ AtLeastOne(settings.numThreads)
    /\ AtLeastOne(settings.workSize)
    /\ AtLeastOne(settings.rawIntensity)

validateConfig(config) ==
    /\ Between(config.apiPort, 1, 65535)
    /\ \A dp \in Range(config.deviceProfiles) :
          \A n \in DOMAIN dp.settings : AlgoSettingsAreValid(dp.settings[n])

(* What there is in a file: optional fields, repeated ones and a map.      *)
ImplNames == Range(ImplOrder)
AlgoSettings ==
    [numThreads : Seq(Nat), workSize : Seq(Nat), rawIntensity : Seq(Nat),
     powerLimitPercent : Seq(Nat)]
TaskFields ==
    [on : {"index", "remaining", "alias"}, device : Nat, implName : ImplNames,
     deviceProfile : STRING]
IsDeviceProfile(p) ==
    /\ p \in [name : STRING, settings : [DOMAIN p.settings -> AlgoSettings]]
    /\ DOMAIN p.settings \subseteq ImplNames
IsText(text) ==
    /\ text \in [wellFormed : BOOLEAN, apiPort : Seq(Nat), startProfileName : Seq(STRING),
                 profiles : Seq([name : STRING, tasks : Seq(TaskFields)]),
                 deviceProfiles : Seq(Range(text.deviceProfiles)),
                 pools : Seq([powType : STRING, protocol : STRING])]
    /\ \A p \in Range(text.deviceProfiles) : IsDeviceProfile(p)

parseConfig(text) ==
    LET config == fillInDefaultValuesIfNeeded(text)
    IN  IF text.wellFormed /\ validateConfig(config) THEN config ELSE None

IsConfig(config) == IsText(config) /\ validateConfig(config)

loadConfig(files, path) ==
    IF path \in DOMAIN files THEN parseConfig(files[path]) ELSE None

-----------------------------------------------------------------------------
(* The configuration. A task is for one device, for all that remain, or,   *)
(* like one for an alias, for none.                                        *)

getStartProfile(config) ==
    FirstThat(config.profiles, LAMBDA p : <<p.name>> = config.startProfileName)

getDeviceProfile(config, name) ==
    FirstThat(config.deviceProfiles, LAMBDA p : p.name = name)

(* getAlgoSettings: the keys of the map are compared as they are written.  *)
HasSettings(config, task, implName) ==
    LET profile == getDeviceProfile(config, task.deviceProfile)
    IN  profile # None /\ implName \in DOMAIN profile.settings

(* Mutant: without the break, a later task replaces the device's own.      *)
TakeTaskWithoutBreak(device, choice, task) ==
    IF \/ task.on = "index" /\ task.device = device
       \/ task.on = "remaining"
    THEN [task |-> task, final |-> FALSE]
    ELSE choice

TakeTask(device, choice, task) ==
    IF choice.final THEN choice
    ELSE IF task.on = "index" /\ task.device = device
         THEN [task |-> task, final |-> TRUE]
    ELSE IF task.on = "remaining" THEN [choice EXCEPT !.task = task]
    ELSE choice

getTaskForDevice(profile, device) ==
    FoldLeft(LAMBDA choice, task : TakeTask(device, choice, task),
             [task |-> None, final |-> FALSE], profile.tasks).task

RunsOn(profile, implName, device) ==
    LET task == getTaskForDevice(profile, device)
    IN  task # None /\ task.implName = implName

(* A std::set of names, and the one it has first.                          *)
getUniqueAlgoImplNamesForProfile(profile) ==
    {n \in Range(ImplOrder) : \E d \in Devices : RunsOn(profile, n, d)}

FirstOf(names) == FirstThat(ImplOrder, LAMBDA n : n \in names)

getConfigPoolsForPowType(config, powType) ==
    {i \in DOMAIN config.pools : config.pools[i].powType = powType}

(* The pools that launchProfile adds: those that have an implementation.   *)
PoolsToAdd(config, powType) ==
    {i \in getConfigPoolsForPowType(config, powType) :
        poolImplForProtocolAndPowType(config.pools[i].protocol, powType) # Empty}

(* Mutant: the task's own implementation is not compared.                  *)
prepareAllDevices(config, profile, implName, devicesInUse) ==
    {d \in Devices : LET task == getTaskForDevice(profile, d)
                     IN  task # None /\ HasSettings(config, task, implName)}

(* The devices of an implementation, and what they are initialized with.   *)
prepareAssignedDevices(config, profile, implName, devicesInUse) ==
    {d \in Devices : /\ RunsOn(profile, implName, d)
                     /\ devicesInUse[d] = None
                     /\ HasSettings(config, getTaskForDevice(profile, d), implName)}

DeviceWith(config, implName, task) ==
    [implName |-> implName,
     settings |-> getDeviceProfile(config, task.deviceProfile).settings[implName]]
=============================================================================
