--------------------------- MODULE MCApplication ---------------------------
(* Application for TLC: the registry as the program registers it, and the  *)
(* configurations. "ETHASHCL" is EthashCL written in another case.         *)
EXTENDS Application

MCDevices == {0, 1}

Entry(name, powType) == [name |-> name, powType |-> powType]

MCAlgoImpls ==
    <<Entry("AlgoDummy", "dummy"), Entry("Cuckatoo31Cl", "cuckatoo31"),
      Entry("EthashCL", "ethash")>>
MCPoolImpls ==
    <<[protocol |-> "stratum"] @@ Entry("Cuckatoo31Stratum", "cuckatoo31"),
      [protocol |-> "stratum2"] @@ Entry("EthashStratum2", "ethash"),
      [protocol |-> "stratum2"] @@ Entry("PoolDummy", "dummy")>>

MCImplOrder == <<"AlgoDummy", "Cuckatoo31Cl", "ETHASHCL", "EthashCL", "Unknown">>

Names == Range(MCImplOrder) \cup {"cuckatoo31", "dummy", "ethash", "stratum", "stratum2"}
MCToLower == [n \in Names |->
    CASE n \in {"EthashCL", "ETHASHCL"} -> "ethashcl"
      [] n = "Cuckatoo31Cl" -> "cuckatoo31cl"
      [] n = "AlgoDummy" -> "algodummy"
      [] n = "Unknown" -> "unknown"
      [] OTHER -> n]

Task(on, device, implName, deviceProfile) ==
    [on |-> on, device |-> device, implName |-> implName,
     deviceProfile |-> deviceProfile]

Tasks ==
    <<Task("index", 0, "EthashCL", "all"), Task("remaining", 0, "Cuckatoo31Cl", "all"),
      Task("index", 1, "Cuckatoo31Cl", "all"), Task("index", 1, "EthashCL", "none"),
      Task("index", 0, "ETHASHCL", "all"), Task("remaining", 0, "EthashCL", "all"),
      Task("alias", 0, "EthashCL", "all"), Task("remaining", 0, "Unknown", "all")>>

Pool(powType, protocol) == [powType |-> powType, protocol |-> protocol]
Pools ==
    <<<<Pool("ethash", "stratum2"), Pool("cuckatoo31", "")>>,
      <<Pool("cuckatoo31", "stratum2"), Pool("ethash", "stratum2")>>,
      <<Pool("ethash", "stratum2"), Pool("ethash", "")>>>>

(* Settings: none that is given, all, and some that are not valid.         *)
Settings(numThreads, workSize, rawIntensity, powerLimitPercent) ==
    [numThreads |-> numThreads, workSize |-> workSize, rawIntensity |-> rawIntensity,
     powerLimitPercent |-> powerLimitPercent]

Unset == Settings(<<>>, <<>>, <<>>, <<>>)
AllSet == Settings(<<2>>, <<64>>, <<4096>>, <<200>>)
NoThreads == Settings(<<0>>, <<>>, <<>>, <<>>)
NoWork == Settings(<<>>, <<0>>, <<>>, <<>>)
NoIntensity == Settings(<<>>, <<>>, <<0>>, <<>>)
TooMuchPower == Settings(<<>>, <<>>, <<>>, <<201>>)

(* A profile without settings, and one with settings for every name.       *)
DeviceProfilesWith(settings) ==
    <<[name |-> "none", settings |-> <<>>],
      [name |-> "all", settings |-> [n \in Range(MCImplOrder) |->
                                        IF n = "EthashCL" THEN settings ELSE Unset]]>>

(* Messages for the API.                                                   *)
Message(id, error, result, method, args) ==
    [id |-> id, error |-> error, result |-> result, method |-> method, args |-> args,
     nul |-> FALSE]

Request(id, method, args) == Message(id, "absent", FALSE, method, args)

Stat(method) == Request("given", method, "fit")
GpuStats  == Stat("getGpuStats")
PoolStats == Stat("getPoolStats")

Divisions == {Request("given", "divide", args) : args \in {"fit", "missing", "mistyped", "zero"}}
Oddities ==
    {Request("empty", "divide", "fit"), Request("absent", "getGpuStats", "fit"),
     Request("empty", "other", "fit"), Request("given", "absent", "fit"),
     Message("given", "whole", FALSE, "divide", "fit"),
     Message("given", "null", TRUE, "divide", "fit"),
     Message("given", "broken", TRUE, "divide", "fit"),
     [Request("given", "divide", "fit") EXCEPT !.nul = TRUE]}
Messages == Divisions \cup Oddities \cup {GpuStats, PoolStats}

MCClients == {"one", "two"}
Script(one, two) == [c \in MCClients |-> IF c = "one" THEN one ELSE two]
Silence == Script(<<>>, <<>>)

(* What is in a file.                                                      *)
Text(wellFormed, apiPort, startProfileName, taskList, settings, pools) ==
    [wellFormed |-> wellFormed, apiPort |-> apiPort,
     startProfileName |-> startProfileName,
     profiles |-> <<[name |-> "other", tasks |-> <<>>], [name |-> "first", tasks |-> taskList]>>,
     deviceProfiles |-> DeviceProfilesWith(settings),
     pools |-> pools]

(* Configurations by their tasks and pools, and others of all kinds.       *)
Launching(list, pools) ==
    Text(TRUE, <<>>, <<"first">>, [i \in DOMAIN list |-> Tasks[list[i]]], AllSet, Pools[pools])

OneTask == <<Tasks[1]>>
OtherText(name) ==
    CASE name = "no profile"   -> Text(TRUE, <<4028>>, <<>>, OneTask, Unset, Pools[1])
      [] name = "other name"   -> Text(TRUE, <<>>, <<"third">>, OneTask, Unset, Pools[1])
      [] name = "defaults"     -> Text(TRUE, <<65535>>, <<"first">>, OneTask, Unset, Pools[1])
      [] name = "malformed"    -> Text(FALSE, <<>>, <<"first">>, OneTask, Unset, Pools[1])
      [] name = "port 0"       -> Text(TRUE, <<0>>, <<>>, OneTask, Unset, Pools[1])
      [] name = "port 65536"   -> Text(TRUE, <<65536>>, <<>>, OneTask, Unset, Pools[1])
      [] name = "no threads"   -> Text(TRUE, <<>>, <<>>, OneTask, NoThreads, Pools[1])
      [] name = "no work"      -> Text(TRUE, <<>>, <<>>, OneTask, NoWork, Pools[1])
      [] name = "no intensity" -> Text(TRUE, <<>>, <<>>, OneTask, NoIntensity, Pools[1])
      [] name = "power"        -> Text(TRUE, <<>>, <<>>, OneTask, TooMuchPower, Pools[1])
OtherNames == {"no profile", "other name", "defaults", "malformed", "port 0", "port 65536",
               "no threads", "no work", "no intensity", "power"}

MCTutorialPath == "tutorial"
MCTutorialConfig ==
    Text(TRUE, <<>>, <<"first">>, <<Task("remaining", 0, "AlgoDummy", "all")>>, Unset,
         <<Pool("dummy", "stratum2")>>)

(* Of the arguments that main knows, those that make a difference and one. *)
MCSupported == {"--config", "--run-tutorial", "-l", "-v"}
Config(path) == Arg("--config", <<path>>)
Flag(name) == Arg(name, <<>>)
Letters == [Flag("-lv") EXCEPT !.letters = <<"-l", "-v">>]
WrongLetters == [Flag("-lx") EXCEPT !.letters = <<"-l", "-x">>]

(* The arguments, the files, what can be written, the number of signals,   *)
(* and of shares of each pool, and what the clients send.                  *)
Scenario(args, files, writable, signals, shares, script) ==
    [args |-> args, files |-> files, writable |-> writable, signals |-> signals,
     shares |-> shares, script |-> script]

Configured(text, signals, shares, script) ==
    Scenario(<<Config("file")>>, "file" :> text, {}, signals, shares, script)

Lists(n) == [1 .. n -> DOMAIN Tasks]
Launches ==
    {Configured(Launching(list, pools), 0, 0, Silence) :
        pools \in {1, 2}, list \in UNION {Lists(n) : n \in 0 .. 2}} \cup
    {Configured(Launching(list, 1), 0, 0, Silence) :
        list \in {l \in Lists(3) : l[1] # l[2] /\ l[2] # l[3] /\ l[1] # l[3]}}

Loads == {Configured(OtherText(n), 0, 0, Silence) : n \in OtherNames}

(* Any two arguments, and what may be at the path of the tutorial.         *)
SomeArgs == {Config("file"), Config("other"), Flag("--config"), Flag("--run-tutorial"),
             Letters, WrongLetters, Flag("--Config")}
Started ==
    {Scenario(args, "file" :> OtherText("defaults"), {MCTutorialPath}, 0, 0, Silence) :
        args \in UNION {[1 .. n -> SomeArgs] : n \in 0 .. 2}} \cup
    {Scenario(<<Flag("--run-tutorial")>>, files, writable, 0, 0, Silence) :
        files \in {<<>>, MCTutorialPath :> OtherText("defaults")},
        writable \in {{}, {MCTutorialPath}}}

(* Statistics are asked for at any time of a launch and its end.           *)
Watched ==
    {Configured(Launching(list, 1), 1, 0, Script(<<GpuStats, PoolStats>>, <<>>)) :
        list \in {<<1, 2>>, <<5, 1>>}}

(* Two algorithms that run, and none.                                      *)
NoProfile == OtherText("no profile")
Interrupted ==
    {Configured(Launching(<<1, 2>>, 1), 3, 0, Silence),
     Configured(NoProfile, 2, 0, Script(<<PoolStats>>, <<>>))}

(* The API without a profile: any two messages of a client, and two at once. *)
Served ==
    {Configured(NoProfile, 0, 0, Script(<<a, b>>, <<>>)) : a, b \in Messages} \cup
    {Configured(NoProfile, 0, 0, Script(<<a, PoolStats>>, <<GpuStats, b>>)) :
        a \in {Stat("divide"), PoolStats}, b \in {Stat("divide"), Request("empty", "divide", "fit")}}

(* Two pools that report to one switcher.                                  *)
Reported == {Configured(Launching(<<1, 2>>, 3), 0, 2, Silence)}

AllScenarios ==
    UNION {Launches, Loads, Started, Watched, Interrupted, Served, Reported}

(* Written as a set that TLC keeps sorted, to look scenarios up in.        *)
MCScenarios == {s \in AllScenarios : TRUE}
=============================================================================
