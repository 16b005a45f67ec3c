CONSTANTS
    Devices <- MCDevices
    AlgoImpls <- MCAlgoImpls
    PoolImpls <- MCPoolImpls
    ImplOrder <- MCImplOrder
    ToLower <- MCToLower
    Supported <- MCSupported
    TutorialPath <- MCTutorialPath
    TutorialConfig <- MCTutorialConfig
    Scenarios <- MCScenarios
    MaxSignals = 3
    MaxPools = 2
    Clients <- MCClients
    NoClient = NoClient

SPECIFICATION FairSpec
CHECK_DEADLOCK FALSE

INVARIANTS
    AppInv
    LaunchedAsDocumented
    AnswersInOrder
    RecordsAddUp

PROPERTIES
    SignalEndsProcess
    RequestsAreHandled
