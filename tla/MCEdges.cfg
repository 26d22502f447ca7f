SPECIFICATION Spec
CONSTANTS
    Trees <- MCTrees
    SnapshotTtl = 1
    Sanitised <- MCSanitised
    Numbered <- MCNumbered
    MaxIndex = 4
    MaxSensorClock = 2
    MaxFileFaults = 1
    c1 = c1
    c2 = c2
    Tasks = {c1, c2}
    Digits <- MCDigits
    RatePlugins = {"cpu", "cores", "proc", "systemd", "containers", "xe"}
    RateTtl = 1
    RescanEvery = 2
    MaxCounted <- MCMaxCounted
    MaxWork = 2
    MaxRateClock = 2
    MaxUpsets = 2
    t1 = t1
    t2 = t2
    t3 = t3
    Probed <- MCProbed
    Probers = {"fs", "nvml", "smart"}
    MaxConcurrent = 2
    MaxDetached = 2
    ProbeTtl = 1
    BackoffMax = 3
    MaxProbeClock = 5
    MaxMoods = 2
    Catalogue <- MCCatalogue
    Statics = {"cap"}
    Nets = {"net"}
    Disks = {"disk"}
    Hold = 2
    BridgeCap = 2
    MaxForwarded = 3
    MaxCount = 1
    MaxPumpEvents = 1
    Invocations <- MCInvocations
    MaxRpc = 1
    MaxClients = 2
    MaxInvoked = 2
    MaxRefusals = 1
    Guis = {g1, g2}
    NamesOf <- MCNamesOf
    Tries = 2
    HostNames = {"h1"}
    Themes = {"dark"}
    MaxFileOps = 3
    MaxKills = 1
    MaxIoErrors = 1
    Asked <- MCAsked
    Advertised = {"a", "b"}
    Counts = {0, 1, 3}
    PipeCap = 5
    MaxPushes = 3
INVARIANTS
    ReadingsAreReal
    NoWorkCountedTwice
    ProbesAreContained
    StaticsReachTheScreen
    AnswersMatchTheirQuestions
    NoDashboardLost
    CommandsStayInStep
CHECK_DEADLOCK FALSE
