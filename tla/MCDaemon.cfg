SPECIFICATION Spec
CONSTANTS
    s1 = s1
    s2 = s2
    r1 = r1
    r2 = r2
    Sensors = {s1, s2}
    RuleNames = {r1, r2}
    Requests <- MCRequests
    Files <- MCFiles
    Milli = 2
    EventCapacity = 3
    ValuesCap = 1
    MaxWebhooks = 1
    MaxClock = 3
    MaxSamples = 4
    MaxChanges = 1
    MaxFaults = 1
    Keys = {k}
    QueueCapacity = 2
    MaxBatch = 2
    Retention = 1
    DefaultPoints = 1
    MaxPoints = 2
    MaxWriters = 2
    MaxRecords = 3
    MaxWall = 2
    MaxFailures = 1
    Builtins <- MCBuiltins
    Dirs <- MCDirs
    Plugin <- MCPlugin
    ValidKeys = {"k1", "k2"}
    KeyOrder <- MCKeyOrder
    Payload <- MCPayload
    Reads <- MCReads
    Configs <- MCConfigs
INVARIANTS
    OutcomesMeetTheirRules
    RingTellsTheTruth
    FileFollowsRules
    EventWriterInSync
    QueryIsFair
    PluginsLiveOnce
    CatalogueIsHonest
PROPERTIES
    NothingLostInSilence
CHECK_DEADLOCK FALSE
