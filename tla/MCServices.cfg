SPECIFICATION Spec
CONSTANTS
    p1 = p1
    p2 = p2
    Peers = {p1, p2}
    Cert <- MCCert
    AllowCn = {}
    AllowSan <- MCAllow
    MaxConnections = 1
    IdleTimeout = 2
    CopyIoTimeout = 1
    DrainTimeout = 1
    Chunks <- MCChunks
    Scrapers = {c1, c2}
    Targets <- MCTargets
    Bound = {"gpu"}
    MaxProm = 1
    Slots = {s1, s2, s3, s4, s5}
    SshHosts = {"alpha", "beta"}
    MaxSwitches = 1
    MaxMishaps = 2
INVARIANTS
    CleanCloseLosesNothing
    IdleMeansIdle
PROPERTIES
    TunnelSlotsComeBack
    ScrapesYieldTheMutex
    LinkComesBack
CHECK_DEADLOCK FALSE
