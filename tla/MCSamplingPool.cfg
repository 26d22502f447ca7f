SPECIFICATION FairSpec
CONSTANTS
    w1 = w1
    w2 = w2
    disk = disk
    cpu = cpu
    gpu = gpu
    Sensors = {disk, cpu, gpu}
    Hung = {disk}
    Workers = {w1, w2}
    MaxCalls = 3
INVARIANTS ResultsAreOfThisCall JobsAccountedFor PoolKeptBusy
PROPERTIES SampleReturns DropEnds
CHECK_DEADLOCK FALSE
