SPECIFICATION Spec
CONSTANTS
    w1 = w1
    w2 = w2
    disk = disk
    cpu = cpu
    gpu = gpu
    Sensors = {disk, cpu, gpu}
    Hung = {disk}
    Workers = {w1, w2}
    MaxCalls = 2
INVARIANT BlockedPluginLeavesAWorker
CHECK_DEADLOCK FALSE
