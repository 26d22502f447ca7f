SPECIFICATION Spec
CONSTANTS
    c1 = c1
    c2 = c2
    gpu = gpu
    nic = nic
    A = A
    B = B
    None = None
    Blank = Blank
    Clients = {c1, c2}
    Devices = {gpu, nic}
    Names = {A, B}
    MaxRequests = 3
    MaxCrashes = 1
INVARIANT SavedWhenQuiet
CHECK_DEADLOCK FALSE
