SPECIFICATION Spec
CONSTANTS
    cpu = cpu
    board = board
    c1 = c1
    c2 = c2
    c3 = c3
    Sensors = {board}
    Static = {board}
    Periods = {1, 2}
    Clients = {c1, c2, c3}
    MaxSessions = 2
    QueueCap = 1
SYMMETRY ClientSymmetry
INVARIANTS TypeOK RefcountBalanced SinksAreSessions SlotsBalanced ParkedMeansOffered
CHECK_DEADLOCK FALSE
