SPECIFICATION FairSpec
CONSTANTS
    cpu = cpu
    board = board
    c1 = c1
    c2 = c2
    c3 = c3
    Sensors = {board}
    Static = {board}
    Periods = {1}
    Clients = {c1, c2}
    MaxSessions = 2
    QueueCap = 1
PROPERTY LaggyClientRecovers
CHECK_DEADLOCK FALSE
