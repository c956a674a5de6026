SPECIFICATION MCSpec
CONSTANTS
    g1 = g1
    g2 = g2
    g3 = g3
    g4 = g4
    Order <- MCOrder
    MinNodes = 3
    MaxTxns = 3
    MaxWrites = 1
    MaxCommands = 2
    MaxFailures = 1
    Window = FALSE
    Requests = {q1, q2}
    Sizes = {1, 2}
    Attempts = 3
    Interval = 2
    Slots = 3
    Effort <- MCEffort
CHECK_DEADLOCK FALSE
INVARIANTS  TransfersOnce DatasetIsHonest
PROPERTIES JournalSpec ReportsAreTrue
