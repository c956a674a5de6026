SPECIFICATION Spec
CONSTANTS
    g1 = g1
    g2 = g2
    g3 = g3
    g4 = g4
    Order <- MCThree
    MinNodes = 3
    MaxTxns = 1
    MaxWrites = 1
    MaxCommands = 5
    MaxFailures = 1
    Window = TRUE
CHECK_DEADLOCK FALSE
INVARIANT OnePrimary
