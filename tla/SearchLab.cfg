SPECIFICATION SearchFairSpec
CONSTANTS
    Labs = {"es7", "es9"}
    Nodes = {n1, n2}
    Indices = {i1, i2}
    Scenarios <- MCScenarios
    MaxDrills = 1
    MaxLoads = 1
    MaxFailures = 1
CHECK_DEADLOCK FALSE
PROPERTIES JournalSpec ReportIsHonest  RecoveryEnds
