SPECIFICATION SearchFairSpec
CONSTANTS
    Labs = {"es9"}
    Nodes = {n1, n2}
    Indices = {i1}
    Scenarios <- MCScenarios
    MaxDrills = 1
    MaxLoads = 0
    MaxFailures = 1
CHECK_DEADLOCK FALSE
PROPERTIES RecoveryEnds9
