\* Two orders, three events, one failure; pages of one row.  Simulator:
\* two workers, two operations, two failed calls.
CONSTANTS
    OrderIds = {1, 2}
    Keys = {k1, k2}
    Data = {d1}
    MaxSeq = 3
    PageSize = 1
    MaxFaults = 1
    Workers = {w1, w2}
    OpKinds = {"create", "retry", "race", "update", "read"}
    MaxOps = 2
    MaxLost = 2
SYMMETRY MCWatchedSymmetry
SPECIFICATION MCSpec
CHECK_DEADLOCK FALSE
INVARIANTS FirstDeliveryInOrder CheckpointIsProjected OracleIsExact
