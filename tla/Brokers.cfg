\* Kafka: two messages, three commands, one failure.  Redis experiments: two processes of every
\* scenario, or three of the suite, one failure.  Sandbox: four commands, two failures; three clients of a cache.
SPECIFICATION MCSpec
CONSTANTS
    Brokers = {b1, b2, b3}
    Zks = {z1, z2, z3}
    MaxMsgs = 2
    MaxCommands = 3
    MaxFailures = 1
    MaxRuns = 3
    Scenarios = {"bigkey", "fragmentation", "eviction", "connections", "slow-consumer", "persistence", "latency", "cache-stampede", "stream-pending"}
    Suite <- MCSuite
    MaxOpsSpent = 1
    Clients = {c1, c2, c3}
    MaxActs = 4
    MaxStops = 2
SYMMETRY MCSymmetry
CHECK_DEADLOCK FALSE
INVARIANTS DeliveredIsKept VolumesArePinned RedisToolsAreSound
PROPERTIES  OpsJournalSpec
