\* Three Redis nodes and three Sentinels, one request, two faults, tests or shutdowns, one failure.
\* Root controller: a batch over two labs and an Ansible plan of two commands, one mishap.
CONSTANTS
    Redis = {r1, r2, r3}
    Sentinels = {s1, s2, s3}
    Keys = {k1}
    MaxFaults = 2
    MaxFailures = 1
    Roots = {"a", "b"}
    Driven = "b"
    Selected <- MCSelected
    Plan <- MCPlan
    MaxMishaps = 1
SPECIFICATION MCSpec
SYMMETRY MCSymmetry
INVARIANTS
    OutcomesAreTruthful
    ControlIsHonest
PROPERTIES
    TestIsHonest
    JournalSpec
CHECK_DEADLOCK FALSE
