\* Messages: two orders of two versions, three loaded records, one failure.  Cache: two readers,
\* two versions of the order, entries that live three ticks.  Service: three connections for two
\* slots; two lives of the worker, five ticks for a receipt that may be two old.
\* Acceptance: two scenarios, two commands or edits of other people.
CONSTANTS
    Orders = {a, b}
    MaxVersion = 2
    MaxLoad = 3
    MaxFaults = 1
    Readers = {r1, r2}
    LastVersion = 2
    Ttl = 3
    FillTime = 2
    Conns = {c1, c2, c3}
    MaxSlots = 2
    MaxAge = 2
    MaxNow = 5
    MaxStarts = 2
    Scenarios = 2
    MaxOthers = 2
SYMMETRY MCSymmetry
CHECK_DEADLOCK FALSE
SPECIFICATION MCSpec
INVARIANTS MessagesAreExact StalenessIsBounded InspectionIsSound ServiceIsSound AcceptanceIsHonest
