\* Three requests race over two keys, two payloads and two orders.
CONSTANTS
    OrderIds = {o1, o2}
    Keys = {k1, k2}
    Data = {d1, d2}
    MaxSeq = 3
    Requests = {r1, r2, r3}
    Wanted <- MCWanted
SPECIFICATION FairSpec
INVARIANTS OutboxIsHistory AnswersAreTrue
PROPERTIES ImplementsLedger 
