\* Two buyers that may repeat a call, two keys and quantities, and a client that asks for
\* refunds; money runs out before stock does.
CONSTANTS
    Clients = {c1, c2, c3}
    OrderIds = {o1, o2}
    RequestKeys = {k1, k2}
    Quantities = {1, 2}
    Price = 3
    InitialStock = 2
    InitialBalance = 5
    MaxResubmits = 1
    Refunder = c3
SPECIFICATION MCSpec
INVARIANTS BooksBalance AnswersAreHonest
PROPERTY EveryCallEnds
