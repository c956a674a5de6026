\* One order through its whole life, two failures, fair worker loops.
CONSTANTS
    OrderIds = {1}
    Keys = {k1}
    Data = {d1}
    MaxSeq = 3
    PageSize = 1
    MaxFaults = 2
SPECIFICATION FairSpec
CHECK_DEADLOCK FALSE
INVARIANT SearchFollowsSql
PROPERTIES VersionsNeverGoBack EventuallySearchable
