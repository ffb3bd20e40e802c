CONSTANTS
    Caller = {c1, c2, c3}
    Permits = 2
    Answers <- EachClass
SPECIFICATION FairSpec
INVARIANTS TypeOK PermitsConserved RetryPolicy
PROPERTIES CallEnds
CHECK_DEADLOCK FALSE
