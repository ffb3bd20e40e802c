CONSTANTS
    m1 = m1
    m2 = m2
    q1 = q1
    q2 = q2
    Market = {m1, m2}
    Request = {q1}
    Listings <- SplitListings
    Pairs = {"full"}
    Nets = {"good"}
    Hash = {h1}
    LocalFaults = FALSE
    NoMarket = NoMarket
    NoResult = NoResult
SPECIFICATION ConsoleSpec
INVARIANT OpportunitiesAnswered
CHECK_DEADLOCK FALSE
