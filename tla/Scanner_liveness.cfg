CONSTANTS
    m1 = m1
    m2 = m2
    Market = {m1, m2}
    Listings <- SplitListings
    Pairs = {"full"}
    Nets = {"good"}
    Hash = {h1}
    LocalFaults = FALSE
    NoMarket = NoMarket
    NoResult = NoResult
SPECIFICATION AnsweringSpec
PROPERTIES LoopsReturn DelistedLeaves ListedIsShown ShutdownEnds
CHECK_DEADLOCK FALSE
