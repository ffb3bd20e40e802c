CONSTANTS
    m1 = m1
    m2 = m2
    Market = {m1, m2}
    Listings <- SplitListings
    Pairs = {"no_asks", "full"}
    Nets = {"low", "good", "better"}
    Hash = {h1}
    LocalFaults = TRUE
    NoMarket = NoMarket
    NoResult = NoResult
SPECIFICATION Spec
INVARIANTS TypeOK FailClosed PublishedIsPersisted LoadedIsStored ScanOnTrack
PROPERTIES KeepsPromise
CHECK_DEADLOCK FALSE
