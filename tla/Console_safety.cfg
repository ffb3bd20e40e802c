CONSTANTS
    m1 = m1
    m2 = m2
    q1 = q1
    q2 = q2
    Market = {m1}
    Request = {q1}
    Listings <- Catalog
    Pairs = {"full"}
    Nets = {"refused", "good", "better"}
    Hash = {h1}
    LocalFaults = TRUE
    NoMarket = NoMarket
    NoResult = NoResult
SPECIFICATION ConsoleSpec
INVARIANTS ConsoleTypeOK PaperFailsClosed PaperIsTraceable ListedIsRecorded
CHECK_DEADLOCK FALSE
