CONSTANTS
    One = 7
    MoneyQuantum = 3
    FeeQuantum = 6
    RateBase = 10
    Entries <- SomeEntries
    MaxEntries <- ThreeAndTwo
    Targets = {1, 3}
    FeeRates = {0, 4}
    NoRate = NoRate
    Slippage = 1
    Safety = 1
    MinQuantity = 1
    MinProfit = 0
    MinRoi = 0
SPECIFICATION Spec
INVARIANTS TypeOK LegsAreCheapest StatusIsDocumented NetIsDocumented AcceptedNeverLoses
CHECK_DEADLOCK FALSE
