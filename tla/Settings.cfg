CONSTANTS
    profit = profit
    quantity = quantity
    old = old
    new = new
    Key = {profit, quantity}
    KeyOrder <- TwoKeys
    Value = {old, new}
    Default <- FromEnvironment
    NoValue = NoValue
    Request = {r1, r2}
    StoreFaults = TRUE
    Restarts = TRUE
SPECIFICATION Spec
INVARIANTS TypeOK StoredBeforeUse SettledIsInForce
