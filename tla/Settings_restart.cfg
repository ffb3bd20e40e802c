CONSTANTS
    profit = profit
    quantity = quantity
    old = old
    new = new
    Key = {profit, quantity}
    KeyOrder <- TwoKeys
    Value = {old, new}
    Default <- FromEnvironment
    NoValue = NoValue
    Request = {r1}
    StoreFaults = FALSE
    Restarts = TRUE
SPECIFICATION Spec
INVARIANT PersistedIsInForce
