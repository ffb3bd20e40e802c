CONSTANTS
    MaxVersion = 1
    MaxWire = 1
    MaxAge = 1
    NoBook = NoBook
SPECIFICATION Spec
INVARIANTS StaleIsRefused
