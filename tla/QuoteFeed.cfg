CONSTANTS
    MaxVersion = 2
    MaxWire = 2
    MaxAge = 0
    NoBook = NoBook
SPECIFICATION Spec
INVARIANTS TypeOK NoTornPair
PROPERTIES Converges
