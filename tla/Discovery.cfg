CONSTANTS
    i1 = i1
    i2 = i2
    i3 = i3
    i4 = i4
    c1 = c1
    c2 = c2
    c3 = c3
    c4 = c4
    a = a
    b = b
    c = c
    d = d
    e = e
    f = f
    g = g
    h = h
    None = None
    Id = {i1, i2, i3, i4}
    Condition = {c1, c2, c3, c4}
    Token = {a, b, c, d, e, f, g, h}
    Item <- SomeItems
    Listed <- SomeListed
    Pages <- SomePages
    Cursors = {0, 1}
    Maximum = 3
    PageLimit = 2
    MaxListing = 4
SPECIFICATION Spec
INVARIANTS TypeOK CollectedIsFirst LegsAreDistinct StoredTokenIsRead
PROPERTIES RefreshEnds
