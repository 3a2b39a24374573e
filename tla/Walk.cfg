\* Up to five items in pages of at most two, each cap in and out of the way, inserts
\* and a delete; honest servers and misbehaving ones.
CONSTANTS
    i1 = i1  i2 = i2  i3 = i3  i4 = i4  i5 = i5
    Items = {i1, i2, i3, i4, i5}
    PageSizes = {2, 3}
    ServerMax = 2
    MaxPages = {2, 20}
    MaxItems = {4, 20}
    Inserts = 3
    Deletes = 1
SPECIFICATION WalkSpec
SYMMETRY ItemSymmetry
CHECK_DEADLOCK FALSE
INVARIANTS
    NothingHidden
    TruncatedIsHonest
    NoWastedPages
