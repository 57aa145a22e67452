SPECIFICATION Spec
CONSTANTS
    t1 = t1
    t2 = t2
    k1 = k1
    NoProc = NoProc
    NoTransfer = NoTransfer
    NoPart = NoPart
    RowsOf <- MCRowsOf
    Transfer = {t1, t2}
    Part = {n1}
    Proc = {p1, p2}
    Key = {k1}
    Stalling = {t1}
    MaxFaults = 1
SYMMETRY Symmetry
INVARIANTS
    TypeOK
    ImportExclusive
    NothingLost
PROPERTIES
    IllegalOnlyWhenStale
    ImplementsDelivery
