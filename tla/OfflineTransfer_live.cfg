SPECIFICATION FairSpec
CONSTANTS
    t1 = t1
    t2 = t2
    k1 = k1
    NoProc = NoProc
    NoTransfer = NoTransfer
    NoPart = NoPart
    RowsOf <- MCRowsOf
    Transfer = {t1}
    Part = {n1, n2}
    Proc = {p1, p2}
    Key = {k1}
    Stalling = {t1}
    MaxFaults = 1
INVARIANTS
    ConfirmedPartOnDisk
    FileRecoverable
    VerifiedFileKept
PROPERTIES
    RequestsEnd
    Delivered
