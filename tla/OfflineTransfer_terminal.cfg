SPECIFICATION Spec
CONSTANTS
    t1 = t1
    t2 = t2
    k1 = k1
    NoProc = NoProc
    NoTransfer = NoTransfer
    NoPart = NoPart
    RowsOf <- MCRowsOf
    Transfer = {t1}
    Part = {n1}
    Proc = {p1, p2}
    Key = {k1}
    Stalling = {}
    MaxFaults = 0
PROPERTY TerminalIsFinal
