SPECIFICATION Spec
CONSTANTS
    r1 = r1
    r2 = r2
    Ingest = {r1, r2}
    Client = {c1, c2}
    TsOf <- MCTsOf
SYMMETRY Symmetry
CHECK_DEADLOCK FALSE
INVARIANTS
    TypeOK
    SettledViewCurrent
    NoGhostSubscriber
    NoOrphanStream
PROPERTY ImplementsReplica
