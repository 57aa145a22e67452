SPECIFICATION Spec
CONSTANTS
    NoState = NoState
    NoActor = NoActor
    Monitor = Monitor
    Proc = {p1, p2}
    Threshold = {high}
    Transition = {}
    TagLoss = {}
    LagoonLoss = {silent}
    Rank <- MCRank
    Group <- OneTag
    State = {off, on}
    FromStates = {off}
    ToState = on
    MaxTime = 2
    MaxSends = 2
    MaxAge = 0
    TagTimeout = 1
    LagoonTimeout = 0
    Grace = 0
    MaxFaults = 0
    MaxCrashes = 0
SYMMETRY Symmetry
CHECK_DEADLOCK FALSE
INVARIANTS
    TypeOK
    OneActiveAlarm
    NoCircularWait
PROPERTY ImplementsLifeCycle
