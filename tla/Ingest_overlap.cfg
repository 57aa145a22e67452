SPECIFICATION Spec
CONSTANTS
    NoState = NoState
    Tag = {pump}
    StateTag = {pump}
    State = {off, on}
    Running = {on}
    Proc = {p1, p2}
    MaxTime = 3
    MinuteLen = 2
    MaxAge = 1
    StallTimeout = 4
    Cooldown = 1
    MaxFaults = 1
    MaxCrashes = 0
SYMMETRY Symmetry
INVARIANTS
    TypeOK
    PumpOnHasEvent
    ChangesLeadToMemory
