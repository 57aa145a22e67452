SPECIFICATION Spec
CONSTANTS
    NoState = NoState
    Tag = {pump}
    StateTag = {pump}
    State = {off, on, fault}
    Running = {on}
    Proc = {p1}
    MaxTime = 4
    MinuteLen = 2
    MaxAge = 1
    StallTimeout = 1
    Cooldown = 1
    MaxFaults = 1
    MaxCrashes = 1
INVARIANTS
    EventsTile
    ShownReadingKept
PROPERTY
    LostWithItsMinute
