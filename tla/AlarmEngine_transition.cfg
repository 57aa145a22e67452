SPECIFICATION Spec
CONSTANTS
    NoState = NoState
    NoActor = NoActor
    Monitor = Monitor
    Proc = {p1}
    Threshold = {}
    Transition = {mode}
    TagLoss = {}
    LagoonLoss = {}
    Rank <- MCRank
    Group <- AnyTags
    State = {off, on}
    FromStates = {off}
    ToState = on
    MaxTime = 3
    MaxSends = 3
    MaxAge = 2
    TagTimeout = 1
    LagoonTimeout = 1
    Grace = 9
    MaxFaults = 0
    MaxCrashes = 0
CHECK_DEADLOCK FALSE
INVARIANT AlarmFollowsTransition
