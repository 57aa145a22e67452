SPECIFICATION Spec
CONSTANTS
    NoState = NoState
    NoActor = NoActor
    Monitor = Monitor
    Proc = {p1}
    Threshold = {high}
    Transition = {mode}
    TagLoss = {level}
    LagoonLoss = {}
    Rank <- MCRank
    Group <- OneTag
    State = {off, on}
    FromStates = {off}
    ToState = on
    MaxTime = 4
    MaxSends = 4
    MaxAge = 2
    TagTimeout = 1
    LagoonTimeout = 1
    Grace = 9
    MaxFaults = 1
    MaxCrashes = 0
CHECK_DEADLOCK FALSE
INVARIANTS
    AlarmFollowsThreshold
    AlarmLagsTransition
PROPERTY AlarmFollowsTag
