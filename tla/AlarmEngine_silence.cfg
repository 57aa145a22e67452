SPECIFICATION FairSpec
CONSTANTS
    NoState = NoState
    NoActor = NoActor
    Monitor = Monitor
    Proc = {p1}
    Threshold = {}
    Transition = {}
    TagLoss = {}
    LagoonLoss = {silent}
    Rank <- MCRank
    Group <- AnyTags
    State = {off, on}
    FromStates = {off}
    ToState = on
    MaxTime = 4
    MaxSends = 2
    MaxAge = 1
    TagTimeout = 1
    LagoonTimeout = 1
    Grace = 1
    MaxFaults = 1
    MaxCrashes = 1
CHECK_DEADLOCK FALSE
PROPERTIES
    AlarmMeansSilence
    AlarmFollowsSilence
