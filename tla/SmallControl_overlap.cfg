SPECIFICATION Spec
CONSTANTS
    r1 = r1
    r2 = r2
    start = start
    stop = stop
    state = state
    setPoint = setPoint
    run = run
    Absent = Absent
    Request = {r1, r2}
    Register = {start, stop, state, setPoint, run}
    Width <- MCWidth
    Value <- MCValue
    Configs <- MCConfigs
    Asks <- MCAsks
    Outside <- MCOutside
SYMMETRY Symmetry
CHECK_DEADLOCK FALSE
INVARIANTS
    TypeOK
    PumpInterlock
    AuditTruthful
    PreviousValueTrue
    DrivenWithinConfig
