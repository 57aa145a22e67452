SPECIFICATION FairSpec
CONSTANTS
    t1 = t1
    t2 = t2
    Request = {r1, r2, r3}
    Digest = {"good", "bad"}
    MaxParts = 2
    NoOne = NoOne
    Manifests <- MCManifests
    Asks <- MCAsks
CHECK_DEADLOCK FALSE
INVARIANTS
    TypeOK
    RegistrationSound
    PartsTile
    ConfirmedPartKept
PROPERTIES
    NothingStalls
