SPECIFICATION Spec
CONSTANTS
    Caller = {k1, k2, k3}
    Threshold = 3
INVARIANTS
    TypeOK
    ClosedIsBelowThreshold
PROPERTIES
    SilentServiceIsCutOff
    ServiceIsUsedAgain
