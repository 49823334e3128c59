CONSTANTS
    o1 = o1
    o2 = o2
    c1 = c1
    i1 = i1
    i2 = i2
    NoJob = NoJob
    Nobody = Nobody
    Order = {o1}
    DigitalOrder = {}
    Contact = {c1}
    Instance = {i1}
    Keyless = {}
    BatchSize = 2
    MaxAttempts = 2
    Refundable = {o1}
    FaultKinds = {}
SPECIFICATION FairSpec
PROPERTIES
    EveryJobSettles
    PaidOrderMovesOn
CHECK_DEADLOCK FALSE
