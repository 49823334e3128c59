CONSTANTS
    o1 = o1
    o2 = o2
    c1 = c1
    i1 = i1
    i2 = i2
    NoJob = NoJob
    Nobody = Nobody
    Order = {o1}
    DigitalOrder = {}
    Contact = {}
    Instance = {i1}
    Keyless = {}
    BatchSize = 2
    MaxAttempts = 2
    Refundable = {}
    FaultKinds = {"crash"}
SPECIFICATION FairSpec
PROPERTY EveryJobSettles
CHECK_DEADLOCK FALSE
