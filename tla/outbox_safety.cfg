CONSTANTS
    o1 = o1
    o2 = o2
    c1 = c1
    i1 = i1
    i2 = i2
    NoJob = NoJob
    Nobody = Nobody
    Order = {o1}
    DigitalOrder = {o1}
    Contact = {}
    Instance = {i1, i2}
    Keyless = {i2}
    BatchSize = 2
    MaxAttempts = 2
    Refundable = {}
    FaultKinds = {"crash", "db"}
SPECIFICATION Spec
INVARIANTS
    TypeOK
    ClaimIsExclusive
    AttemptsMatchStatus
    DoneWasDelivered
PROPERTIES
    ImplementsLedger
    SettledStaysSettled
CHECK_DEADLOCK FALSE
