CONSTANTS
    p1 = p1
    p2 = p2
    Order = {1, 2}
    DigitalOrder = {}
    Contact = {}
    Pass = {p1}
    PageSize = 2
    FaultKinds = {"checkout", "webhook", "pass"}
SPECIFICATION Spec
INVARIANTS
    TypeOK
    ConfirmedWasCharged
    ChargedIsNotCancelled
    ChargedIsNotPurged
PROPERTY KeepsThePromise
CHECK_DEADLOCK FALSE
