CONSTANTS
    p1 = p1
    p2 = p2
    Order = {1, 2}
    DigitalOrder = {}
    Contact = {}
    Pass = {p1}
    PageSize = 1
    FaultKinds = {"webhook", "checkout"}
SPECIFICATION ReconcilingSpec
PROPERTIES
    ChargedIsRecognised
    AbandonedIsClosed
CHECK_DEADLOCK FALSE
