CONSTANTS
    p1 = p1
    p2 = p2
    Order = {1}
    DigitalOrder = {}
    Contact = {}
    Pass = {p1}
    PageSize = 2
    FaultKinds = {"webhook"}
SPECIFICATION DeliveringSpec
PROPERTY RefundReachesOrder
CHECK_DEADLOCK FALSE
