SPECIFICATION Spec
CONSTANTS
    d1 = d1
    d2 = d2
    r1 = r1
    r2 = r2
    r3 = r3
    Device = {d1, d2}
    Tab = {r1, r2, r3}
    DeviceOf <- Owner
    Token = {t1, t2, t3}
    MaxChanges = 1
    FaultKinds = {"db", "net", "theft"}
    NoToken = NoToken
SYMMETRY Symmetry
CHECK_DEADLOCK FALSE
INVARIANTS
    TypeOK
    PasswordEndsSessions
    LoneTabStaysIn
PROPERTY EndedStaysEnded
