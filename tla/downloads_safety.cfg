SPECIFICATION Spec
CONSTANTS
    o1 = o1
    l1 = l1
    Order = {o1}
    Line = {l1}
    OrderOf <- OneOrder
    Link = {g1, g2}
    Confirmer = {k1, k2}
    Access = {a1}
    Resend = {r1}
    Visitor = {d1, d2}
    MaxUses = 1
    FaultKinds = {"mail", "db", "sign"}
    NoLine = NoLine
    NoOrder = NoOrder
    NoLink = NoLink
SYMMETRY Symmetry
CHECK_DEADLOCK FALSE
INVARIANTS
    TypeOK
    UsesAreCounted
    LineKeepsALink
    
 
