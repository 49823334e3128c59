SPECIFICATION Spec
CONSTANTS
    p1 = p1
    Product = {p1}
    Variant = {v1}
    Order = {o1}
    File = {f1, f2}
    ProductOf <- OneProduct
    Clerk = {c1, c2}
    MaxImages = 1
    FaultKinds = {"bucket", "db", "crash"}
    NoFile = NoFile
    NoVariant = NoVariant
SYMMETRY Symmetry
CHECK_DEADLOCK FALSE
INVARIANTS
    TypeOK
    SweptFilesAreUnsold
    RowsPointToFiles
PROPERTY SalesAreKept
