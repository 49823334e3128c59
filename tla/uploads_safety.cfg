SPECIFICATION Spec
CONSTANTS
    Upload = {u1, u2, u3, u4}
    Clerk = {c1, c2}
    MaxImages = 2
    FaultKinds = {"write", "bucket", "crash"}
    NoUpload = NoUpload
SYMMETRY Symmetry
CHECK_DEADLOCK FALSE
INVARIANTS
    TypeOK
    ImagesWithinReach
    RowsHaveObjects
    OrphansAreAccountedFor
    PublishedShowsAnImage
