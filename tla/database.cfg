SPECIFICATION Spec
CONSTANTS
    Instances = {i1, i2}
    Spellings = {TRUE}
    Actors = {p1, p2}
    Names = {"superadmin", "neo"}
    Boxes = {"admin", "neo"}
    MaxUsers = 2
INVARIANTS
    DatabaseTypeOK
    HeadMatchesModels
    RevisionsFit
    OneAccount
    AdminReachable
PROPERTIES
    BootsUnlessTold
    BootsEnd
    JobsEnd
