SPECIFICATION Spec
CONSTANTS
    Value = {v1, v2}
    Secret = {s}
    Absent = Absent
    Empty = Empty
    Kinds = {"set", "delete", "empty", "expired", "httpOnly"}
    MaxWrites = 2
    Call = {a, b, c, d}
    Target = {x, y, z}
    Limit = 2
    CacheSize = 1
    Modes = {FALSE, TRUE}
    Parts = {"cookies", "urls"}
INVARIANTS
    TypeOK
    HttpOnlyHidden
    WritesInOrder
    OneLookupPerTarget
PROPERTY
    ResolutionsSettle
CHECK_DEADLOCK FALSE
