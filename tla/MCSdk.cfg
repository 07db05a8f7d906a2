SPECIFICATION Spec
CONSTANTS
    Caller = {k1, k2, k3}
    ContextId = {c1, c2, c3}
    None = None
SYMMETRY Names
INVARIANTS
    TypeOK
    NothingLeftBehind
    ClosedMeansClosed
    ProblemsAreTvpns
CHECK_DEADLOCK FALSE
