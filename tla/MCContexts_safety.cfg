SPECIFICATION Spec
CONSTANTS
    User = {alice, bob}
    ContextId = {c1}
    Origin = {o1, o2}
    Ticket = {t1}
    Proxy = {p}
    Request = {r1, r2}
    Stranger = Stranger
    SamePage = SamePage
    Direct = Direct
    None = None
    Superseded = Superseded
    Programs = {bob}
    Creators = {alice}
    Modes = {FALSE, TRUE}
SYMMETRY Names
INVARIANTS
    TypeOK
    CurrentUrlRouted
    LandsWhereNavigated
    OwnerOnly
    ClosedContextSilent
    EgressStands
CHECK_DEADLOCK FALSE
