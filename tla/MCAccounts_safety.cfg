SPECIFICATION Spec
CONSTANTS
    alice = alice
    bob = bob
    g1 = g1
    g2 = g2
    g3 = g3
    User = {alice, bob, carol}
    Group = {g1, g2, g3}
    Request = {r1, r2}
    SessionId = {s1}
    TokenId = {t1}
    None = None
    Existing = {alice}
    Bootstrap = alice
    Snapshots <- BothOrders
    Operations <- Everything
    Handling = {r1}
    MaxHash = 2
INVARIANTS
    TypeOK
    LocalNeverByDirectory
    ResetEndsSessions
    MembershipIsASnapshot
PROPERTIES
    LastAdminStays
    LoginsEnd
CHECK_DEADLOCK FALSE
