SPECIFICATION Spec
CONSTANTS
    alice = alice
    bob = bob
    g1 = g1
    g2 = g2
    g3 = g3
    User = {alice, bob}
    Group = {g1, g2, g3}
    Request = {r1, r2}
    SessionId = {s1, s2}
    TokenId = {t1}
    None = None
    Existing = {alice, bob}
    Bootstrap = alice
    Snapshots <- BothOrders
    Operations <- EachOther
    Handling = {r1, r2}
    MaxHash = 2
PROPERTY
    LastAdminStays
CHECK_DEADLOCK FALSE
