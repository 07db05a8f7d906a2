SPECIFICATION FairSpec
CONSTANTS
    t1 = t1
    t2 = t2
    public = public
    private = private
    metadata = metadata
    Target = {t1, t2}
    Address = {public, private, metadata}
    NonPublic = {private}
    HardDenied = {metadata}
    User = {u1}
    Group = {g1}
    PolicyId = {p1}
    Proxy = {x1}
    Request = {r1}
    Direct = Direct
    Content <- DenyT1
    Answers <- PublicOnly
    MaxHops = 1
INVARIANT RevokedEgressNeverDialled
PROPERTY RequestsFinish
CHECK_DEADLOCK FALSE
