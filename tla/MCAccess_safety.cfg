SPECIFICATION Spec
CONSTANTS
    t1 = t1
    t2 = t2
    public = public
    private = private
    metadata = metadata
    Target = {t1, t2}
    Address = {public, private, metadata}
    NonPublic = {private}
    HardDenied = {metadata}
    User = {u1}
    Group = {}
    PolicyId = {p1, p2}
    Proxy = {}
    Request = {r1}
    Direct = Direct
    Content <- TwoModes
    Answers <- Names
    MaxHops = 1
INVARIANTS
    TypeOK
    DialRespectsPolicies
CHECK_DEADLOCK FALSE
