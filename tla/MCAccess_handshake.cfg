SPECIFICATION Spec
CONSTANTS
    t1 = t1
    t2 = t2
    public = public
    private = private
    metadata = metadata
    Target = {t1, t2}
    Address = {public, private, metadata}
    NonPublic = {private}
    HardDenied = {metadata}
    User = {u1}
    Group = {}
    PolicyId = {p1}
    Proxy = {}
    Request = {r1}
    Direct = Direct
    Content <- TwoModes
    Answers <- PublicOnly
    MaxHops = 1
INVARIANT OnlyCheckedTargetsAsked
CHECK_DEADLOCK FALSE
