SPECIFICATION BothSpec
CONSTANTS
    W = 2
    B = 4
    Pow <- MCPow
    Pow2 <- MCPow2
    MaxDigits = 2
    MaxShift = 5
    MaxSize = 5
    Objs = {"x", "y", "z"}
    Aliasings <- AllAliasings
    Threads = {t1, t2}
    Ptrs = {p1, p2, p3}
    Slots = {s1, s2, s3, s4}
    Values = {empty, v1, v2}
    Empty = empty
    NoSlot = NoSlot
    Unborn = Unborn
INVARIANTS
    TypeOK
    UnreadIntact
    BitsExact
    PoolTypeOK
    SoleOwner
    NoLeak
    Isolation
SYMMETRY Symmetry
