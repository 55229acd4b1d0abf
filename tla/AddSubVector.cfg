SPECIFICATION BothSpec
CONSTANTS
    B = 3
    MaxSize = 3
    Objs = {"x", "y", "z"}
    Aliasings <- Supported
    Pow <- MCPow
    Vecs = {v, w}
    Blocks = {k1, k2, k3}
    NULL = NULL
    Digits = {0, 1}
    MaxCap = 3
    min_alloc_size = 1
    grow_factor = 2
INVARIANTS
    TypeOK
    UnreadIntact
    AssertsHold
    Conservation
    LoopsExact
    ResultExact
    VectorTypeOK
    BlocksOwned
PROPERTIES
    SpansStable
    ImplementsSequences
SYMMETRY AnyBlock
