SPECIFICATION SmallSpec
CONSTANTS
    B = 3
    MaxSize = 3
    Objs = {"x", "y", "z"}
    Aliasings <- AllSame
    Pow <- MCPow
INVARIANTS
    ResultExact
