SPECIFICATION ReuseSpec
CONSTANTS
    W = 2
    B = 4
    Pow <- MCPow
    Pow2 <- MCPow2
    MaxDigits = 2
    MaxShift = 5
    MaxSize = 5
    Objs = {"x", "y", "z"}
    Aliasings <- AllAliasings
INVARIANTS
    LShiftExact
