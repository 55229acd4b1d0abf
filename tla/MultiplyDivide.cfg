SPECIFICATION BothSpec
CONSTANTS
    B = 6
    MaxSize = 6
    MaxDigits = 3
    Objs = {"x", "y", "z"}
    NONE = "none"
    Aliasings <- Supported
    Pow <- MCPow
    MinKaratsuba = 3
    MaxDepth = 3
    Stale <- MCStale
    Dividends <- UpTo3Digits
    Divisors <- SomeDivisors
INVARIANTS
    KTypeOK
    UnreadIntact
    RowsConserve
    LevelsExact
    ResultExact
    DivisionTypeOK
    QuotientSoFar
    EstimateClose
    SpansReduced
    FloorDivision
