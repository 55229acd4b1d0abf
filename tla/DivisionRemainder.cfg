SPECIFICATION DivisionSpec
CONSTANTS
    B = 6
    MaxSize = 6
    Pow <- MCPow
    Dividends <- UpTo3Digits
    Divisors <- UpTo2Digits
INVARIANTS
    XContainsRemainder
