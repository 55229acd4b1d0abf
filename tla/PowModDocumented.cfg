SPECIFICATION PowModSpec
CONSTANTS
    W = 6
    B = 64
    MaxSize = 5
    Pow <- MCPow
    H = 8
    U = 8
    Precision = 16
    Radicands <- MCRadicands
    LogBases <- MCLogBases
    PowBases <- MCPowBases
    Exponents <- MCExponents
    Moduli <- MCModuli
    GcdArgs <- MCGcdArgs
    Numerators <- MCNumerators
    Shapes <- MCShapes
    TextBases <- MCTextBases
    Texts <- MCTexts
    Printed <- MCPrinted
INVARIANT
    PowModAsDocumented
