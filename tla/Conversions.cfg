SPECIFICATION ExampleSpec
CONSTANTS
    B = 16
    MaxSize = 1
    Pow <- MCPow
    Ints = {0}
    Types <- MCTypes
INVARIANTS
    ConversionsFaithful
