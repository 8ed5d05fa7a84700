CONSTANTS
    Address  <- MCAddress
    QuantMax <- MCQuantMax
SPECIFICATION Spec
INVARIANT ExistsAsDocumented
