CONSTANTS
    Address  <- MCAddress
    QuantMax <- MCQuantMax
SPECIFICATION Spec
INVARIANTS
    TypeOK
    CrescentOrder
    ExistsIsMembership
PROPERTIES
    RefinesBag
