SPECIFICATION Spec
CONSTANTS
    Width = 3
    Formats <- MCFormats
    Isas <- MCIsas
    Garbage = 99
INVARIANTS
    TypeOK
    FieldIsCurrent
    FindsTheInstruction
    OperandsAreCurrent
    ConflictsAreReported
PROPERTIES
    DecoderIsBuilt
    DecodeReturns
CHECK_DEADLOCK FALSE
