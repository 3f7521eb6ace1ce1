SPECIFICATION Spec
CONSTANTS
    Base = 8
    Capacity = 12
    Values = {0, 2, 5, 7}
    MaxLength = 7
    OutLimit = 9
INVARIANTS
    Lossless
    WithinCapacity
    SumsExact
CHECK_DEADLOCK FALSE
