SPECIFICATION Spec
CONSTANTS
    UsizeMax = 7
    LastYear = 2401
INVARIANTS
    SendsSelected
    StatusRight
    DateRight
