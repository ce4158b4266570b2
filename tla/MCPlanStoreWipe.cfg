SPECIFICATION Spec
CONSTANTS
    Caller = {c1, c2}
    PlanId = {i1}
    Limit = {1}
    None = None
PROPERTIES
    WipeReclaimsSpace
