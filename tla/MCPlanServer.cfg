SPECIFICATION Spec
CONSTANTS
    Request = {r1, r2}
    PlanId = {i1, i2}
    Limit = {1, 2}
    None = None
    Traffic <- AllTraffic
    MaxIdAttempts = 2
SYMMETRY Symmetry
INVARIANTS
    ServerInv
    LinkLeadsToPlan
    RefusalHasNoEffect
PROPERTIES
    ImplementsPlanService
