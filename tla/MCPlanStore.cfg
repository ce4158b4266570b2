SPECIFICATION Spec
CONSTANTS
    Caller = {c1, c2, c3}
    PlanId = {i1, i2, i3}
    Limit = {1, 2}
    None = None
SYMMETRY Symmetry
INVARIANTS
    PermalinksAreUnambiguous
    SavedPlansArePresent
    ErasedForGood
    RejectedLeavesNothing
PROPERTIES
    CapacityRespected
    PlansAreImmutable
    PoisonIsFailStop
    ImplementsPlanSpace
