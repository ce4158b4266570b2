SPECIFICATION Spec
CONSTANTS
    Process = {p1, p2}
    OldPlan = {o1}
    NewPlan = {n1}
    Setting <- SomeSettings
    None = None
    MaxFaults = 3
INVARIANTS
    StartupInv
    OnlyOriginsAreUsed
    ServesMigratedTable
    OldPlansSurvive
PROPERTIES
    StartsKeepPlans
    StartSucceeds
