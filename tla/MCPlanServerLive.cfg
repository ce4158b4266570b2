SPECIFICATION Spec
CONSTANTS
    Request = {r1, r2}
    PlanId = {i1}
    Limit = {1}
    None = None
    Traffic <- StoreTraffic
    MaxIdAttempts = 2
PROPERTIES
    EveryRequestEnds
    JobsOutliveHandlers
    MutexIsReleased
