\* Two workers, two migrations on one endpoint, limit 1.
CONSTANTS
    w1 = w1
    w2 = w2
    e1 = e1
    e2 = e2
    Process <- Workers
    M = 2
    Endpoints <- Shared
    Limit = 1
    MaxIncidents = 0
SPECIFICATION SchedulingSpec
INVARIANTS EndpointLimitRespected
