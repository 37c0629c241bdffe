\* Two workers, three migrations, limit 1.
CONSTANTS
    w1 = w1
    w2 = w2
    e1 = e1
    e2 = e2
    Process <- Workers
    M = 3
    Endpoints <- Crossing
    Limit = 1
    MaxIncidents = 1
SPECIFICATION FairSchedulingSpec
INVARIANTS SchedulingTypeOK OneRunner
PROPERTIES EveryMigrationRuns
