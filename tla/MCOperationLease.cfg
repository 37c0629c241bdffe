CONSTANTS
    p1 = p1
    p2 = p2
    p3 = p3
    Process <- Processes
    TTL = 2
    MaxTime = 5
    MaxOwners = 4
SYMMETRY Symmetry
SPECIFICATION LeaseSpec
INVARIANTS LeaseTypeOK OneHolder
PROPERTIES LeaseKept
\* The clock and the owner names are bounded.
CHECK_DEADLOCK FALSE
