CONSTANTS
    w1 = w1
    w2 = w2
    Workers <- MCWorkers
    TotalParts = 3
SPECIFICATION FairUploadSpec
INVARIANTS UploadTypeOK NothingLeftOpen
PROPERTIES ImplementsAtomicUpload CancelSettles
\* An upload ends.
CHECK_DEADLOCK FALSE
