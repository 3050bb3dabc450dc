SPECIFICATION FairSpec
CONSTANTS
    Request = {r1, r2, r3}
    None = none
    MaxSlots = 2
INVARIANTS TypeOK SlotsAccounted PublishedClean
PROPERTIES KeepsLine OperationsEnd
CHECK_DEADLOCK FALSE
