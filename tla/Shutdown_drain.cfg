SPECIFICATION FairSpec
CONSTANTS
    Request = {r1, r2}
    Outer = outer
    Inner = inner
    Signal = signal_task
    Memory = {"ordered", "weak"}
INVARIANTS TypeOK InFlightExact
PROPERTIES DrainKeepsContract DrainEnds
CHECK_DEADLOCK FALSE
