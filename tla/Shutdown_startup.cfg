SPECIFICATION FairSpec
CONSTANTS
    Request = {r1}
    Outer = outer
    Inner = inner
    Signal = signal_task
    Memory = {"ordered"}
PROPERTY ShutdownEnds
CHECK_DEADLOCK FALSE
