SPECIFICATION Spec
CONSTANTS
    Request = {r1, r2}
    Outer = outer
    Inner = inner
    Signal = signal_task
    Memory = {"ordered"}
PROPERTY WaitEndsWithRequests
CHECK_DEADLOCK FALSE
