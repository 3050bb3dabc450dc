SPECIFICATION Spec
CONSTANTS
    Session = {s1}
    Job = {j1}
    Client = {c1, c2}
    None = none
    MaxJobs = 2
    Retention = 1
INVARIANT NoJobAfterDelete
CHECK_DEADLOCK FALSE
