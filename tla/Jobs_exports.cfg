SPECIFICATION FairSpec
CONSTANTS
    Session = {s1, s2}
    Job = {j1, j2}
    Client = {c1, c2}
    None = none
    MaxJobs = 1
    Retention = 1
INVARIANTS TypeOK JobsBounded UnfinishedJobHolds RecordsConsistent
PROPERTIES TerminalIsFinal JobsPass
CHECK_DEADLOCK FALSE
