SPECIFICATION Spec
CONSTANTS
    Thread = {p1, p2}
    Subject = {s1, s2, s3}
    Global = global
    NoLimit = noLimit
    Window = 2
    GlobalLimit = 3
    SubjectLimit = 1
    MaxBuckets = 3
    MaxLatency = 3
    MaxTime = 5
SYMMETRY Symmetry
INVARIANTS TypeOK BucketsBounded RetryAfterSuffices
PROPERTY BudgetLastsWindow
