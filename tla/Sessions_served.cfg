SPECIFICATION FairSpec
CONSTANTS
    Token = {t1, t2}
    User = {u1}
    Request = {r1, r2}
    Reaper = reaper
    NoToken = noToken
    NoLimit = noLimit
    IdleTimeout = 2
    MaxGlobal = 1
    MaxPerUser = noLimit
    MaxLatency = 1
    LastArrival = 2
    MaxTime = 4
INVARIANT NoOrphanClient
PROPERTIES DrainedOnlyWhenIdle IdleSessionsEnd
