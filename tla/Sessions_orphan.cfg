SPECIFICATION Spec
CONSTANTS
    Token = {t1, t2, t3}
    User = {u1, u2, u3}
    Request = {r1, r2}
    Reaper = reaper
    NoToken = noToken
    NoLimit = noLimit
    IdleTimeout = 2
    MaxGlobal = 2
    MaxPerUser = 1
    MaxLatency = 9
    LastArrival = 3
    MaxTime = 3
SYMMETRY Symmetry
INVARIANT NoOrphanClient
