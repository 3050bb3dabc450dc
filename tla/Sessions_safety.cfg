SPECIFICATION Spec
CONSTANTS
    Token = {t1, t2, t3}
    User = {u1, u2, u3}
    Request = {r1, r2}
    Reaper = reaper
    NoToken = noToken
    NoLimit = noLimit
    IdleTimeout = 1
    MaxGlobal = 2
    MaxPerUser = 1
    MaxLatency = 9
    LastArrival = 2
    MaxTime = 2
SYMMETRY Symmetry
INVARIANTS TypeOK GlobalLimitKept UserLimitKept HoldsAccounted TeardownExclusive KnownHasClient
PROPERTIES HeldNeverDrained RegistryKeepsContract
