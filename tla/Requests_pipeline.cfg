CONSTANTS
    Request = {1, 2}
    Token = {t0, t1}
    Existing = {t0}
    NoToken = NoToken
    MaxSessions = 2
SPECIFICATION FairSpec
CHECK_DEADLOCK FALSE
INVARIANTS
    ScopedSessionEnds
    AnswersTrue
PROPERTIES
    ScopedSessionsGo
