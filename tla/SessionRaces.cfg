SPECIFICATION Spec
CONSTANTS
    Users = {admin, user}
    SuperAdmin = admin
    Managers = {admin}
    Sessions = {s1, s2, s3}
    NoSession = NoSession
    Tokens = {t1}
    NoToken = NoToken
    Clients = {c1, c2}
    TTL = 2
    IdleTimeout = 1
    TokenTTL = 1
    MaxTime = 2
    MaxFaults = 1
SYMMETRY Symmetry
INVARIANTS
    TypeOK
    EndedStaysEnded
    TokensAreUsedOnce
    DisabledAreSignedOut
