SPECIFICATION Spec
CONSTANTS
    Users = {admin, user}
    SuperAdmin = admin
    Managers = {admin}
    Sessions = {s1, s2}
    NoSession = NoSession
    Tokens = {t1}
    NoToken = NoToken
    Clients = {c1}
    TTL = 2
    IdleTimeout = 1
    TokenTTL = 1
    MaxTime = 0
    MaxFaults = 1
INVARIANTS
    DisablingRevokesSessions
