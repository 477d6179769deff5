CONSTANTS
    Users = {u1, u2}
    Requests = {r1, r2, r3}
    NoUser = NoUser
    Manage = Manage
    Capabilities = {Manage}
    MaxConcurrent = 3
    MaxFaults = 1
SPECIFICATION Spec
SYMMETRY Symmetry
CHECK_DEADLOCK FALSE
INVARIANTS
    TypeOK
    SuperAdminSafe
PROPERTIES
    LastManagerGoesOnlyByOverlap
