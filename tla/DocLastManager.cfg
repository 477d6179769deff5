CONSTANTS
    Users = {u1, u2}
    Requests = {r1, r2}
    NoUser = NoUser
    Manage = Manage
    Capabilities = {Manage}
    MaxConcurrent = 2
    MaxFaults = 0
SPECIFICATION Spec
SYMMETRY Symmetry
CHECK_DEADLOCK FALSE
INVARIANTS
    ManagerRemains
