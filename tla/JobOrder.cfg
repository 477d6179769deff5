SPECIFICATION TwoJobs
CONSTANTS
    Jobs = {1, 2}
    Requests = {r1, r2, r3, r4}
    NoRequest = NoRequest
    RequestKinds = {"control", "approve"}
    Inputs = {"granted"}
    Services = {"svcA"}
    ValidServices = {"svcA"}
    DaemonAllowlist = {"svcA"}
    AgentAllowlist = {"svcA"}
    AgentModes = {"disabled", "enabled"}
    Stamps = {0, 1, 2}
    MaxFaults = 0
SYMMETRY RequestSymmetry
INVARIANTS
    OutcomesAreTruthful
PROPERTIES
    ClaimsOldestSecond
