SPECIFICATION Spec
CONSTANTS
    Jobs = {1}
    Requests = {r1, r2, r3}
    NoRequest = NoRequest
    RequestKinds = {"control", "approve", "reject", "detail"}
    Inputs = {"granted", "denied", "malformed"}
    Services = {"svcA", "svcB", "svcC", "svcD"}
    ValidServices = {"svcA", "svcB", "svcC"}
    DaemonAllowlist = {"svcA", "svcB"}
    AgentAllowlist = {"svcA"}
    AgentModes = {"disabled", "enabled"}
    Stamps = {0}
    MaxFaults = 1
SYMMETRY RequestSymmetry
INVARIANTS
    TypeOK
    EffectsAreAuthorised
    AtMostOneDispatch
    WorkerHoldsItsJob
    OutcomesAreTruthful
    AuditNeverLies
    ToldStatusWasReached
    SuccessIsAudited
    RefusalsAreInert
PROPERTIES
    ImplementsLifecycle
