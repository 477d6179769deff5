SPECIFICATION FairSpec
CONSTANTS
    Jobs = {1}
    Requests = {r1, r2}
    NoRequest = NoRequest
    RequestKinds = {"control", "approve"}
    Inputs = {"granted"}
    Services = {"svcA"}
    ValidServices = {"svcA"}
    DaemonAllowlist = {"svcA"}
    AgentAllowlist = {"svcA"}
    AgentModes = {"disabled", "enabled"}
    Stamps = {0}
    MaxFaults = 1
PROPERTIES
    ApprovedIsClaimed
    ClaimedJobSettles
