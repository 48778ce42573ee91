SPECIFICATION FairServicesSpec
CONSTANTS
    Modules = {"topology", "querier", "lacp", "bfd", "vrrp", "ofctl"}
    PortSeq <- OneAndOne
    HostPorts <- SecondPort
    Unstable = {2}
    Changing <- FirstPort
    LINK_LLDP_DROP = 0
    MaxQueue = 1
    MaxEnv = 1
    NetworkIds = {"a", "b"}
    Macs = {"m"}
    Keys = {1, 2}
    MaxCalls = 6
    Hosts = {1}
    Routers = {3, 4}
    Groups = {"g"}
    Others = {"o"}
    MaxTimers = 2
    MaxConns = 2
    Slaves = {1}
    Srcs = {"s", "t"}
    Timeouts = {3, 90}
    MaxChannel = 3
    MaxChanges = 1
    Auths = {"none"}
    DetectMult = 1
    MaxFaults = 1
    Foreign = {2}
    Configs <- LastVersion
    Changes <- Promotion
    None = None

    
PROPERTIES
    ProbedInTheEnd
    HighestIsMaster
    
    RequestsReturn
CHECK_DEADLOCK FALSE
