SPECIFICATION ServicesSpec
CONSTANTS
    Modules = {"topology", "network", "snooper", "querier", "lacp", "bfd", "vrrp"}
    PortSeq <- OneAndTwo
    HostPorts = {}
    Unstable = {}
    Changing = {}
    LINK_LLDP_DROP = 0
    MaxQueue = 1
    MaxEnv = 1
    NetworkIds = {"a", "b"}
    Macs = {"m"}
    Keys = {1, 2}
    MaxCalls = 6
    Hosts = {1, 2}
    Routers = {3, 4}
    Groups = {"g"}
    Others = {"o"}
    MaxTimers = 2
    MaxConns = 2
    Slaves = {1}
    Srcs = {"s", "t"}
    Timeouts = {3, 90}
    MaxChannel = 3
    MaxChanges = 2
    Auths = {"none", "keyed", "meticulous"}
    DetectMult = 1
    MaxFaults = 1
    Foreign = {2}
    Configs <- BothVersions
    Changes <- BothChanges
    None = None
INVARIANTS
    
    
    PeersAsKnown
CHECK_DEADLOCK FALSE
