CONSTANTS
    Processes = {p1, p2}
    TopNames = {"a"}
    SubNames = {"x"}
    Sub = "d"
    SlotsPer = 2
    MaxOpens = 2
    MaxAllOpens = 4
    MaxSize = 1
    Blocks = {0, 1, 2, 3, 4, 5, 6, 7, 8, 9, 10, 11, 12}
    Udp = {p1, p2, u}
    Raw = {r1, r2}
    Hosts = {h1}
    Domains = {}
    NoHost = NoHost
    UserPorts = {1, 2}
    PortCount = 4
    DynamicPortStart = 2
    DynamicPortEnd = 3
    MaxAttempts = 2
    MaxBoundPorts = 2
    MaxUdpSockets = 2
    MaxRawSockets = 1
    MaxQueueSize = 1
SYMMETRY Symmetry
SPECIFICATION MCSpec
INVARIANT OpenInodesLive
