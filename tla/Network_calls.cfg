SPECIFICATION Spec
CONSTANTS
  gateway = gateway
  far = far
  NoHost = NoHost
  Self = Self
  Udp = {}
  Raw = {r1}
  Hosts <- TwoHosts
  Neighbours <- OnlyGateway
  Gateway = gateway
  DnsServer = far
  DnsPort = 3
  Domains = {"d1"}
  PortCount = 4
  DynamicPortStart = 2
  DynamicPortEnd = 3
  MaxAttempts = 1
  MaxBoundPorts = 1
  MaxUdpSockets = 1
  MaxRawSockets = 1
  MaxQueueSize = 1
  UserPorts = {1}
  BootCalls <- AllAtBoot
  Traffic <- Requests
  MaxCacheEntries = 1
  RingSize = 2
  TxRingSize = 1
  MaxRequestRetries = 1
  MaxPolls = 1
  MaxDepth = 4
INVARIANT RxInStep
 
