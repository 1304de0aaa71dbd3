SPECIFICATION Spec
CONSTANTS
    static = static
    lease = lease
    router = router
    near = near
    far = far
    nearname = nearname
    farname = farname
    badname = badname
    s1 = s1
    s2 = s2
    Hosts <- MCHosts
    Names <- MCNames
    BadNames <- MCBadNames
    AddressOf <- MCAddressOf
    LocalNet <- MCLocalNet
    Router = router
    StaticIp = static
    PublicDns = far
    Servers = {s1}
    LeaseOf <- MCLeaseOf
    DnsOf <- MCDnsOf
    None = None
    DhcpAttempts = 2
    DnsAttempts = 2
    PingAttempts = 2
    MaxCalls = 2
INVARIANTS
    AnswerIsForName
CHECK_DEADLOCK FALSE
