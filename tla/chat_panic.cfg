SPECIFICATION Spec
CONSTANTS
    q1 = q1
    q2 = q2
    q3 = q3
    a = a
    b = b
    c = c
    ip1 = ip1
    ip2 = ip2
    ip3 = ip3
    sa = sa
    sa2 = sa2
    sb = sb
    NoAddr = NoAddr
    NoIP = NoIP
    NoRequest = NoRequest
    Requests <- OneRequest
    Addr <- TwoAddr
    IP <- IPs
    IPOf <- TwoIPs
    Server <- Servers
    AddrOf <- Ports
    InitServers <- PoolAB
    UserProxies <- Nothing
    Usable <- Supported
    HasFallback = FALSE
    RateLimiting = FALSE
    MaxConcurrent = 2
    TimeoutRetries = 1
    JWTRefreshRetries = 2
    RateLimitRetries = 1
    ComplianceRetries = 1
    Responses <- Unauthorized
    HealthChecks = FALSE
    Fetches <- NoFetches
INVARIANTS
    NoPanic
