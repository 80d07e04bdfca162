SPECIFICATION Spec
CONSTANTS
    q1 = q1
    q2 = q2
    q3 = q3
    a = a
    b = b
    c = c
    ip1 = ip1
    ip2 = ip2
    ip3 = ip3
    sa = sa
    sa2 = sa2
    sb = sb
    NoAddr = NoAddr
    NoIP = NoIP
    NoRequest = NoRequest
    Requests <- OneRequest
    Addr <- ThreeAddr
    IP <- IPs
    IPOf <- NamedHost
    Server <- Servers
    AddrOf <- Ports
    InitServers <- PoolAB
    UserProxies <- RouterC
    Usable <- Supported
    HasFallback = TRUE
    RateLimiting = TRUE
    MaxConcurrent = 2
    TimeoutRetries = 1
    JWTRefreshRetries = 2
    RateLimitRetries = 2
    ComplianceRetries = 2
    Responses <- AllResponses
    HealthChecks = FALSE
    Fetches <- FetchA2
INVARIANTS
    TypeOK
    SendBudget
    BlockedDelivery
