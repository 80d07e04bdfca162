SPECIFICATION FairSpec
CONSTANTS
    a = a
    b = b
    c = c
    sa = sa
    sa2 = sa2
    sb = sb
    sc = sc
    ip1 = ip1
    x1 = x1
    NoAddr = NoAddr
    NoIP = NoIP
    Addr <- MCAddr
    IP <- MCIP
    IPOf <- MCIPOf
    Server <- MCServer
    AddrOf <- MCAddrOf
    InitServers <- PoolAA
    Fetches <- FetchB
    Blamers <- OneBlamer
    RouterAddrs <- RouterA
    SaveProxy = FALSE
    MaxDials = 1
PROPERTIES
    ChecksEnd
    RotatorRealigns
    BlamedLeave
