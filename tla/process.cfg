SPECIFICATION FairSpec
CONSTANTS
    a1 = a1
    a2 = a2
    b = b
    c = c
    ip1 = ip1
    ip2 = ip2
    NoAddr = NoAddr
    NoIP = NoIP
    NoFile = NoFile
    Torn = Torn
    Addr <- MCAddr
    IP <- MCIP
    IPOf <- MCIPOf
    Modes <- MCModes
    UserProxies <- MCUser
    Fetches <- MCFetches
    MaxStarts = 3
    MaxActive = 1
INVARIANTS
    TypeOK
    PromisesKept
    BannedStaysOut
PROPERTIES
    ShutdownEnds
\* After the last start the machine may stay off.
CHECK_DEADLOCK FALSE
