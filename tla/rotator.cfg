SPECIFICATION FairSpec
CONSTANTS
    a = a
    b = b
    c = c
    NoAddr = NoAddr
    Addr <- MCAddr
    MaxLen = 3
    AutoRotate = TRUE
INVARIANTS
    TypeOK
    IndexInRange
PROPERTIES
    RoundRobinSpec
    NoRotationAfterStop
    TriggerServed
    StopTerminates
