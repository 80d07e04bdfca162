SPECIFICATION FairSpec
CONSTANTS
    Kinds <- MCKinds
    DomainLens <- MCLens
    BodyLens <- MCBodies
    MaxTunnel = 2
INVARIANTS
    TypeOK
    TunnelIntact
    TunnelConfirmed
    NoLeak
PROPERTIES
    DialEnds
\* The call has returned.
CHECK_DEADLOCK FALSE
