SPECIFICATION Spec
CONSTANTS
    MaxRequests = 3
    Window = 7
    MinInterval = 2
    MaxTime = 16
INVARIANTS
    TypeOK
    WindowLimit
    Spacing
    DenialsAreDue
