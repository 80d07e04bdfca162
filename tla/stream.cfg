SPECIFICATION TimedSpec
CONSTANTS
    CheckLines = 2
    ThinkingTimeout = 1
    IdleReadTimeout = 2
    MaxLines = 5
    MaxTime = 5
INVARIANTS
    RelayedInOrder
    DoneEndsTheStream
    AbortOnlyWhileThinking
    SilenceIsBounded
\* A stream that has ended has no more steps.
CHECK_DEADLOCK FALSE
