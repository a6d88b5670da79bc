SPECIFICATION FairSpec
CONSTANTS
    Kinds <- AllKinds
    MaxDifferent = 2
INVARIANTS
    Unobstructed
PROPERTIES
    ImplementsContract
    Recovers
CHECK_DEADLOCK FALSE
