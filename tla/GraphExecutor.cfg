CONSTANTS
    k1 = k1
    k2 = k2
    k3 = k3
    Keys = {k1, k2, k3}
    Waitable = {k1, k2}
    Comparable = {k1, k3}
    Graphs <- MCGraphs
    TargetSets <- MCTargets
    Commands <- AllCommands
SPECIFICATION FairSpec
INVARIANTS
    TypeOK
    AppliedMeansDone
    DestroyedMeansGone
    PlanIsCurrent
PROPERTIES
    ImplementsDependencyOrder
    Recovers
