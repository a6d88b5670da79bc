CONSTANTS
    id = id
    name = name
    a = a
    b = b
    none = none
    v1 = v1
    v2 = v2
    TagKeys = {id, name, a, b}
    TagValues = {v1, v2}
    NoTag = none
    Reserved = {id}
    ResourceId = id
    Id = v1
    NameKey = name
    Name = v2
    OwnTags <- MCOwnTags
    GlobalTags <- MCGlobalTags
    MaxTags = 3
SPECIFICATION FairSpec
CHECK_DEADLOCK FALSE
INVARIANTS
    TypeOK
    SuccessMeansSynced
    IgnoredKeysHideOnlyThemselves
PROPERTIES
    NoTagGap
    Converges
