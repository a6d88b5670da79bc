CONSTANTS
    p = p
    self = self
    all = all
    d = d
    e = e
    x = x
    y = y
    InPerms = {p, self}
    OutPerms = {all}
    AllTraffic = all
    OwnGroup = self
    Descs = {d, e}
    NoDesc = d
    Specs <- MCSpecs
    Tags = {x, y}
    WantedTags = {x}
    MaxRetries = 2
SPECIFICATION FairSpec
CHECK_DEADLOCK FALSE
PROPERTIES
    OnlyTowardsSpec
    ImplementsContract
    Converges
