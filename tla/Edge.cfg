CONSTANTS
    A = A
    CNAME = CNAME
    NS = NS
    TXT = TXT
    simple = simple
    w1 = w1
    w2 = w2
    v1 = v1
    v2 = v2
    lb = lb
    r1 = r1
    r2 = r2
    Types <- MCTypes
    Cname = CNAME
    Ids <- MCIds
    Simple = simple
    Values = {v1, v2}
    Targets = {lb}
    Records = {r1, r2}
    Definitions <- MCDefinitions
    HandSets <- MCHandSets
    ApexSets <- MCApexSets
    FocusRecord = r1
    MaxSets = 4
    o1 = o1
    o2 = o2
    cell = cell
    web = web
    other = other
    OriginIds = {o1, o2}
    OriginDomains = {cell, web, other}
    Shown <- MCShown
    Declarations <- MCDeclarations
    HandOrigins <- MCHandOrigins
SPECIFICATION MCFairSpec
CHECK_DEADLOCK FALSE
PROPERTIES
    OthersKept
    EdgeContract
    EdgeConverges
