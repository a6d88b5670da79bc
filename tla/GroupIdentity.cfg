CONSTANTS
    default = default
    main = main
    it = it
    security = security
    fresh = fresh
    star = star
    eIt = eIt
    eFresh = eFresh
    eMain = eMain
    eReg = eReg
    eBad = eBad
    acct1 = acct1
    acct2 = acct2
    role1 = role1
    arn1 = arn1
    arn2 = arn2
    profile = profile
    Names = {default, main, it, security, fresh}
    Default = default
    Main = main
    Patterns = {star, eIt, eFresh, eMain, eReg, eBad}
    Star = star
    BadPatterns = {eBad}
    Matches <- MCMatches
    NewName <- MCNewName
    None = none
    Accounts = {acct1, acct2}
    RoleNames = {role1}
    Arns = {arn1, arn2}
    Sources = {profile}
    Chain = chain
    SpecFiles <- MCSpecFiles
    Overrides <- MCOverrides
    DefaultConfigs <- MCDefaultConfigs
    web = web
    web2 = web2
    extra = extra
    db = db
    eWeb = eWeb
    eNew = eNew
    eDb = eDb
    eOfIt = eOfIt
    eNone = eNone
    vpc = vpc
    novpc = novpc
    r = r
    s = s
    t = t
    id = id
    tag = tag
    v1 = v1
    v2 = v2
    TagKeys = {id, tag}
    TagValues = {v1, v2}
    NoTag = notag
    Reserved = {id}
    ResourceId = id
    Ids = {web, web2, extra, db}
    Taken <- MCTaken
    Vpcs = {vpc}
    NoVpc = novpc
    Rules = {r, s, t}
    Id <- MCId
    GroupPatterns = {star, eWeb, eNew, eDb, eOfIt, eNone}
    BadGroupPatterns = {eNone}
    GroupMatches <- MCGroupMatches
    NewGroup <- MCNewGroup
    SpecGroups <- MCSpecGroups
    OverrideGroups <- MCOverrideGroups
SPECIFICATION MCSpec
CHECK_DEADLOCK FALSE
INVARIANT IdentityReaches
