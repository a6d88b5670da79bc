CONSTANTS
    api = api
    web = web
    d1 = d1
    d2 = d2
    Resources = {api, web}
    Domains = {d1, d2}
    Arns = {a1, a2}
    NoArn = noArn
    NoId = noId
    NoDomain = noDomain
    FirstDomain <- MCFirstDomain
    San <- MCSan
    NameDomain <- MCNameDomain
    Renamed = {web}
    ByHand = {d1}
    ZoneSets <- MCZoneSets
    Focus = api
    MaxLooks = 2
SPECIFICATION FairSpec
CHECK_DEADLOCK FALSE
INVARIANTS
    OneCertificateEach
    SuccessIsNotPending
PROPERTIES
    OwnCertificates
    ImplementsContract
    Converges
