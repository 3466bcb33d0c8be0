SPECIFICATION Spec
CONSTANTS
    i1 = i1
    c1 = c1
    c2 = c2
    r1 = r1
    r2 = r2
    gs = gs
    es = es
    gp = gp
    ep = ep
    d1 = d1
    d2 = d2
    o1 = o1
    o2 = o2
    k1 = k1
    k2 = k2
    Infos = {i1}
    Configs = {c1, c2}
    Providers = {gs, es, gp, ep}
    TableOf <- MCTableOf
    Prefixes = {"a", "b"}
    Bodies <- MCBodies
    Requests = {r1, r2}
    NoId = NoId
    OnlyType = OnlyType
    OnlyId = OnlyId
    Unused = Unused
    Deleted = Deleted
    MaxStoreFaults = 1
    Spaces = {d1, d2}
    OwnerOf <- MCOwnerOf
    PublisherOf <- MCPublisherOf
    Names = {"a", "b", "c"}
    NoName = NoName
    Calls = {k1, k2}
    NoSpace = NoSpace
    MaxRecords = 2
    MaxPublications = 2
    MaxZoneFaults = 1
SYMMETRY MCSymmetry
CONSTRAINT Instance
CHECK_DEADLOCK FALSE
INVARIANTS
    TypeOK
    NamedProviderExists
    NoForgottenPublisher
    RecordFollowsSite
PROPERTIES
    CnameLeadsToPages
