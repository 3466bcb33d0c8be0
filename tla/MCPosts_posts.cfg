SPECIFICATION Spec
CONSTANTS
    s1 = s1
    f1 = f1
    f2 = f2
    c1 = c1
    c2 = c2
    c3 = c3
    r1 = r1
    r2 = r2
    a1 = a1
    a2 = a2
    a3 = a3
    p1 = p1
    m1 = m1
    m2 = m2
    o1 = o1
    e1 = e1
    e2 = e2
    h1 = h1
    x1 = x1
    x2 = x2
    Sites = {s1}
    Posts = {f1, f2}
    NoPost = NoPost
    TitleOf <- MCTitleOf
    ServiceOf <- MCServiceOf
    MaxTasks = 2
    MaxWorkspaces = 2
    MaxTaskRestarts = 1
    Submissions = {r1, r2}
    Batches <- MCBatches
    Targets <- MCTargets
    ConfigIds = {c1, c2, c3}
    OwnConfigs = {c1, c2}
    OthersConfigs = {}
    KeyOf <- MCKeyOf
    NoTitle = "none"
    MaxDirectories = 2
    Accounts = {g1}
    Triggers = {t1, t2}
    Polls = {l1, l2}
    Connections = {n1, n2}
    MaxSyncs = 3
    MaxBindings = 2
    Sockets = {a1, a2, a3}
    People = {p1}
    BearerOf <- MCBearerOf
    Updates = {u1, u2}
    MaxCount = 3
    Administrators = {m1, m2}
    Owners = {o1}
    EntriesOf <- MCEntriesOf
    Certified = {e1}
    PageOf <- MCPageOf
    MaxJobs = 3
    MaxRestarts = 2
    Listings = {k1, k2}
    Files = {x1, x2}
    Publishers <- MCPublishers
    Accounted = {h1, h2}
    NoAddress = NoAddress
    MaxPushes = 2
CONSTRAINT Instance
CHECK_DEADLOCK FALSE
INVARIANTS
    TypeOK
    SuccessIsPushed
    WorkIsOwned
    ReturnedRowsAreLinked
    RowsAreOfPassedPosts
    OneSpider
    RegisteredIsOpen
    SupersededIsNotShown
    OrderedOnce
    RecordedIsComplete
    OrderMatchesSite
    ListIsOfOneCommit
PROPERTIES
    PagesAreOfThePublisher
