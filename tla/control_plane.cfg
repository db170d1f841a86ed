CONSTANTS
    Handlers = {h1, h2}
    TopicNames = {t1}
    SubNames = {s1}
    SnapNames = {n1}
    None = None
    Present = Present
    MaxOps = 5
    MaxCrashes = 1
    Counts = {0, 1, 1000, 1001}
    MaxUpdates = 2
    k1 = k1
    k2 = k2
    a = a
    b = b
    MaxTokens = 9
    NameCount = 4
    DEFAULT_PAGE_SIZE = 3
    PageSizes = {0, 1, 2}
    MaxChanges = 3
SPECIFICATION Spec
SYMMETRY Symmetry
INVARIANTS
    NamesResolve
    SubscriptionRowsAgree
    IdsNeverCollide
    DeletedTopicIsMarked
    PublishedIsKept
    RecreateRestores
    UpdatesAreExact
    
    
    ListingIsComplete
CHECK_DEADLOCK FALSE
