SPECIFICATION ServerSpec
CONSTANTS
    s1 = s1
    d1 = d1
    d2 = d2
    url = url
    url2 = url2
    None = None
    Subs = {s1}
    Configs = {url, url2}
    Slots = {d1, d2}
    max_concurrency = 1
    MaxSeq = 1
    MaxChanges = 1
    MaxRequests = 1
    Layerings <- MCLayerings
INVARIANTS
    ServerTypeOK
    StartsIffAcceptable
    NewerFormatUntouched
    
    OneDispatcherPerSub
    NoDeliveryAfterClose
PROPERTIES
    ShutdownTerminates
    WritesGetSynced
    
