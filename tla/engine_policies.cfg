SPECIFICATION Spec
CONSTANTS
    s1 = s1
    s2 = s2
    h1 = h1
    h2 = h2
    None = None
    Subs = {s1, s2}
    Handlers = {h1}
    NoMatch <- MCNoMatch
    ack_deadline = 1
    Extensions = {0, 1}
    retry_policy_explicit = TRUE
    min_backoff = 0
    max_backoff = 2
    max_delivery_attempts = 2
    ForeignAckIds = FALSE
    LEASE_GC_GRACE = 0
    MaxSeq = 2
    MaxTime = 3
    MaxAttempts = 3
    MaxPull = 1
    MaxAckBatch = 1
INVARIANTS
    NothingLost
    LeasesSurviveCrash
    AckIsPermanent

    
    
