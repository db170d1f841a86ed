SPECIFICATION Spec
CONSTANTS
    s1 = s1
    s2 = s2
    h1 = h1
    h2 = h2
    None = None
    Subs = {s1}
    Handlers = {h1, h2}
    NoMatch = {}
    ack_deadline = 1
    Extensions = {0, 1}
    retry_policy_explicit = FALSE
    min_backoff = 0
    max_backoff = 0
    max_delivery_attempts = 0
    ForeignAckIds = FALSE
    LEASE_GC_GRACE = 0
    MaxSeq = 2
    MaxTime = 1
    MaxAttempts = 2
    MaxPull = 2
    MaxAckBatch = 1
INVARIANTS
    TypeOK
    NothingLost
    LeasesSurviveCrash
PROPERTIES
    NoEarlyRedelivery
    AckIdNamesOneDelivery
SYMMETRY Symmetry
