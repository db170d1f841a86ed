SPECIFICATION StreamSpec
CONSTANTS
    s1 = s1
    a = a
    b = b
    None = None
    Subs = {s1}
    Streams = {a, b}
    Handlers <- MCHandlers
    max_outstanding_messages = 1
    max_outstanding_bytes = 0
    NoMatch = {}
    ack_deadline = 1
    Extensions = {}
    retry_policy_explicit = FALSE
    min_backoff = 0
    max_backoff = 0
    max_delivery_attempts = 0
    ForeignAckIds = FALSE
    LEASE_GC_GRACE = 0
    MaxSeq = 1
    MaxTime = 1
    MaxAttempts = 2
    MaxPull = 1
    MaxAckBatch = 1
PROPERTY
    AckIdNamesOneDelivery
