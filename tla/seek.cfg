SPECIFICATION SeekSpec
CONSTANTS
    h1 = h1
    None = None
    Handlers = {h1}
    Retentions = {1, 2}
    SeekTimes = {1}
    MAX_SNAPSHOT_LIFETIME = 2
    MIN_SNAPSHOT_REMAINING_LIFETIME = 1
    MaxSeeks = 1
    MaxSeq = 2
    MaxTime = 2
INVARIANTS
    SeekTypeOK
    
    NothingLostButBySeek
PROPERTIES
    
    SeekStartsAfresh
