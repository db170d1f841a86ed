SPECIFICATION PushSpec
CONSTANTS
    s1 = s1
    d1 = d1
    d2 = d2
    url = url
    None = None
    Subs = {s1}
    Configs = {url}
    Slots = {d1, d2}
    max_concurrency = 2
    MaxSeq = 2
    MaxChanges = 1
PROPERTY
    PushIsRetried
