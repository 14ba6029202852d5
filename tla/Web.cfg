SPECIFICATION RunSpec
CONSTANTS
    None = None
    \* pull requests
    m1 = m1  m2 = m2  e1 = e1  e2 = e2  d1 = d1
    Mergers = {m1, m2}
    Closers = {e1}
    Reopeners = {e2}
    Deleters = {d1}
    Expected <- MCExpected
    Methods = {"merge", "squash", "rebase"}
    MaxHead = 2
    MaxOwn = 1
    Trouble = {"conflict", "record", "follow-up", "late", "killed"}
    \* release assets
    s1 = s1  s2 = s2  small = small  big = big
    Slots = {s1, s2}
    MaxAssets = 2
    Bytes = {small, big}
    SizeOf <- MCSizeOf
    Declared = 1
    Overlaps = {"put"}
    AssetTrouble = {"storage", "row", "killed"}
    \* login codes
    x1 = x1  x2 = x2  u1 = u1  u2 = u2
    Users = {u1, u2}
    Exchangers = {x1, x2}
    Lifetime = 3
    Interval = 1
    SlowDownStep = 1
    MaxClock = 5
    MaxSlowDowns = 2
    CodeTrouble = {"insert", "killed"}
    \* rate limits
    i1 = i1  i2 = i2  short = short  long = long  api = api
    Instances = {i1, i2}
    AuthKeys = {short, long}
    RequestKeys = {api}
    Second = 2
    Window <- MCWindow
    Limit <- MCLimit
    Amounts = {1}
    PruneInterval = 2
    MaxNow = 5
    MaxCount <- MCMaxCount
    \* trees
    n1 = n1  n2 = n2  x = x  y = y
    Names = {n1, n2}
    Lines = {1, 2}
    Binary = Binary
    TreeEntries <- MCTreeEntries
    Depth <- MCDepth
    MaxDepth = 3
INVARIANTS
    WebTypeOK
    MergedIsClosed
    NeverClosedUnmerged
    LandsReviewedHead
    OneTokenPerCode
    CountedUnlessCut
    MemoryEndsInTime
    TreesMerge
PROPERTIES
    MergesOnce
    AssetKept
    PublishedBytes
    PollsKeepInterval
SYMMETRY MCSymmetry
CHECK_DEADLOCK FALSE
