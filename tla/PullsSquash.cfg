SPECIFICATION PullSpec
CONSTANTS
    None = None
    m1 = m1  m2 = m2
    Mergers = {m1, m2}
    Closers = {}
    Reopeners = {}
    Deleters = {}
    Expected <- NoneExpected
    Methods = {"squash"}
    MaxHead = 2
    MaxOwn = 1
    Trouble = {"record", "killed"}
INVARIANT LandsOnce
CHECK_DEADLOCK FALSE
