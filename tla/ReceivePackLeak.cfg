SPECIFICATION LeakSpec
CONSTANTS
    a = a  b = b  c = c  d = d  t = t  bad = bad  gone = gone
    main = main  dev = dev  devx = devx  pull = pull
    PackA = PackA  PackB = PackB  PackC = PackC  PackD = PackD
    PackBad = PackBad  PackAC = PackAC  PackABC = PackABC
    p1 = p1  p2 = p2
    None = None
    Pushers = {p1, p2}
    Objects <- MCObjects
    Links <- MCLinks
    Requests <- LeakRequests
    Packs <- MCPacks
    Content <- MCContent
    Commits = {a, b, c, d}
    BadTrees = {bad}
    Names <- MCNames
    Branches = {main, dev, devx}
    Pushable = {main, dev, devx}
    Head = main
    Collides <- MCCollides
    Threshold = 3
    InitRef <- MCInitRef
    InitPacks = {PackA, PackC}
    InitKept = {}
    Faults = {"apply"}
PROPERTIES
    CompareAndSwap
