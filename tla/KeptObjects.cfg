SPECIFICATION Spec
CONSTANTS
    base = base  tree = tree  commit = commit
    main = main  dev = dev
    None = None
    Objects <- MCObjects
    Links <- MCLinks
    Commits = {base, commit}
    Writes <- MCWrites
    Names = {main, dev}
    Head = main
    InitRef <- MCInitRef
    InitPacks <- MCInitPacks
    KeepFor = 2
    KeptThreshold = 2
    PackThreshold = 2
    Failures = {"abort"}
INVARIANTS
    PromisedVisible
    WholePacks
PROPERTIES
    HistoryStays
