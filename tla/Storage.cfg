SPECIFICATION StorageSpec
CONSTANTS
    Keys = {k1}
    Values = {v1}
    Unknown = Unknown
    Readers = {x1, x2}
    Writers = {w1}
    Asked <- Targets
    LooseObjects = {o1}
    LooseReaders = {y1, y2}
    LooseWriters = {u1, u2}
    Detections = {shared, walk}
    Shared = shared
    r1 = r1  r2 = r2  r3 = r3
    a = a  b = b  c = c
    s1 = s1  s2 = s2
    None = None
    New = New
    Gone = Gone
    Repos = {r1, r2, r3}
    Paths = {a, b, c}
    Slots = {s1, s2}
    InitRow <- MCInitRow
    Renames <- SpareName
    Killable = {"create", "fork", "delete", "push"}
    Faults = {"storage", "row"}
    Races = {}
INVARIANTS
    StorageTypeOK
    CacheMatches
    ListsMatch
    RegularReads
    KeepsContent
    OnlyOwnContent
PROPERTIES
    AbsentMeansAbsent
CHECK_DEADLOCK FALSE
