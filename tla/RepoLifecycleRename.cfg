SPECIFICATION RepoSpec
CONSTANTS
    r1 = r1  r2 = r2  r3 = r3
    a = a  b = b  c = c
    s1 = s1  s2 = s2
    None = None
    New = New
    Gone = Gone
    Repos = {r1, r2}
    Paths = {a, b, c}
    Slots = {s1, s2}
    InitRow <- PairInitRow
    Renames <- TakenName
    Killable = {}
    Faults = {}
    Races = {"names"}
INVARIANTS
    KeepsContent
CHECK_DEADLOCK FALSE
