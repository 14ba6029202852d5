SPECIFICATION Spec
CONSTANTS
    Instances = {i1, i2}
    Oids = {old, new}
    None = None
    TTL = 2
    MaxRead = 1
    Free = Free
    Unread = Unread
PROPERTIES
    MovesFromBase
CHECK_DEADLOCK FALSE
