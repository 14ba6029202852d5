SPECIFICATION BusySpec
CONSTANTS
    Callers = {c1, c2, c3}
    Retries = 1
    Threshold = 3
    ResetTicks = 2
INVARIANTS
    OneProbe
    ClosedBelowThreshold
PROPERTIES
    OperationsSettle
    BreakerRecovers
