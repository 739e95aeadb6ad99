SPECIFICATION Spec
CONSTANTS
    Replicas = {r1}
    Events = {e1}
    PageSize = 1
    MaxFaults = 1
INVARIANTS
    MarkedEventsReachTheBroker
