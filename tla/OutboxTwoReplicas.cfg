SPECIFICATION Spec
CONSTANTS
    Replicas = {r1, r2}
    Events = {e1, e2}
    PageSize = 1
    MaxFaults = 2
INVARIANTS
    TypeOK
    OnlyFaultsLoseEvents
    CopiesAreBounded
    CausesComeFirst
PROPERTIES
    ImplementsRelay
    EveryEventIsRelayed
