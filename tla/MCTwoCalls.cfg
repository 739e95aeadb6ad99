SPECIFICATION StagesSpec
CONSTANTS
    Orders = {o1, o2}
    Calls = {c1, c2}
    Diagnoses = {d1}
    NoDiagnosis = NoDiagnosis
    MaxSeq = 4
SYMMETRY Symmetry
INVARIANTS
    TypeOK
    UniquePositions
    EveryStageIsAnnounced
    OutcomeFollowsDiagnosis
    RepairOnlyAfterPayment
    SoloRowsAreWhole
    SoloOrdersAnnounceOnce
PROPERTIES
    OrdersAreReceivedOnce
    SoloOrdersFollowLifecycle
    SoloOrdersNeverOvertake
