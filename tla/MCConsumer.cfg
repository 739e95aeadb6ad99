SPECIFICATION ConsumerSpec
CONSTANTS
    o1 = o1
    Orders = {o1}
    Calls = {h1, h2, c1}
    Handlers = {h1, h2}
    Clients = {c1}
    Replicas = {r1, r2}
    Diagnoses = {d1}
    NoDiagnosis = NoDiagnosis
    MaxSeq = 6
    Messages <- PaymentStory
    MaxFaults = 1
SYMMETRY Symmetry
INVARIANTS
    ConsumerTypeOK
    AckedEventsWereHandled
    NoPaymentIsDropped
    RefusalsChangeNothing
    SoloAnswersShowTheChange
    OutcomesFollowToldDiagnoses
