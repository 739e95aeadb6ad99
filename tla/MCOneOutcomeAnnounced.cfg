SPECIFICATION Spec
CONSTANTS
    Orders = {o1, o2}
    Calls = {c1, c2}
    Diagnoses = {d1}
    NoDiagnosis = NoDiagnosis
    MaxSeq = 3
INVARIANTS
    OneOutcomeAnnounced
