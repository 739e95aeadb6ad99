SPECIFICATION Spec
CONSTANTS
    Orders = {o1, o2, o3}
    Calls = {c1}
    Diagnoses = {d1}
    NoDiagnosis = NoDiagnosis
    MaxSeq = 7
SYMMETRY Symmetry
PROPERTIES
    KeepsPromise
