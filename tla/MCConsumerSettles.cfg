SPECIFICATION DiagnosedSpec
CONSTANTS
    o1 = o1
    Orders = {o1}
    Calls = {h1, h2}
    Handlers = {h1, h2}
    Clients = {}
    Replicas = {r1, r2}
    Diagnoses = {d1}
    NoDiagnosis = NoDiagnosis
    MaxSeq = 6
    Messages <- InvalidStory
    MaxFaults = 1
PROPERTIES
    EveryEventIsSettled
