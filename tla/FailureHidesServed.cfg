\* A re-ingestion that fails after its set_payload.
SPECIFICATION Spec
CONSTANTS
    Contents = {A, B}
    Corrupt = {}
    Requests = {r1}
    Slots = {s1}
    MaxVersion = 2
    MaxRetries = 0
    None = None
INVARIANTS FailureLeavesServedPoints
