\* Two jobs of one document on two worker processes.
SPECIFICATION Spec
CONSTANTS
    Contents = {A, B}
    Corrupt = {}
    Requests = {r1}
    Slots = {s1, s2}
    MaxVersion = 2
    MaxRetries = 1
    None = None
INVARIANTS HashIsOfServedVersion
