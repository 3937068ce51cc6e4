\* One worker process, three versions of two contents, one retry.
SPECIFICATION Spec
CONSTANTS
    Contents = {A, B}
    Corrupt = {}
    Requests = {r1}
    Slots = {s1}
    MaxVersion = 3
    MaxRetries = 1
    None = None
INVARIANTS CurrentFlagAgrees HashIsOfServedVersion SearchNeverEmpties StrayPointsAreUnfinished

