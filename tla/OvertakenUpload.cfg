\* The job of an older upload that runs after that of a newer one.
SPECIFICATION Spec
CONSTANTS
    Contents = {A, B}
    Corrupt = {}
    Requests = {r1}
    Slots = {s1}
    MaxVersion = 2
    MaxRetries = 1
    None = None
INVARIANTS LatestUploadIsServed
