\* Two worker processes, two versions, two retries: every race of two jobs.
SPECIFICATION FairSpec
CONSTANTS
    Contents = {A, X}
    Corrupt = {X}
    Requests = {r1}
    Slots = {s1, s2}
    MaxVersion = 2
    MaxRetries = 2
    None = None
INVARIANTS TypeOK ServedVersionIsIndexed RetryCountIsAttempt CorruptNeverServed
PROPERTIES CatalogSpec JobContractSpec AttemptsEnd
