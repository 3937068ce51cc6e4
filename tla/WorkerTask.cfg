\* Two workers, two jobs, two indexes; two failed calls and two retries.
SPECIFICATION FairSpec
CONSTANTS
    j1 = j1
    j2 = j2
    t1 = t1
    t2 = t2
    Workers = {w1, w2}
    FieldCount = 2
    Jobs = {j1, j2}
    Tenants = {t1, t2}
    JobTenant <- TenantOf
    MaxRetries = 2
    MaxFailures = 2
    None = None
INVARIANTS
    TypeOK
    FailureCanBeRecorded
    UpsertFindsIndexes
    NoJobIsForgotten
PROPERTIES
    JobContractSpec
    JobsGetReady
CHECK_DEADLOCK FALSE
