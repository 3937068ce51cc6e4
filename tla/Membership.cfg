\* Two overlapping requests of a user and of two that share an email; members
\* and owners; three different audit rows.
SPECIFICATION Spec
CONSTANTS
    Users = {ann, bob, cid}
    Twins = {bob, cid}
    Requests = {r1, r2}
    Grants = {0, 2}
    MaxRows = 3
    None = None
INVARIANTS
    TypeOK
    LogTellsRanksHeld
    IdentityIsReal
    MembersHaveAccounts
    AccountsDiffer
PROPERTY
    UnmanagedIsFrozen
SYMMETRY Alike
