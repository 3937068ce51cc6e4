\* Two tenants with one admin each, two requests over two connections.
SPECIFICATION Spec
CONSTANTS
    t1 = t1
    t2 = t2
    ann = ann
    bob = bob
    Tenants = {t1, t2}
    Users = {ann, bob}
    Workspaces = {w1, w2}
    Keys = {k1}
    TenantMembers <- AdminRows
    Connections = {c1, c2}
    Requests = {r1, r2}
    None = None
INVARIANTS
    TypeOK
    PoolIsUnscoped
    HandlersSeeTheirTenant
    MemberRowsAgree
    WorkspaceIsComplete
    ScopeIsEarned
PROPERTY
    RevokedByItsTenant
SYMMETRY Alike
