----------------------------- MODULE TenantScope -----------------------------
(***************************************************************************)
(* Requests of several tenants over one connection pool: the dependencies  *)
(* of apps/api/deps/rbac.py find out who asks and for which tenant, set    *)
(* app.current_tenant_id on whichever connection the session has, and the  *)
(* handlers rely on row level security from there on. A session takes a    *)
(* connection with the first statement of a transaction and gives it back  *)
(* when the transaction ends, so one request may use several.              *)
(*                                                                         *)
(* users, tenant_members and workspace_members have no policy; workspaces, *)
(* documents, api_keys and audit_log have. Ranks, and the accounts that a   *)
(* membership needs, are in Membership.                                    *)
(*                                                                         *)
(* A definition followed by one of the same parameters under its plain     *)
(* name is a fault of that code; no action uses one.                       *)
(***************************************************************************)
EXTENDS TenantSetting

CONSTANTS
    Tenants, Users, Workspaces, Keys,
    TenantMembers,  \* the tenant_members rows of rank admin: <<tenant, user>> (fixed)
    Connections,    \* the pool
    Requests        \* requests that may be under way at the same time

ASSUME NoneAssumption ==
    /\ None \notin Tenants /\ None \notin Users /\ None \notin Workspaces
    /\ None \notin Keys /\ None \notin Connections

VARIABLES
    workspace_tenant,  \* workspaces.tenant_id; None: no such row
    member,            \* workspace -> user -> workspace_members.tenant_id
    key_tenant,        \* api_keys.tenant_id; None: no such row
    revoked,           \* keys whose row has revoked_at
    documents,         \* documents rows: [workspace, tenant]
    setting,           \* connection -> its setting in Postgres
    request            \* request -> what its session and its handler hold

rows == <<workspace_tenant, member, key_tenant, revoked, documents>>
vars == <<rows, setting, request>>

\* Past the role check: the handler and its commit run.
Handling == {"authorized", "creating", "adding", "removing", "issuing", "revoking",
             "uploading", "reading"}
PCs == Handling \cup {"idle", "arrived", "known", "resolved", "looking_up", "uploaded"}

RequestStates ==
    [pc : PCs, user : Users \cup {None}, key : Keys \cup {None},
     workspace : Workspaces \cup {None}, tenant : Tenants \cup {None},
     target : Workspaces \cup Users \cup Keys \cup {None},
     connection : Connections \cup {None}]

Idle == [pc |-> "idle", user |-> None, key |-> None, workspace |-> None,
         tenant |-> None, target |-> None, connection |-> None]

TypeOK ==
    /\ workspace_tenant \in [Workspaces -> Tenants \cup {None}]
    /\ member \in [Workspaces -> [Users -> Tenants \cup {None}]]
    /\ key_tenant \in [Keys -> Tenants \cup {None}]
    /\ revoked \subseteq Keys
    /\ documents \subseteq [workspace : Workspaces, tenant : Tenants]
    /\ setting \in [Connections -> Settings(Tenants)]
    /\ request \in [Requests -> RequestStates]

Init ==
    /\ workspace_tenant = [w \in Workspaces |-> None]
    /\ member = [w \in Workspaces |-> [u \in Users |-> None]]
    /\ key_tenant = [k \in Keys |-> None]
    /\ revoked = {}
    /\ documents = {}
    /\ setting = [c \in Connections |-> Unset]
    /\ request = [r \in Requests |-> Idle]

Free(c) == \A r \in Requests : request[r].connection # c
Connected(r) == request[r].connection # None

\* What the policies let the session of r read or insert.
SeesEverything(r, t) == t # None
Sees(r, t) == Admits(setting[request[r].connection], t)

Go(r, q) == request' = [request EXCEPT ![r] = q]

-----------------------------------------------------------------------------
(* Before the handler: apps/api/deps/rbac.py                               *)

\* A token with a workspace or a tenant in the path, or an API key with a
\* tenant: nothing of a path is known to exist, or to be the caller's.
ReceiveForWorkspace(r, u, w) ==
    /\ request[r] = Idle
    /\ Go(r, [Idle EXCEPT !.pc = "arrived", !.user = u, !.workspace = w])
    /\ UNCHANGED <<rows, setting>>

ReceiveForTenant(r, u, t) ==
    /\ request[r] = Idle
    /\ Go(r, [Idle EXCEPT !.pc = "arrived", !.user = u, !.tenant = t])
    /\ UNCHANGED <<rows, setting>>

ReceiveWithKey(r, k, t) ==
    /\ request[r] = Idle
    /\ Go(r, [Idle EXCEPT !.pc = "resolved", !.key = k, !.tenant = t])
    /\ UNCHANGED <<rows, setting>>

\* The first statement of a transaction waits for a connection.
CheckOut(r, c) ==
    /\ request[r].pc \notin {"idle", "uploaded"}
    /\ ~Connected(r)
    /\ Free(c)
    /\ Go(r, [request[r] EXCEPT !.connection = c])
    /\ UNCHANGED <<rows, setting>>

\* The users row is there, or is inserted now.
ProvisionUser(r) ==
    /\ request[r].pc = "arrived" /\ Connected(r)
    /\ Go(r, [request[r] EXCEPT !.pc = "known"])
    /\ UNCHANGED <<rows, setting>>

RolledBack(r) ==
    setting' = [setting EXCEPT ![request[r].connection] = AfterRollback(@)]

\* Another session inserted the user first: IntegrityError, rollback. What
\* follows is a new transaction, perhaps on another connection.
LoseProvisioning(r) ==
    /\ request[r].pc = "arrived" /\ Connected(r)
    /\ RolledBack(r)
    /\ Go(r, [request[r] EXCEPT !.pc = "known", !.connection = None])
    /\ UNCHANGED rows

\* The tenant that the caller's member row gives, if there is one.
ResolvedTenantsOfCaller(q) ==
    IF q.workspace # None
    THEN {member[w][q.user] : w \in Workspaces} \ {None}
    ELSE {t \in {q.tenant} : <<t, q.user>> \in TenantMembers}
ResolvedTenants(q) ==
    IF q.workspace # None
    THEN {member[q.workspace][q.user]} \ {None}
    ELSE {t \in {q.tenant} : <<t, q.user>> \in TenantMembers}

ResolveRole(r, t) ==
    /\ request[r].pc = "known" /\ Connected(r)
    /\ t \in ResolvedTenants(request[r])
    /\ Go(r, [request[r] EXCEPT !.pc = "resolved", !.tenant = t])
    /\ UNCHANGED <<rows, setting>>

\* The call in the dependency with local=False.
SetTenantScopeForSession(r) ==
    /\ request[r].pc = "resolved" /\ Connected(r)
    /\ setting' = [setting EXCEPT ![request[r].connection] = SetSession(@, request[r].tenant)]
    /\ Go(r, [request[r] EXCEPT !.pc =
                 IF request[r].key # None THEN "looking_up" ELSE "authorized"])
    /\ UNCHANGED rows

\* An API key is looked up under the tenant that the path claims.
SetTenantScope(r) ==
    /\ request[r].pc = "resolved" /\ Connected(r)
    /\ setting' = [setting EXCEPT ![request[r].connection] = SetLocal(@, request[r].tenant)]
    /\ Go(r, [request[r] EXCEPT !.pc =
                 IF request[r].key # None THEN "looking_up" ELSE "authorized"])
    /\ UNCHANGED rows

FindsKey(r, k) == k \notin revoked /\ Sees(r, key_tenant[k])

\* By its hash alone: that the key is one of this tenant is left to the policy.
ResolveApiKey(r) ==
    /\ request[r].pc = "looking_up"
    /\ FindsKey(r, request[r].key)
    /\ Go(r, [request[r] EXCEPT !.pc = "authorized"])
    /\ UNCHANGED <<rows, setting>>

-----------------------------------------------------------------------------
(* The handlers, up to the commit                                          *)

\* A token in the tenant's path: the handlers that create refuse API keys.
ByTenantAdmin(r) ==
    request[r].pc = "authorized" /\ request[r].workspace = None /\ request[r].user # None
OnWorkspace(r) == request[r].pc = "authorized" /\ request[r].workspace # None

Creating(x) == \E q \in Requests : request[q].pc \in {"creating", "issuing"} /\ request[q].target = x

\* Ids and keys are drawn at random.
CreateWorkspace(r, w) ==
    /\ ByTenantAdmin(r)
    /\ workspace_tenant[w] = None /\ ~Creating(w)
    /\ Sees(r, request[r].tenant)
    /\ Go(r, [request[r] EXCEPT !.pc = "creating", !.target = w])
    /\ UNCHANGED <<rows, setting>>

CreateApiKey(r, k) ==
    /\ ByTenantAdmin(r)
    /\ key_tenant[k] = None /\ ~Creating(k)
    /\ Sees(r, request[r].tenant)
    /\ Go(r, [request[r] EXCEPT !.pc = "issuing", !.target = k])
    /\ UNCHANGED <<rows, setting>>

\* Any user may be named, of whatever tenant.
AddWorkspaceMember(r, u) ==
    /\ OnWorkspace(r)
    /\ Go(r, [request[r] EXCEPT !.pc = "adding", !.target = u])
    /\ UNCHANGED <<rows, setting>>

RemoveWorkspaceMember(r, u) ==
    /\ OnWorkspace(r)
    /\ member[request[r].workspace][u] # None
    /\ Go(r, [request[r] EXCEPT !.pc = "removing", !.target = u])
    /\ UNCHANGED <<rows, setting>>

\* The row is fetched by its id alone.
RevokeApiKey(r, k) ==
    /\ request[r].pc = "authorized" /\ request[r].workspace = None
    /\ Sees(r, key_tenant[k])
    /\ Go(r, [request[r] EXCEPT !.pc = "revoking", !.target = k])
    /\ UNCHANGED <<rows, setting>>

UploadDocument(r) ==
    /\ OnWorkspace(r)
    /\ Sees(r, request[r].tenant)
    /\ Go(r, [request[r] EXCEPT !.pc = "uploading"])
    /\ UNCHANGED <<rows, setting>>

\* The handlers that only read.
ReadRows(r) ==
    /\ request[r].pc = "authorized"
    /\ Go(r, [request[r] EXCEPT !.pc = "reading"])
    /\ UNCHANGED <<rows, setting>>

-----------------------------------------------------------------------------
(* The end of the transaction                                              *)

Committed(r) ==
    setting' = [setting EXCEPT ![request[r].connection] = AfterCommit(@)]

CommitWorkspace(r) ==
    LET q == request[r]
    IN  /\ q.pc = "creating"
        /\ workspace_tenant' = [workspace_tenant EXCEPT ![q.target] = q.tenant]
        /\ member' = [member EXCEPT ![q.target][q.user] = q.tenant]
        /\ Committed(r)
        /\ Go(r, Idle)
        /\ UNCHANGED <<key_tenant, revoked, documents>>

\* The tenant_id of a new member row.
CopiedTenantSwapped(q) == q.workspace
CopiedTenantOfTarget(q) ==
    LET known == {member[w][q.target] : w \in Workspaces} \ {None}
    IN  IF known = {} THEN q.tenant ELSE CHOOSE t \in known : TRUE
CopiedTenant(q) == q.tenant

\* With the audit_log row, which the policy must admit.
CommitMember(r) ==
    LET q == request[r]
    IN  /\ q.pc = "adding"
        /\ member[q.workspace][q.target] = None
        /\ Sees(r, q.tenant)
        /\ member' = [member EXCEPT ![q.workspace][q.target] = CopiedTenant(q)]
        /\ Committed(r)
        /\ Go(r, Idle)
        /\ UNCHANGED <<workspace_tenant, key_tenant, revoked, documents>>

\* A DELETE that finds no row only warns.
CommitRemoval(r) ==
    LET q == request[r]
    IN  /\ q.pc = "removing"
        /\ Sees(r, q.tenant)
        /\ member' = [member EXCEPT ![q.workspace][q.target] = None]
        /\ Committed(r)
        /\ Go(r, Idle)
        /\ UNCHANGED <<workspace_tenant, key_tenant, revoked, documents>>

CommitApiKey(r) ==
    LET q == request[r]
    IN  /\ q.pc = "issuing"
        /\ Sees(r, q.tenant)
        /\ key_tenant' = [key_tenant EXCEPT ![q.target] = q.tenant]
        /\ Committed(r)
        /\ Go(r, Idle)
        /\ UNCHANGED <<workspace_tenant, member, revoked, documents>>

CommitRevocation(r) ==
    /\ request[r].pc = "revoking"
    /\ Sees(r, request[r].tenant)
    /\ revoked' = revoked \cup {request[r].target}
    /\ Committed(r)
    /\ Go(r, Idle)
    /\ UNCHANGED <<workspace_tenant, member, key_tenant, documents>>

CommitRead(r) ==
    /\ request[r].pc = "reading"
    /\ Committed(r)
    /\ Go(r, Idle)
    /\ UNCHANGED rows

\* The same with a refresh of the job row after the commit.
CommitUploadAndRefresh(r) ==
    LET q == request[r]
    IN  /\ q.pc = "uploading"
        /\ documents' = documents \cup {[workspace |-> q.workspace, tenant |-> q.tenant]}
        /\ Committed(r)
        /\ Go(r, [q EXCEPT !.pc = "reading", !.connection = None])
        /\ UNCHANGED <<workspace_tenant, member, key_tenant, revoked>>

\* The handler itself commits, and goes on without the setting: it only uses
\* attributes that were loaded before (expire_on_commit=False).
CommitUpload(r) ==
    LET q == request[r]
    IN  /\ q.pc = "uploading"
        /\ documents' = documents \cup {[workspace |-> q.workspace, tenant |-> q.tenant]}
        /\ Committed(r)
        /\ Go(r, [q EXCEPT !.pc = "uploaded", !.connection = None])
        /\ UNCHANGED <<workspace_tenant, member, key_tenant, revoked>>

\* delay() and the response; get_db_session has nothing left to commit.
AnswerUpload(r) ==
    /\ request[r].pc = "uploaded"
    /\ Go(r, Idle)
    /\ UNCHANGED <<rows, setting>>

EndFailed(r) ==
    /\ IF Connected(r) THEN RolledBack(r) ELSE UNCHANGED setting
    /\ Go(r, Idle)
    /\ UNCHANGED rows

\* No member row, no such key in this tenant, or a member already.
IsRefused(r) ==
    LET q == request[r]
    IN  \/ q.pc = "known" /\ Connected(r) /\ ResolvedTenants(q) = {}
        \/ q.pc = "looking_up" /\ ~FindsKey(r, q.key)
        \/ q.pc = "adding" /\ member[q.workspace][q.target] # None
Refuse(r) == IsRefused(r) /\ EndFailed(r)

\* Any statement raises, the pool times out, or the client goes away.
Fail(r) == request[r] # Idle /\ EndFailed(r)

-----------------------------------------------------------------------------

Authenticate(r) ==
    \/ \E c \in Connections : CheckOut(r, c)
    \/ ProvisionUser(r)
    \/ LoseProvisioning(r)
    \/ \E t \in Tenants : ResolveRole(r, t)
    \/ SetTenantScope(r)
    \/ ResolveApiKey(r)

Handle(r) ==
    \/ \E w \in Workspaces : CreateWorkspace(r, w)
    \/ \E k \in Keys : CreateApiKey(r, k)
    \/ \E u \in Users : AddWorkspaceMember(r, u)
    \/ \E u \in Users : RemoveWorkspaceMember(r, u)
    \/ \E k \in Keys : RevokeApiKey(r, k)
    \/ UploadDocument(r)
    \/ ReadRows(r)

End(r) ==
    \/ CommitWorkspace(r)
    \/ CommitMember(r)
    \/ CommitRemoval(r)
    \/ CommitApiKey(r)
    \/ CommitRevocation(r)
    \/ CommitRead(r)
    \/ CommitUpload(r)
    \/ AnswerUpload(r)
    \/ Refuse(r)

Receive(r) ==
    \/ \E u \in Users, w \in Workspaces : ReceiveForWorkspace(r, u, w)
    \/ \E u \in Users, t \in Tenants : ReceiveForTenant(r, u, t)
    \/ \E k \in Keys, t \in Tenants : ReceiveWithKey(r, k, t)

Next ==
    \E r \in Requests :
        Receive(r) \/ Authenticate(r) \/ Handle(r) \/ End(r) \/ Fail(r)

Spec == Init /\ [][Next]_vars

-----------------------------------------------------------------------------

\* No request inherits the tenant of an earlier one: whatever way a request
\* ended, the connection it gave back to the pool is scoped to no tenant.
PoolIsUnscoped == \A c \in Connections : Free(c) => setting[c] = Unset

\* Without the setting a query returns nothing instead of failing. From the
\* role check to the last statement of a handler, its session sees the tenant
\* that the check found, also when the connection was changed on the way.
HandlersSeeTheirTenant ==
    \A r \in Requests :
        request[r].pc \in Handling => Connected(r) /\ Sees(r, request[r].tenant)

\* workspace_members.tenant_id is a copy no constraint ties to the workspace;
\* it selects the tenant of every later request, so it must never differ.
MemberRowsAgree ==
    \A w \in Workspaces, u \in Users :
        member[w][u] # None => member[w][u] = workspace_tenant[w]

\* Every document of a workspace is visible to every request on it, whoever
\* uploaded it: a row of another tenant_id would be lost to the others.
WorkspaceIsComplete ==
    \A r \in Requests : \A d \in documents :
        request[r].pc \in Handling /\ d.workspace = request[r].workspace =>
            Sees(r, d.tenant)

\* A connection shows a tenant's rows only to a request that has proved a
\* right to them, or that is still looking for its API key among them.
ScopeIsEarned ==
    \A c \in Connections : setting[c].seen # None =>
        \E r \in Requests :
            /\ request[r].connection = c
            /\ \/ request[r].pc = "looking_up"
               \/ request[r].key # None /\ key_tenant[request[r].key] = setting[c].seen
               \/ request[r].workspace # None /\ workspace_tenant[request[r].workspace] = setting[c].seen
               \/ <<setting[c].seen, request[r].user>> \in TenantMembers

\* A key is revoked by requests of its own tenant only, although the handler
\* names no tenant when it fetches the row.
RevokedByItsTenant ==
    [][\A k \in revoked' \ revoked :
           \E r \in Requests : request[r].pc = "revoking" /\ request[r].tenant = key_tenant[k]]_vars
=============================================================================
